--------------------------- MODULE DesktopProjectsProofs ---------------------------
(***************************************************************************)
(* The projects and the updates of the Desktop, for every set of           *)
(* checkouts, workers, documents and versions, and every number of         *)
(* failures and deaths.                                                    *)
(***************************************************************************)
EXTENDS DesktopInvariant, Integers, TLAPS

(***************************************************************************)
(* The projects.                                                           *)
(***************************************************************************)

USE DEF Projects!Starting, Projects!Activating, Projects!Writing, Projects!LockedWrites, Projects!StartWrites,
        Projects!Serving, Projects!MainHolds

LEMMA ProjectConstants ==
    /\ LegacyRoot \in Roots /\ NoRoot \notin Roots /\ NoRegistry \notin Projects!Registries
    /\ LegacySlot \notin Roots \cup {NoRoot} /\ MaxGeneration \in Nat /\ MaxTrouble \in Nat
  BY ProjectsAssumption
  DEF Projects!RootsAssumption, Projects!SlotAssumption, Projects!BoundsAssumption

------------------------------------------------------------------------------------
(* The main thread.                                                                *)

MainOps == Projects!LockedWrites \cup Projects!StartWrites \cup {"none", "bind"}
MainSteps == Projects!Starting \cup Projects!Activating \cup Projects!Writing \cup {"down", "idle"}

LEMMA MainFields ==
    ASSUME Projects!TypeOK
    PROVE  /\ main.op \in MainOps /\ main.step \in MainSteps /\ main.root \in Roots \cup {NoRoot}
           /\ main.draft \in Projects!Registries \cup {NoRegistry}
  BY DEF Projects!TypeOK, Projects!Mains, MainOps, MainSteps

LEMMA GotoFields ==
    ASSUME Projects!TypeOK, NEW step \in MainSteps, Projects!Goto(step)
    PROVE  /\ main' \in Projects!Mains /\ main'.step = step
           /\ main'.op = main.op /\ main'.root = main.root /\ main'.draft = main.draft
  BY DEF Projects!TypeOK, Projects!Mains, MainSteps, Projects!Goto

LEMMA DownFields ==
    /\ Projects!Down \in Projects!Mains /\ Projects!Down.op = "none" /\ Projects!Down.step = "down"
    /\ Projects!Down.root = NoRoot
    /\ Projects!Idle \in Projects!Mains /\ Projects!Idle.op = "none" /\ Projects!Idle.step = "idle"
    /\ Projects!Idle.root = NoRoot
  BY DEF Projects!Down, Projects!Idle, Projects!Mains

LEMMA DownAt ==
    ASSUME NEW step \in MainSteps, NEW r \in Roots \cup {NoRoot},
           main' = [Projects!Down EXCEPT !.step = step, !.root = r]
    PROVE  main' \in Projects!Mains /\ main'.op = "none" /\ main'.step = step /\ main'.root = r
  BY DEF Projects!Down, Projects!Mains, MainSteps

\* What is to be written.
Drafts(op, r, g) == main' = [op |-> op, step |-> "checkpoint", root |-> r, draft |-> g]

LEMMA DraftFields ==
    ASSUME NEW op \in MainOps, NEW r \in Roots \cup {NoRoot}, NEW g \in Projects!Registries, Drafts(op, r, g)
    PROVE  /\ main' \in Projects!Mains /\ main'.op = op /\ main'.step = "checkpoint"
           /\ main'.root = r /\ main'.draft = g
  BY DEF Drafts, Projects!Mains, MainOps, Projects!Writing

\* A step that changes nothing but where the main thread is.
Elsewhere == <<registry, backup, dir, legacy, stage, source, brain, runtime, job, trouble, torn>>

LEMMA SoundKept ==
    ASSUME UNCHANGED <<dir, brain, source>>, NEW g
    PROVE  Sound(g)' <=> Sound(g)
  BY DEF Sound, IdentityFits

LEMMA Moves ==
    ASSUME ProjectsInv, UNCHANGED Elsewhere, main' \in Projects!Mains,
           main.step # "commit", main'.step # "commit", Records(Held, runtime.active),
           MainFits', WriteInv', ImportInv', BrainInv',
           Projects!Serving \/ main.step = "clean" => Projects!Serving',
           Projects!MainHolds' => ~Projects!JobHolds
    PROVE  ProjectsInv'
<1>. USE DEF ProjectsInv
<1>1. UNCHANGED <<registry, backup, dir, legacy, stage, source, brain, runtime, job, trouble, torn>>
  BY DEF Elsewhere
<1>2. Standing' = Standing /\ Standing = registry /\ Held' = Held
  BY <1>1 DEF Standing, Held
<1>3. Projects!TypeOK'
  BY <1>1 DEF Projects!TypeOK, Projects!RegistryTypeOK
<1>4. StandingInv'
  BY <1>1, <1>2, SoundKept DEF StandingInv
<1>5. ActiveInv'
  BY <1>1, <1>2 DEF ActiveInv, Records
<1>6. JobInv'
  <2>1. SUFFICES ASSUME NEW w \in Workers PROVE JobFits(job[w])'
    BY <1>1 DEF JobInv
  <2>2. JobFits(job[w])
    BY DEF JobInv
  <2>. QED  BY <1>1, <1>2, <2>2 DEF JobFits, Projects!JobHolds
<1>. QED  BY <1>3, <1>4, <1>5, <1>6

\* A write begins.
LEMMA Begins ==
    ASSUME ProjectsInv, UNCHANGED Elsewhere,
           NEW op \in MainOps \ {"register"}, NEW r \in Roots \cup {NoRoot}, NEW g \in Projects!Registries,
           Drafts(op, r, g), Sound(g), Records(g, Becomes'), Records(Held, runtime.active),
           main.step \notin Projects!Writing,
           op # "none", r = NoRoot => op \in {"not-needed", "recovery-required"},
           registry # NoRegistry \/ (op = "finalize" /\ main.step = "finalize" /\ backup = NoRegistry),
           op = "finalize" => main.step = "finalize",
           op = "bind" => r \in Roots /\ g.projects[r] = "registered",
           op \in Projects!LockedWrites => ~Projects!JobHolds,
           Projects!Serving \/ main.step = "clean" => op \notin Projects!StartWrites
    PROVE  ProjectsInv'
<1>1. main' \in Projects!Mains /\ main'.op = op /\ main'.step = "checkpoint" /\ main'.root = r /\ main'.draft = g
  BY DraftFields
<1>2. UNCHANGED <<registry, backup, dir, legacy, stage, source, brain, runtime, job, trouble, torn>>
  BY DEF Elsewhere
<1>3. Standing' = Standing /\ Standing = registry
  BY <1>1, <1>2 DEF Standing
<1>4. MainFits'
  BY <1>1, <1>2, <1>3 DEF MainFits
<1>5. Sound(main.draft)'
  BY <1>1, <1>2 DEF Sound, IdentityFits
<1>6. Records(main.draft, Becomes)'
  BY <1>1 DEF Records
<1>7. WriteInv'
  BY <1>1, <1>2, <1>5, <1>6 DEF WriteInv
<1>8. ImportInv'
  BY <1>1, <1>2, <1>3 DEF ProjectsInv, ImportInv, Imported, Interrupted, Projects!Unreadable, Projects!Orphans
<1>9. BrainInv'
  BY <1>1, <1>2 DEF ProjectsInv, BrainInv
<1>. QED  BY <1>1, <1>4, <1>7, <1>8, <1>9, Moves

\* The main thread returns.
LEMMA MainReturns ==
    ASSUME ProjectsInv, UNCHANGED Elsewhere, main' = Projects!Idle, main.step \notin Projects!Writing,
           Records(Held, runtime.active), registry # NoRegistry \/ torn \/ ~Projects!Unreadable,
           registry # NoRegistry \/ main.step \notin {"down", "stage", "populate", "place"}
    PROVE  ProjectsInv'
<1>1. main' \in Projects!Mains /\ main'.op = "none" /\ main'.step = "idle"
  BY DownFields
<1>2. UNCHANGED <<registry, backup, dir, legacy, stage, source, brain, runtime, job, trouble, torn>>
  BY DEF Elsewhere
<1>3. Standing' = Standing /\ Standing = registry
  BY <1>1, <1>2 DEF Standing
<1>4. MainFits'
  BY <1>1 DEF MainFits
<1>7. WriteInv'
  BY <1>1 DEF WriteInv
<1>8. ImportInv'
  BY <1>1, <1>2, <1>3 DEF ProjectsInv, ImportInv, Imported, Interrupted, Projects!Unreadable, Projects!Orphans
<1>9. BrainInv'
  BY <1>1, <1>2 DEF ProjectsInv, BrainInv
<1>. QED  BY <1>1, <1>4, <1>7, <1>8, <1>9, Moves

\* The main thread goes on to a step of an activation.
LEMMA GoesOn ==
    ASSUME ProjectsInv, UNCHANGED Elsewhere, main' \in Projects!Mains,
           main.step = "idle" \/ main.step \in Projects!Activating,
           Records(Held, runtime.active),
           main'.step \in Projects!Activating, main'.op \in {"none", "bind"},
           main'.root \in Roots, registry # NoRegistry, registry.projects[main'.root] = "registered",
           BrainInv'
    PROVE  ProjectsInv'
<1>2. UNCHANGED <<registry, backup, dir, legacy, stage, source, brain, runtime, job, trouble, torn>>
  BY DEF Elsewhere
<1>4. MainFits'
  BY <1>2 DEF MainFits
<1>7. WriteInv'
  BY DEF WriteInv
<1>8. ImportInv'
  BY <1>2 DEF ProjectsInv, ImportInv
<1>10. main.step = "idle" => main.op = "none"
  BY DownFields DEF ProjectsInv, MainFits
<1>. QED  BY <1>4, <1>7, <1>8, <1>10, Moves

\* What the registry is while nothing replaces it.
LEMMA AtRest ==
    ASSUME ProjectsInv, main.step # "commit"
    PROVE  /\ Standing = registry /\ Held = Projects!Loaded
           /\ registry # NoRegistry => Sound(registry) /\ Projects!Loaded = registry
           /\ registry = NoRegistry => Projects!Loaded = Projects!EmptyRegistry
           /\ Projects!Loaded \in Projects!Registries
           /\ main.step # "drop" /\ ~(main.step = "idle" /\ Projects!Unreadable) => Records(Held, runtime.active)
<1>1. Standing = registry /\ Held = Projects!Loaded
  BY DEF Standing, Held, Projects!Loaded
<1>2. Projects!EmptyRegistry \in Projects!Registries
  BY ProjectConstants DEF Projects!EmptyRegistry, Projects!Registries, Projects!NoIdentity
<1>. QED  BY <1>1, <1>2 DEF ProjectsInv, StandingInv, Sound, Projects!Loaded, ActiveInv

\* A command starts from a registry that can be read.
LEMMA Beginning ==
    ASSUME ProjectsInv, Projects!Begin
    PROVE  /\ main.step = "idle" /\ main.op = "none" /\ Records(Held, runtime.active)
           /\ Standing = registry /\ Held = Projects!Loaded
           /\ \A r \in Roots : Projects!Loaded.projects[r] # "absent" => registry # NoRegistry
           /\ registry # NoRegistry => Sound(registry) /\ Projects!Loaded = registry
           /\ Projects!Serving
<1>1. main.step = "idle" /\ ~Projects!Unreadable
  BY DEF Projects!Begin
<1>2. main.op = "none"
  BY <1>1, DownFields DEF ProjectsInv, MainFits
<1>3. \A r \in Roots : Projects!EmptyRegistry.projects[r] = "absent"
  BY DEF Projects!EmptyRegistry
<1>. QED  BY <1>1, <1>2, <1>3, AtRest

LEMMA RenameKeeps ==
    ASSUME ProjectsInv, NEW r \in Roots, Projects!Rename(r)
    PROVE  ProjectsInv'
<1>1. registry # NoRegistry /\ Sound(registry) /\ Projects!Loaded = registry /\ registry \in Projects!Registries
  BY Beginning DEF Projects!Rename, Projects!Projects, Sound
<1>2. UNCHANGED Elsewhere
  BY DEF Projects!Rename, Projects!diskVars, Projects!registryVars, Elsewhere
<1>3. Drafts("rename", r, registry)
  BY <1>1 DEF Projects!Rename, Projects!Write, Drafts, Sound
<1>4. main'.op = "rename" /\ UNCHANGED runtime
  BY <1>2, <1>3 DEF Drafts, Elsewhere
<1>5. Records(Held, runtime.active) /\ Held = registry
  BY <1>1, Beginning DEF Projects!Rename
<1>6. Records(registry, Becomes')
  BY <1>2, <1>4, <1>5 DEF Becomes, Records, Elsewhere
<1>7. main.step = "idle" /\ Projects!Free
  BY Beginning DEF Projects!Rename
<1>8. "rename" \in MainOps \ {"register"} /\ r # NoRoot
  BY ProjectConstants DEF MainOps
<1>9. ~Projects!JobHolds
  BY <1>7 DEF Projects!Free
<1>. QED  BY <1>1, <1>2, <1>3, <1>5, <1>6, <1>7, <1>8, <1>9, Begins

\* A registry that is written holds a project.
LEMMA ChangedFields ==
    ASSUME NEW g \in Projects!Registries, NEW r \in Roots
    PROVE  /\ \A s \in {"registered", "detached"} :
                /\ [g EXCEPT !.projects[r] = s] \in Projects!Registries
                /\ [g EXCEPT !.projects[r] = s].projects = [g.projects EXCEPT ![r] = s]
                /\ [g EXCEPT !.projects[r] = s].identity = g.identity
                /\ [g EXCEPT !.projects[r] = s].last = g.last
                /\ [g EXCEPT !.projects[r] = s].legacy = g.legacy
           /\ \A i \in Projects!Identities \cup {Projects!NoIdentity} :
                /\ [g EXCEPT !.identity[r] = i] \in Projects!Registries
                /\ [g EXCEPT !.identity[r] = i].identity = [g.identity EXCEPT ![r] = i]
                /\ [g EXCEPT !.identity[r] = i].projects = g.projects
                /\ [g EXCEPT !.identity[r] = i].last = g.last
                /\ [g EXCEPT !.identity[r] = i].legacy = g.legacy
           /\ \A l \in Roots \cup {NoRoot} :
                /\ [g EXCEPT !.last = l] \in Projects!Registries
                /\ [g EXCEPT !.last = l].last = l
                /\ [g EXCEPT !.last = l].projects = g.projects
                /\ [g EXCEPT !.last = l].identity = g.identity
                /\ [g EXCEPT !.last = l].legacy = g.legacy
  BY DEF Projects!Registries

LEMMA DetachKeeps ==
    ASSUME ProjectsInv, NEW r \in Roots, Projects!Detach(r)
    PROVE  ProjectsInv'
<1>1. /\ registry # NoRegistry /\ Sound(registry) /\ Projects!Loaded = registry /\ registry \in Projects!Registries
      /\ r \in Projects!Projects(registry)
  BY Beginning DEF Projects!Detach, Projects!Projects, Sound
<1>2. UNCHANGED Elsewhere
  BY DEF Projects!Detach, Projects!diskVars, Projects!registryVars, Elsewhere
<1>3. PICK g : g = Projects!DetachedFrom(registry, r)
  OBVIOUS
<1>4. /\ g \in Projects!Registries /\ g.projects = [registry.projects EXCEPT ![r] = "detached"]
      /\ g.last = (IF registry.last = r THEN NoRoot ELSE registry.last)
      /\ g.identity = registry.identity /\ g.legacy = registry.legacy
  BY <1>1, <1>3 DEF Projects!DetachedFrom, Projects!Registries
<1>5. /\ registry.projects \in [Roots -> {"absent", "registered", "detached"}]
      /\ registry.last \in Roots \cup {NoRoot}
  BY <1>1 DEF Projects!Registries
<1>6. Projects!Valid(g) /\ r \in Projects!Projects(g) /\ \A p \in Roots : registry.projects[p] # "absent" => g.projects[p] # "absent"
  BY <1>1, <1>4, <1>5, ProjectConstants DEF Sound, Projects!Valid, Projects!Projects
<1>7. Sound(g)
  BY <1>1, <1>4, <1>6, ProjectConstants DEF Sound
<1>8. Drafts("detach", r, g)
  BY <1>1, <1>3, <1>6 DEF Projects!Detach, Projects!Write, Drafts
<1>9. main'.op = "detach" /\ main'.root = r /\ UNCHANGED runtime
  BY <1>2, <1>8 DEF Drafts, Elsewhere
<1>10. Records(Held, runtime.active) /\ Held = registry /\ main.step = "idle" /\ Projects!Free
  BY <1>1, Beginning DEF Projects!Detach
<1>11. runtime.active \in Roots \cup {NoRoot}
  BY DEF ProjectsInv, Projects!TypeOK, Projects!Runtimes
<1>12. Records(g, Becomes')
  BY <1>4, <1>5, <1>9, <1>10, <1>11 DEF Becomes, Records
<1>13. "detach" \in MainOps \ {"register"} /\ r # NoRoot
  BY ProjectConstants DEF MainOps
<1>14. ~Projects!JobHolds
  BY <1>10 DEF Projects!Free
<1>. QED  BY <1>1, <1>2, <1>4, <1>7, <1>8, <1>10, <1>12, <1>13, <1>14, Begins

LEMMA ProjectActivateKeeps ==
    ASSUME ProjectsInv, NEW r \in Roots, Projects!Activate(r)
    PROVE  ProjectsInv'
<1>1. registry # NoRegistry /\ Projects!Loaded = registry /\ registry.projects[r] = "registered"
  BY Beginning DEF Projects!Activate
<1>2. UNCHANGED Elsewhere
  BY DEF Projects!Activate, Projects!diskVars, Projects!registryVars, Elsewhere
<1>3. main' \in Projects!Mains /\ main'.op = "none" /\ main'.step = "storage" /\ main'.root = r
  BY DEF Projects!Activate, Projects!Idle, Projects!Down, Projects!Mains
<1>4. Records(Held, runtime.active) /\ main.step = "idle"
  BY Beginning DEF Projects!Activate
<1>5. BrainInv'
  BY <1>2, <1>3 DEF ProjectsInv, BrainInv, Elsewhere
<1>. QED  BY <1>1, <1>2, <1>3, <1>4, <1>5, GoesOn

\* What holds at every step of an activation.
LEMMA Activation ==
    ASSUME ProjectsInv, main.step \in Projects!Activating
    PROVE  /\ main.op \in {"none", "bind"} /\ main.root \in Roots /\ main.root # NoRoot
           /\ registry # NoRegistry /\ registry.projects[main.root] = "registered"
           /\ Standing = registry /\ Held = registry /\ Projects!Loaded = registry /\ Sound(registry)
           /\ registry \in Projects!Registries
           /\ Records(Held, runtime.active) /\ ~Projects!Unreadable
<1>1. /\ main.op \in {"none", "bind"} /\ registry # NoRegistry /\ registry.projects[main.root] = "registered"
      /\ main.root \in Roots /\ main.root # NoRoot
  BY ProjectConstants DEF ProjectsInv, MainFits
<1>. QED  BY <1>1, AtRest DEF Projects!Unreadable, Sound

\* The main thread at an activation changes the Project Brain of its project.
LEMMA BrainMade ==
    ASSUME ProjectsInv, main.step \in Projects!Activating,
           UNCHANGED <<registry, backup, dir, legacy, stage, runtime, job, trouble, torn>>,
           main' \in Projects!Mains, main'.step \in Projects!Activating,
           main'.op = main.op, main'.root = main.root,
           brain' \in [Roots -> {"none", "same", "changed", "new"}],
           source' \in [Roots -> {"none", "whole", "torn"}],
           BrainInv',
           \A i \in Projects!Identities \cup {Projects!NoIdentity}, p \in Roots : IdentityFits(i, p) => IdentityFits(i, p)'
    PROVE  ProjectsInv'
<1>1. Standing' = Standing /\ Standing = registry /\ Held' = Held
  BY DEF Standing, Held
<1>2. Projects!TypeOK'
  BY DEF ProjectsInv, Projects!TypeOK, Projects!RegistryTypeOK
<1>3. MainFits' /\ WriteInv'
  BY Activation DEF MainFits, WriteInv
<1>4. Sound(registry)'
  BY Activation DEF Sound, Projects!Registries
<1>5. StandingInv'
  BY <1>1, <1>4 DEF ProjectsInv, StandingInv
<1>6. ImportInv'
  BY Activation DEF ProjectsInv, ImportInv
<1>7. ActiveInv'
  BY <1>1, Activation DEF ProjectsInv, ActiveInv, Records
<1>8. JobInv'
  <2>1. SUFFICES ASSUME NEW w \in Workers PROVE JobFits(job[w])'
    BY DEF JobInv
  <2>2. JobFits(job[w])
    BY DEF JobInv, ProjectsInv
  <2>. QED  BY <1>1, <2>2, Activation DEF JobFits
<1>. QED  BY <1>2, <1>3, <1>5, <1>6, <1>7, <1>8 DEF ProjectsInv

LEMMA StorageKeeps ==
    ASSUME ProjectsInv, Projects!Storage
    PROVE  ProjectsInv'
<1>1. main.step \in Projects!Activating
  BY DEF Projects!Storage
<1>. USE <1>1
<1>2. UNCHANGED <<registry, backup, dir, legacy, stage, source, runtime, job, trouble, torn>>
  BY DEF Projects!Storage, Projects!registryVars
<1>3. brain \in [Roots -> {"none", "same", "changed", "new"}] /\ source \in [Roots -> {"none", "whole", "torn"}]
  BY DEF ProjectsInv, Projects!TypeOK
<1>4. BrainInv
  BY DEF ProjectsInv
<1>5. CASE UNCHANGED brain /\ main' = Projects!Idle
  BY <1>2, <1>5, Activation, MainReturns DEF Elsewhere
<1>6. CASE UNCHANGED brain /\ main' # Projects!Idle
  <2>1. PICK step \in {"bind", "unlink", "promote"} :
            /\ Projects!Goto(step)
            /\ step = "promote" => brain[main.root] = "none" /\ source[main.root] = "whole"
            /\ step = "unlink" => brain[main.root] = "same"
    BY <1>6, <1>3, Activation DEF Projects!Storage, Projects!Return
  <2>2. /\ main' \in Projects!Mains /\ main'.step = step
        /\ main'.op = main.op /\ main'.root = main.root
    BY <2>1, GotoFields DEF MainSteps, ProjectsInv
  <2>3. BrainInv'
    BY <1>2, <1>4, <1>6, <2>1, <2>2 DEF BrainInv
  <2>. QED  BY <1>2, <1>6, <2>2, <2>3, Activation, GoesOn DEF Elsewhere
<1>7. CASE ~UNCHANGED brain
  <2>1. PICK r : r = main.root
    OBVIOUS
  <2>2. /\ r \in Roots /\ brain[r] = "none" /\ source[r] = "none"
        /\ brain' = [brain EXCEPT ![r] = "new"] /\ Projects!Goto("bind")
    BY <1>7, <2>1, Activation DEF Projects!Storage
  <2>3. /\ main' \in Projects!Mains /\ main'.step = "bind"
        /\ main'.op = main.op /\ main'.root = main.root
    BY <2>2, GotoFields DEF MainSteps, ProjectsInv
  <2>4. /\ brain' \in [Roots -> {"none", "same", "changed", "new"}]
        /\ \A p \in Roots : brain'[p] = IF p = r THEN "new" ELSE brain[p]
    BY <1>3, <2>2
  <2>5. BrainInv'
    BY <1>2, <1>4, <2>2, <2>3, <2>4 DEF BrainInv
  <2>6. \A i : \A p \in Roots : IdentityFits(i, p) => IdentityFits(i, p)'
    BY <1>2, <2>2, <2>4 DEF IdentityFits, Projects!IdentityOf
  <2>. QED  BY <1>2, <1>3, <2>3, <2>4, <2>5, <2>6, BrainMade
<1>. QED  BY <1>5, <1>6, <1>7

LEMMA PromoteKeeps ==
    ASSUME ProjectsInv, Projects!Promote
    PROVE  ProjectsInv'
<1>1. PICK r : r = main.root
  OBVIOUS
<1>2. main.step = "promote" /\ r \in Roots /\ brain[r] = "none" /\ source[r] = "whole"
  BY <1>1, Activation DEF Projects!Promote, ProjectsInv, BrainInv
<1>3. UNCHANGED <<registry, backup, dir, legacy, stage, source, runtime, job, trouble, torn>>
  BY DEF Projects!Promote, Projects!registryVars
<1>4. brain' = [brain EXCEPT ![r] = "same"] /\ Projects!Goto("unlink")
  BY <1>1 DEF Projects!Promote
<1>5. main' \in Projects!Mains /\ main'.step = "unlink" /\ main'.op = main.op /\ main'.root = main.root
  BY <1>4, GotoFields DEF MainSteps, ProjectsInv
<1>6. brain \in [Roots -> {"none", "same", "changed", "new"}] /\ source \in [Roots -> {"none", "whole", "torn"}]
  BY DEF ProjectsInv, Projects!TypeOK
<1>7. /\ brain' \in [Roots -> {"none", "same", "changed", "new"}]
      /\ \A p \in Roots : brain'[p] = IF p = r THEN "same" ELSE brain[p]
  BY <1>4, <1>6
<1>8. BrainInv'
  BY <1>1, <1>2, <1>3, <1>5, <1>7 DEF ProjectsInv, BrainInv
<1>9. \A i : \A p \in Roots : IdentityFits(i, p) => IdentityFits(i, p)'
  BY <1>2, <1>3, <1>7 DEF IdentityFits, Projects!IdentityOf
<1>. QED  BY <1>2, <1>3, <1>5, <1>6, <1>7, <1>8, <1>9, BrainMade

LEMMA UnlinkKeeps ==
    ASSUME ProjectsInv, Projects!Unlink
    PROVE  ProjectsInv'
<1>1. PICK r : r = main.root
  OBVIOUS
<1>2. main.step \in {"unlink", "unlinked"} /\ r \in Roots /\ brain[r] \in {"same", "changed"}
  BY <1>1, Activation DEF Projects!Unlink, ProjectsInv, BrainInv
<1>3. UNCHANGED <<registry, backup, dir, legacy, stage, brain, runtime, job, trouble, torn>>
  BY DEF Projects!Unlink, Projects!registryVars
<1>4. PICK s \in {"torn", "none"}, step \in {"unlinked", "bind"} :
          source' = [source EXCEPT ![r] = s] /\ Projects!Goto(step)
  BY <1>1 DEF Projects!Unlink
<1>5. main' \in Projects!Mains /\ main'.step = step /\ main'.op = main.op /\ main'.root = main.root
  BY <1>4, GotoFields DEF MainSteps, ProjectsInv
<1>6. brain \in [Roots -> {"none", "same", "changed", "new"}] /\ source \in [Roots -> {"none", "whole", "torn"}]
  BY DEF ProjectsInv, Projects!TypeOK
<1>7. /\ source' \in [Roots -> {"none", "whole", "torn"}]
      /\ \A p \in Roots : source'[p] = IF p = r THEN s ELSE source[p]
  BY <1>4, <1>6
<1>8. BrainInv'
  BY <1>1, <1>2, <1>3, <1>5, <1>7 DEF ProjectsInv, BrainInv
<1>9. \A i : \A p \in Roots : IdentityFits(i, p) => IdentityFits(i, p)'
  BY <1>2, <1>3, <1>7 DEF IdentityFits, Projects!IdentityOf
<1>. QED  BY <1>2, <1>3, <1>5, <1>6, <1>7, <1>8, <1>9, BrainMade

LEMMA BindKeeps ==
    ASSUME ProjectsInv, Projects!Bind
    PROVE  ProjectsInv'
<1>1. main.step = "bind" /\ UNCHANGED Elsewhere
  BY DEF Projects!Bind, Projects!diskVars, Projects!registryVars, Elsewhere
<1>2. PICK r : r = main.root
  OBVIOUS
<1>3. PICK i : i = Projects!IdentityOf(brain[r])
  OBVIOUS
<1>4. i \in Projects!Identities \cup {Projects!NoIdentity}
  BY <1>3 DEF Projects!IdentityOf, Projects!Identities
<1>5. PICK g : g = [registry EXCEPT !.identity[r] = i]
  OBVIOUS
<1>6. \/ main' = Projects!Idle
      \/ Projects!Goto("lock")
      \/ Projects!Write("bind", r, g)
  BY <1>1, <1>2, <1>3, <1>5, Activation DEF Projects!Bind, Projects!Return
<1>7. r \in Roots /\ r # NoRoot
  BY <1>1, <1>2, Activation
<1>8. CASE main' = Projects!Idle
  BY <1>1, <1>8, Activation, MainReturns
<1>9. CASE Projects!Goto("lock")
  <2>1. main' \in Projects!Mains /\ main'.step = "lock" /\ main'.op = main.op /\ main'.root = main.root
    BY <1>9, GotoFields DEF MainSteps, ProjectsInv
  <2>2. BrainInv'
    BY <1>1, <2>1 DEF ProjectsInv, BrainInv, Elsewhere
  <2>. QED  BY <1>1, <2>1, <2>2, Activation, GoesOn
<1>10. CASE Projects!Write("bind", r, g)
  <2>1. /\ g \in Projects!Registries /\ g.identity = [registry.identity EXCEPT ![r] = i]
        /\ g.projects = registry.projects /\ g.last = registry.last /\ g.legacy = registry.legacy
    BY ZenonT(60), <1>1, <1>4, <1>5, <1>7, Activation, ChangedFields
  <2>2. registry.identity \in [Roots -> Projects!Identities \cup {Projects!NoIdentity}]
    BY <1>1, Activation DEF Projects!Registries
  <2>3. \A p \in Roots : IdentityFits(g.identity[p], p)
    BY <1>1, <1>3, <2>1, <2>2, Activation DEF Sound, IdentityFits
  <2>4. Sound(g) /\ Projects!Valid(g)
    BY <1>1, <2>1, <2>3, Activation DEF Sound, Projects!Valid, Projects!Projects
  <2>5. Drafts("bind", r, g)
    BY <1>10, <2>4 DEF Projects!Write, Drafts
  <2>6. main'.op = "bind" /\ UNCHANGED runtime
    BY <1>1, <2>5 DEF Drafts, Elsewhere
  <2>7. Records(g, Becomes')
    BY <1>1, <2>1, <2>6, Activation DEF Becomes, Records
  <2>8. "bind" \in MainOps \ {"register"}
    BY DEF MainOps
  <2>9. r \in Roots /\ g.projects[r] = "registered"
    BY <1>1, <1>2, <2>1, Activation
  <2>. QED  BY <1>1, <1>7, <2>1, <2>4, <2>5, <2>7, <2>8, <2>9, Activation, Begins
<1>. QED  BY <1>6, <1>8, <1>9, <1>10

LEMMA LockKeeps ==
    ASSUME ProjectsInv, Projects!Lock
    PROVE  ProjectsInv'
<1>1. main.step = "lock" /\ Projects!Free /\ UNCHANGED Elsewhere
  BY DEF Projects!Lock, Projects!diskVars, Projects!registryVars, Elsewhere
<1>2. PICK r : r = main.root
  OBVIOUS
<1>3. r \in Roots /\ r # NoRoot
  BY <1>1, <1>2, Activation
<1>4. PICK g : g = [registry EXCEPT !.last = r]
  OBVIOUS
<1>5. Projects!Write("activate", r, g)
  BY <1>1, <1>2, <1>4, Activation DEF Projects!Lock
<1>6. /\ g \in Projects!Registries /\ g.last = r /\ g.projects = registry.projects
      /\ g.identity = registry.identity /\ g.legacy = registry.legacy
  BY <1>1, <1>3, <1>4, Activation, ChangedFields
<1>7. g.projects[r] = "registered"
  BY <1>1, <1>2, <1>6, Activation
<1>8. Sound(g) /\ Projects!Valid(g)
  BY <1>1, <1>6, <1>7, Activation DEF Sound, Projects!Valid, Projects!Projects
<1>9. Drafts("activate", r, g)
  BY <1>5, <1>8 DEF Projects!Write, Drafts
<1>10. main'.op = "activate" /\ main'.root = r
  BY <1>9 DEF Drafts
<1>11. Records(g, Becomes')
  BY <1>6, <1>7, <1>10 DEF Becomes, Records
<1>12. "activate" \in MainOps \ {"register"} /\ ~Projects!JobHolds
  BY <1>1 DEF MainOps, Projects!Free
<1>. QED  BY <1>1, <1>3, <1>6, <1>8, <1>9, <1>11, <1>12, Activation, Begins

------------------------------------------------------------------------------------
(* The start.                                                                      *)

\* Before the commands are served there are no jobs, and nothing is active.
LEMMA NotServing ==
    ASSUME ProjectsInv, ~Projects!Serving
    PROVE  /\ \A w \in Workers : job[w].step = "over"
           /\ main.step # "clean" => runtime.active = NoRoot
<1>1. \A w \in Workers : JobFits(job[w])
  BY DEF ProjectsInv, JobInv
<1>. QED  BY <1>1 DEF ProjectsInv, ActiveInv, JobFits

\* A step of the start leaves the jobs as they are: over.
LEMMA JobsOver ==
    ASSUME ProjectsInv, ~Projects!Serving, UNCHANGED job
    PROVE  JobInv'
<1>1. SUFFICES ASSUME NEW w \in Workers PROVE JobFits(job[w])'
  BY DEF JobInv
<1>2. JobFits(job[w]) /\ job[w].step = "over"
  BY NotServing DEF ProjectsInv, JobInv
<1>. QED  BY <1>2 DEF JobFits

LEMMA FreshFields ==
    /\ Projects!Fresh \in Projects!Runtimes /\ Projects!Fresh.active = NoRoot
    /\ ~Projects!Fresh.recovery /\ ~Projects!Fresh.faulted /\ Projects!Fresh.generation = 0
    /\ [Projects!Fresh EXCEPT !.recovery = TRUE] \in Projects!Runtimes
    /\ [Projects!Fresh EXCEPT !.recovery = TRUE].active = NoRoot
    /\ [Projects!Fresh EXCEPT !.recovery = TRUE].recovery
    /\ ~[Projects!Fresh EXCEPT !.recovery = TRUE].faulted
<1>1. 0 \in 0..MaxGeneration
  BY ProjectConstants
<1>2. Projects!Fresh \in Projects!Runtimes
  BY <1>1 DEF Projects!Fresh, Projects!Runtimes
<1>3. /\ Projects!Fresh.active = NoRoot /\ Projects!Fresh.generation = 0
      /\ Projects!Fresh.recovery = FALSE /\ Projects!Fresh.faulted = FALSE
  BY DEF Projects!Fresh
<1>4. /\ [Projects!Fresh EXCEPT !.recovery = TRUE].active = NoRoot
      /\ [Projects!Fresh EXCEPT !.recovery = TRUE].recovery = TRUE
      /\ [Projects!Fresh EXCEPT !.recovery = TRUE].faulted = FALSE
  BY DEF Projects!Fresh
<1>5. [Projects!Fresh EXCEPT !.recovery = TRUE] \in Projects!Runtimes
  BY <1>2 DEF Projects!Runtimes
<1>. QED  BY <1>2, <1>3, <1>4, <1>5

\* Projects that were imported lose their plan once that is recorded.
Swept == IF registry # NoRegistry /\ registry.legacy = "complete"
         THEN dir' = [r \in Roots |-> IF dir[r] = "planned" THEN "imported" ELSE dir[r]]
         ELSE UNCHANGED dir

LEMMA SweptFields ==
    ASSUME Projects!TypeOK, Swept
    PROVE  /\ dir' \in [Roots -> Projects!Directories]
           /\ \A r \in Roots : dir'[r] \in {"planned", "imported"} <=> dir[r] \in {"planned", "imported"}
           /\ \A r \in Roots : dir'[r] = "planned" => dir[r] = "planned" /\ ~(registry # NoRegistry /\ registry.legacy = "complete")
           /\ \A r \in Roots : dir[r] = "planned" /\ ~(registry # NoRegistry /\ registry.legacy = "complete") => dir'[r] = "planned"
           /\ registry = NoRegistry => UNCHANGED dir
  BY DEF Projects!TypeOK, Projects!RegistryTypeOK, Projects!Directories, Swept

LEMMA Starts ==
    ASSUME ProjectsInv, main.step = "down", Swept,
           UNCHANGED <<registry, backup, legacy, stage, source, brain, job, trouble, torn>>,
           main' \in Projects!Mains, main'.step \notin {"commit", "drop", "promote", "unlink", "unlinked"},
           runtime' \in Projects!Runtimes, runtime'.active = NoRoot,
           MainFits', WriteInv', ImportInv'
    PROVE  ProjectsInv'
<1>1. ~Projects!Serving /\ main.step # "commit"
  OBVIOUS
<1>2. Standing' = Standing /\ Standing = registry
  BY DEF Standing
<1>3. Projects!TypeOK'
  BY SweptFields DEF ProjectsInv, Projects!TypeOK, Projects!RegistryTypeOK
<1>4. registry # NoRegistry => Sound(registry)'
  <2>1. SUFFICES ASSUME registry # NoRegistry PROVE Sound(registry)'
    OBVIOUS
  <2>2. Sound(registry)
    BY <1>1, <2>1, AtRest
  <2>. QED  BY <2>1, <2>2, SweptFields, ProjectConstants DEF ProjectsInv, Sound, IdentityFits
<1>5. StandingInv'
  BY <1>2, <1>4, SweptFields DEF ProjectsInv, StandingInv
<1>6. BrainInv'
  BY DEF ProjectsInv, BrainInv
<1>7. ActiveInv'
  BY DEF ActiveInv, Records
<1>8. JobInv'
  BY <1>1, JobsOver
<1>. QED  BY <1>3, <1>5, <1>6, <1>7, <1>8 DEF ProjectsInv

LEMMA LaunchKeeps ==
    ASSUME ProjectsInv, Projects!Launch
    PROVE  ProjectsInv'
<1>1. /\ main.step = "down" /\ Swept
      /\ UNCHANGED <<registry, backup, legacy, stage, source, brain, job, trouble, torn>>
  BY DEF Projects!Launch, Swept
<1>2. registry # NoRegistry => Sound(registry)
  BY <1>1, AtRest
<1>3. registry = NoRegistry => UNCHANGED dir
  BY <1>1, SweptFields DEF ProjectsInv
<1>4. registry = NoRegistry /\ ~torn =>
          /\ backup = NoRegistry
          /\ Projects!Orphans = {} \/ (Imported /\ stage = "none" /\ legacy = "project")
          /\ stage # "none" => legacy = "project"
  <2>1. main.op = "none"
    BY <1>1, DownFields DEF ProjectsInv, MainFits
  <2>. QED  BY <1>1, <2>1 DEF ProjectsInv, ImportInv, Interrupted
<1>5. ASSUME NEW step \in {"restore", "idle", "finalize", "stage"},
             main' = [Projects!Down EXCEPT !.step = step], runtime' = Projects!Fresh,
             (registry = NoRegistry /\ legacy = "project") \/ step \in {"restore", "idle"},
             registry = NoRegistry => legacy # "project" \/ step \in {"finalize", "stage"},
             step = "finalize" => Imported,
             step = "stage" => ~Projects!Unreadable
      PROVE  ProjectsInv'
  <2>1. main' \in Projects!Mains /\ main'.op = "none" /\ main'.step = step /\ main'.root = NoRoot
    BY <1>5 DEF Projects!Down, Projects!Mains
  <2>2. MainFits'
    BY <1>5, <2>1 DEF MainFits, Projects!Idle
  <2>3. WriteInv'
    BY <2>1 DEF WriteInv
  <2>4. runtime' \in Projects!Runtimes /\ runtime'.active = NoRoot /\ ~runtime'.recovery
    BY <1>5, FreshFields
  <2>5. Standing' = registry
    BY <1>1, <2>1 DEF Standing
  <2>6. ImportInv'
    <3>1. CASE registry # NoRegistry
      BY <1>1, <1>5, <2>1, <2>4, <3>1 DEF ImportInv, Projects!Unreadable
    <3>2. CASE registry = NoRegistry
      BY <1>1, <1>3, <1>4, <1>5, <2>1, <2>4, <2>5, <3>2
      DEF ImportInv, Imported, Interrupted, Projects!Unreadable, Projects!Orphans
    <3>. QED  BY <3>1, <3>2
  <2>. QED  BY <1>1, <2>1, <2>2, <2>3, <2>4, <2>6, Starts
<1>6. ASSUME main' = Projects!Idle, runtime' = [Projects!Fresh EXCEPT !.recovery = TRUE],
             registry = NoRegistry, legacy = "bad" \/ torn
      PROVE  ProjectsInv'
  <2>1. main' \in Projects!Mains /\ main'.op = "none" /\ main'.step = "idle"
    BY <1>6, DownFields
  <2>2. MainFits' /\ WriteInv'
    BY <1>6, <2>1 DEF MainFits, WriteInv
  <2>3. runtime' \in Projects!Runtimes /\ runtime'.active = NoRoot
    BY <1>6, FreshFields
  <2>4. Standing' = registry
    BY <1>1, <2>1 DEF Standing
  <2>5. ImportInv'
    BY <1>1, <1>3, <1>4, <1>6, <2>1, <2>4
    DEF ImportInv, Imported, Interrupted, Projects!Unreadable, Projects!Orphans
  <2>. QED  BY <1>1, <2>1, <2>2, <2>3, <2>5, Starts
<1>7. ASSUME NEW state \in {"not-needed", "recovery-required"}, registry # NoRegistry,
             registry.legacy \in {"pending", "not-needed"}, runtime' = Projects!Fresh,
             NEW g, Drafts(state, NoRoot, g),
             g = [registry EXCEPT !.legacy = state,
                     !.last = IF state = "recovery-required" THEN NoRoot ELSE @]
      PROVE  ProjectsInv'
  <2>1. /\ g \in Projects!Registries /\ g.legacy = state
        /\ g.last \in {NoRoot, registry.last}
        /\ g.projects = registry.projects /\ g.identity = registry.identity
    BY <1>2, <1>7 DEF Sound, Projects!Registries
  <2>2. /\ main' \in Projects!Mains /\ main'.op = state /\ main'.step = "checkpoint"
        /\ main'.root = NoRoot /\ main'.draft = g
    BY <1>7, <2>1, DraftFields DEF MainOps
  <2>3. runtime' \in Projects!Runtimes /\ runtime'.active = NoRoot /\ ~runtime'.recovery
    BY <1>7, FreshFields
  <2>4. Standing' = registry
    BY <1>1, <2>2 DEF Standing
  <2>5. MainFits'
    BY <1>7, <2>2, <2>4 DEF MainFits
  <2>6. Sound(g)'
    BY <1>1, <1>2, <1>7, <2>1, SweptFields, ProjectConstants
    DEF ProjectsInv, Sound, IdentityFits, Projects!Valid, Projects!Projects
  <2>7. WriteInv'
    BY <1>1, <1>7, <2>2, <2>3, <2>6 DEF WriteInv, Becomes, Records
  <2>8. ImportInv'
    BY <1>1, <1>7, <2>2, <2>3 DEF ImportInv
  <2>. QED  BY <1>1, <2>2, <2>3, <2>5, <2>7, <2>8, Starts
<1>8. CASE registry # NoRegistry
  <2>1. \/ \E step \in {"restore", "idle"} :
               main' = [Projects!Down EXCEPT !.step = step] /\ runtime' = Projects!Fresh
        \/ \E state \in {"not-needed", "recovery-required"} :
               /\ registry.legacy \in {"pending", "not-needed"} /\ runtime' = Projects!Fresh
               /\ Drafts(state, NoRoot, [registry EXCEPT !.legacy = state,
                     !.last = IF state = "recovery-required" THEN NoRoot ELSE @])
    BY <1>8 DEF Projects!Launch, Drafts
  <2>. QED  BY <1>5, <1>7, <1>8, <2>1
<1>9. CASE registry = NoRegistry
  <2>1. \/ \E step \in {"restore", "idle", "finalize", "stage"} :
               /\ main' = [Projects!Down EXCEPT !.step = step] /\ runtime' = Projects!Fresh
               /\ step \in {"restore", "idle"} => legacy # "project"
               /\ step \in {"finalize", "stage"} => legacy = "project"
               /\ step = "finalize" => Projects!Orphans = {LegacyRoot} /\ dir[LegacyRoot] = "planned"
               /\ step = "stage" => ~Projects!Unreadable
        \/ /\ main' = Projects!Idle /\ runtime' = [Projects!Fresh EXCEPT !.recovery = TRUE]
           /\ \/ legacy = "bad"
              \/ /\ ~(Projects!Orphans = {LegacyRoot} /\ dir[LegacyRoot] = "planned")
                 /\ Projects!Unreadable
    BY <1>9 DEF Projects!Launch
  <2>2. ~(Projects!Orphans = {LegacyRoot} /\ dir[LegacyRoot] = "planned") /\ Projects!Unreadable => torn
    BY <1>4, <1>9 DEF Imported, Projects!Unreadable
  <2>. QED  BY <1>5, <1>6, <1>9, <2>1, <2>2 DEF Imported
<1>. QED  BY <1>8, <1>9

\* A start that gives up changes no file and leaves nothing active.
LEMMA Settles ==
    ASSUME ProjectsInv, ~Projects!Serving, main.step \notin Projects!Writing,
           UNCHANGED <<registry, backup, dir, legacy, stage, source, brain, job, torn>>,
           trouble' \in 0..MaxTrouble, main' = Projects!Idle,
           runtime' \in Projects!Runtimes, runtime'.active = NoRoot, runtime'.recovery, runtime'.faulted \/ torn
    PROVE  ProjectsInv'
<1>1. main' \in Projects!Mains /\ main'.op = "none" /\ main'.step = "idle"
  BY DownFields
<1>2. Standing' = Standing /\ Standing = registry
  BY <1>1 DEF Standing
<1>3. Projects!TypeOK'
  BY <1>1 DEF ProjectsInv, Projects!TypeOK, Projects!RegistryTypeOK
<1>4. MainFits' /\ WriteInv' /\ BrainInv'
  BY <1>1 DEF MainFits, WriteInv, ProjectsInv, BrainInv
<1>5. StandingInv'
  BY <1>2, SoundKept DEF ProjectsInv, StandingInv
<1>6. ImportInv'
  BY <1>1, <1>2 DEF ProjectsInv, ImportInv, Imported, Interrupted, Projects!Unreadable, Projects!Orphans
<1>7. ActiveInv'
  BY DEF ActiveInv, Records
<1>8. JobInv'
  BY JobsOver
<1>. QED  BY <1>3, <1>4, <1>5, <1>6, <1>7, <1>8 DEF ProjectsInv

LEMMA RestoreKeeps ==
    ASSUME ProjectsInv, Projects!Restore
    PROVE  ProjectsInv'
<1>1. /\ main.step = "restore" /\ ~Projects!Serving
      /\ UNCHANGED <<registry, backup, dir, legacy, stage, source, brain, job, trouble, torn>>
  BY DEF Projects!Restore, Projects!diskVars, Projects!registryVars
<1>2. /\ Standing = registry /\ Held = Projects!Loaded /\ Records(Held, runtime.active)
      /\ registry # NoRegistry => Sound(registry) /\ Projects!Loaded = registry
      /\ registry = NoRegistry => Projects!Loaded = Projects!EmptyRegistry
  BY <1>1, AtRest
<1>3. CASE Projects!Unreadable
  <2>1. torn /\ main.op \in {"none", "not-needed"}
    BY <1>1, <1>3 DEF ProjectsInv, ImportInv, MainFits
  <2>2. main' = Projects!Idle /\ runtime' = [runtime EXCEPT !.recovery = TRUE, !.active = NoRoot]
    BY <1>3 DEF Projects!Restore, Projects!Return
  <2>3. runtime' \in Projects!Runtimes /\ runtime'.active = NoRoot /\ runtime'.recovery = TRUE
    BY <2>2 DEF ProjectsInv, Projects!TypeOK, Projects!Runtimes
  <2>4. trouble' \in 0..MaxTrouble
    BY <1>1 DEF ProjectsInv, Projects!TypeOK
  <2>. QED  BY <1>1, <2>1, <2>2, <2>3, <2>4, Settles
<1>4. CASE ~Projects!Unreadable /\ main' = Projects!Idle
  <2>1. UNCHANGED runtime
    BY <1>4 DEF Projects!Restore
  <2>. QED  BY <1>1, <1>2, <1>4, <2>1, MainReturns DEF Elsewhere
<1>5. CASE ~Projects!Unreadable /\ main' # Projects!Idle
  <2>1. /\ Projects!Loaded.last # NoRoot /\ Projects!Write("restore", Projects!Loaded.last, Projects!Loaded)
        /\ UNCHANGED runtime
    BY <1>5 DEF Projects!Restore, Projects!Return
  <2>2. registry # NoRegistry
    BY <1>2, <2>1 DEF Projects!EmptyRegistry
  <2>3. PICK r : r = registry.last
    OBVIOUS
  <2>4. r \in Roots /\ r # NoRoot /\ registry.projects[r] = "registered" /\ registry \in Projects!Registries
    BY <1>2, <2>1, <2>2, <2>3 DEF Sound, Projects!Registries, Projects!Valid
  <2>5. Drafts("restore", r, registry)
    BY <1>2, <2>1, <2>2, <2>3 DEF Projects!Write, Drafts, Sound
  <2>6. main'.op = "restore" /\ main'.root = r
    BY <2>5 DEF Drafts
  <2>7. Records(registry, Becomes')
    BY <2>3, <2>4, <2>6 DEF Becomes, Records
  <2>8. "restore" \in MainOps \ {"register"}
    BY DEF MainOps
  <2>. QED  BY <1>1, <1>2, <2>1, <2>2, <2>4, <2>5, <2>7, <2>8, Begins DEF Elsewhere
<1>. QED  BY <1>3, <1>4, <1>5

LEMMA StageKeeps ==
    ASSUME ProjectsInv, Projects!Stage \/ Projects!Populate
    PROVE  ProjectsInv'
<1>1. /\ main.step \in {"stage", "populate"} /\ ~Projects!Serving
      /\ UNCHANGED <<registry, backup, dir, legacy, source, brain, runtime, job, trouble, torn>>
  BY DEF Projects!Stage, Projects!Populate, Projects!registryVars
<1>2. PICK step \in {"populate", "place"} :
          /\ Projects!Goto(step)
          /\ stage' = (IF step = "place" THEN "whole" ELSE "partial")
  BY DEF Projects!Stage, Projects!Populate
<1>3. main' \in Projects!Mains /\ main'.step = step /\ main'.op = "none"
  BY <1>1, <1>2, GotoFields DEF MainSteps, ProjectsInv, MainFits
<1>4. Standing' = registry /\ Standing = registry
  BY <1>1, <1>3 DEF Standing
<1>5. Projects!TypeOK'
  BY <1>1, <1>2, <1>3 DEF ProjectsInv, Projects!TypeOK, Projects!RegistryTypeOK
<1>6. MainFits' /\ WriteInv'
  BY <1>1, <1>3 DEF MainFits, WriteInv
<1>7. StandingInv'
  BY <1>1, <1>4, SoundKept DEF ProjectsInv, StandingInv
<1>8. ImportInv'
  BY <1>1, <1>2, <1>3 DEF ProjectsInv, ImportInv, Projects!Unreadable, Projects!Orphans, Imported, Interrupted
<1>9. BrainInv' /\ ActiveInv'
  BY <1>1, <1>3, <1>4, NotServing DEF ProjectsInv, BrainInv, ActiveInv, Records
<1>10. JobInv'
  BY <1>1, JobsOver
<1>. QED  BY <1>5, <1>6, <1>7, <1>8, <1>9, <1>10 DEF ProjectsInv

LEMMA ImportPlaceKeeps ==
    ASSUME ProjectsInv, Projects!Place
    PROVE  ProjectsInv'
<1>1. /\ main.step = "place" /\ ~Projects!Serving
      /\ UNCHANGED <<registry, backup, legacy, source, brain, runtime, job, trouble, torn>>
      /\ stage' = "none" /\ dir' = [dir EXCEPT ![LegacyRoot] = "planned"] /\ Projects!Goto("finalize")
  BY DEF Projects!Place
<1>2. main' \in Projects!Mains /\ main'.step = "finalize" /\ main'.op = "none"
  BY <1>1, GotoFields DEF MainSteps, ProjectsInv, MainFits
<1>3. /\ registry = NoRegistry /\ backup = NoRegistry /\ Projects!Orphans = {} /\ legacy = "project"
  BY <1>1 DEF ProjectsInv, ImportInv, Projects!Unreadable
<1>4. Standing' = NoRegistry /\ Standing = NoRegistry
  BY <1>1, <1>2, <1>3 DEF Standing
<1>5. dir' \in [Roots -> Projects!Directories] /\ dir'[LegacyRoot] = "planned"
      /\ \A r \in Roots \ {LegacyRoot} : dir'[r] = dir[r] /\ dir[r] = "none"
  BY <1>1, <1>3, ProjectConstants
  DEF ProjectsInv, Projects!TypeOK, Projects!RegistryTypeOK, Projects!Directories, Projects!Orphans
<1>6. Projects!Orphans' = {LegacyRoot}
  BY <1>5, ProjectConstants DEF Projects!Orphans
<1>7. Projects!TypeOK'
  BY <1>1, <1>2, <1>5 DEF ProjectsInv, Projects!TypeOK, Projects!RegistryTypeOK
<1>8. MainFits' /\ WriteInv'
  BY <1>1, <1>2 DEF MainFits, WriteInv
<1>9. StandingInv'
  BY <1>4, <1>5 DEF StandingInv
<1>10. ImportInv'
  BY <1>1, <1>2, <1>3, <1>4, <1>5, <1>6 DEF ProjectsInv, ImportInv, Imported
<1>11. BrainInv' /\ ActiveInv'
  BY <1>1, <1>2, NotServing DEF ProjectsInv, BrainInv, ActiveInv, Records
<1>12. JobInv'
  BY <1>1, JobsOver
<1>. QED  BY <1>7, <1>8, <1>9, <1>10, <1>11, <1>12 DEF ProjectsInv

LEMMA FinalizeKeeps ==
    ASSUME ProjectsInv, Projects!Finalize
    PROVE  ProjectsInv'
<1>1. /\ main.step = "finalize" /\ ~Projects!Serving /\ runtime.active = NoRoot
      /\ UNCHANGED <<registry, backup, dir, legacy, stage, source, brain, job, trouble, torn>>
  BY NotServing DEF Projects!Finalize, Projects!diskVars, Projects!registryVars
<1>2. /\ registry = NoRegistry /\ Imported /\ Projects!Loaded = Projects!EmptyRegistry
      /\ backup = NoRegistry \/ torn
  BY <1>1, AtRest DEF ProjectsInv, ImportInv
<1>3. CASE ~Projects!Finalizable
  <2>1. torn
    BY <1>2, <1>3 DEF Projects!Finalizable, Imported
  <2>2. main' = Projects!Idle /\ runtime' = [runtime EXCEPT !.recovery = TRUE]
    BY <1>3 DEF Projects!Finalize, Projects!Return
  <2>3. runtime' \in Projects!Runtimes /\ runtime'.active = NoRoot /\ runtime'.recovery = TRUE
    BY <1>1, <2>2 DEF ProjectsInv, Projects!TypeOK, Projects!Runtimes
  <2>4. trouble' \in 0..MaxTrouble
    BY <1>1 DEF ProjectsInv, Projects!TypeOK
  <2>. QED  BY <1>1, <2>1, <2>2, <2>3, <2>4, Settles
<1>4. CASE Projects!Finalizable
  <2>1. PICK i : i = IF source[LegacyRoot] = "whole" THEN "old" ELSE Projects!NoIdentity
    OBVIOUS
  <2>2. PICK g : g = [Projects!EmptyRegistry EXCEPT !.projects[LegacyRoot] = "registered",
                         !.identity[LegacyRoot] = i, !.last = LegacyRoot, !.legacy = "complete"]
    OBVIOUS
  <2>3. Projects!Write("finalize", LegacyRoot, g) /\ UNCHANGED runtime
    BY <1>2, <1>4, <2>1, <2>2 DEF Projects!Finalize
  <2>4. /\ g \in Projects!Registries /\ g.last = LegacyRoot /\ g.legacy = "complete"
        /\ g.projects[LegacyRoot] = "registered"
        /\ g.identity = [r \in Roots |-> IF r = LegacyRoot THEN i ELSE Projects!NoIdentity]
    BY <2>1, <2>2, ProjectConstants
    DEF Projects!EmptyRegistry, Projects!Registries, Projects!Identities, Projects!NoIdentity
  <2>5. \A r \in Roots : IdentityFits(g.identity[r], r)
    <3>1. SUFFICES ASSUME NEW r \in Roots PROVE IdentityFits(g.identity[r], r)
      OBVIOUS
    <3>2. /\ brain[r] \in {"none", "same", "changed", "new"}
          /\ brain[r] = "new" => source[r] = "none"
      BY DEF ProjectsInv, Projects!TypeOK, BrainInv
    <3>. QED  BY <2>1, <2>4, <3>2 DEF IdentityFits, Projects!IdentityOf, Projects!NoIdentity
  <2>6. Sound(g) /\ Projects!Valid(g)
    BY <1>2, <2>4, <2>5, ProjectConstants DEF Sound, Projects!Valid, Projects!Projects, Imported
  <2>7. Drafts("finalize", LegacyRoot, g)
    BY <2>3, <2>6 DEF Projects!Write, Drafts
  <2>8. main'.op = "finalize" /\ main'.root = LegacyRoot
    BY <2>7 DEF Drafts
  <2>9. Records(g, Becomes')
    BY <2>4, <2>8 DEF Becomes, Records
  <2>10. "finalize" \in MainOps \ {"register"} /\ LegacyRoot # NoRoot /\ LegacyRoot \in Roots
    BY ProjectConstants DEF MainOps
  <2>11. backup = NoRegistry
    BY <1>2, <1>4 DEF Projects!Finalizable
  <2>12. UNCHANGED Elsewhere /\ ~Projects!JobHolds /\ Records(Held, runtime.active)
    BY <1>1, <2>3, NotServing DEF Elsewhere, Projects!JobHolds, Records
  <2>. QED  BY <1>1, <2>4, <2>6, <2>7, <2>9, <2>10, <2>11, <2>12, Begins
<1>. QED  BY <1>3, <1>4

LEMMA CleanKeeps ==
    ASSUME ProjectsInv, Projects!Clean
    PROVE  ProjectsInv'
<1>1. /\ main.step = "clean" /\ ~Projects!Serving /\ main' = Projects!Idle
      /\ dir' = dir \/ dir' = [dir EXCEPT ![LegacyRoot] = "imported"]
      /\ UNCHANGED <<registry, backup, legacy, stage, source, brain, runtime, job, trouble, torn>>
  BY DEF Projects!Clean, Projects!Return
<1>2. main' \in Projects!Mains /\ main'.op = "none" /\ main'.step = "idle"
  BY <1>1, DownFields
<1>3. registry # NoRegistry /\ Sound(registry) /\ Standing = registry /\ Held = registry /\ Records(Held, runtime.active)
  BY <1>1, AtRest DEF ProjectsInv, MainFits
<1>4. Standing' = registry /\ Held' = Held
  BY <1>1, <1>2, <1>3 DEF Standing, Held
<1>5. dir' \in [Roots -> Projects!Directories] /\ dir'[LegacyRoot] \in {dir[LegacyRoot], "imported"}
      /\ \A r \in Roots \ {LegacyRoot} : dir'[r] = dir[r]
  BY <1>1, ProjectConstants
  DEF ProjectsInv, Projects!TypeOK, Projects!RegistryTypeOK, Projects!Directories
<1>6. Projects!TypeOK'
  BY <1>1, <1>2, <1>5 DEF ProjectsInv, Projects!TypeOK, Projects!RegistryTypeOK
<1>7. MainFits' /\ WriteInv' /\ BrainInv'
  BY <1>1, <1>2 DEF MainFits, WriteInv, ProjectsInv, BrainInv
<1>8. Sound(registry)'
  BY <1>1, <1>3, <1>5 DEF Sound, IdentityFits
<1>9. StandingInv'
  BY <1>1, <1>4, <1>5, <1>8 DEF ProjectsInv, StandingInv
<1>10. ImportInv'
  BY <1>1, <1>2, <1>3 DEF ProjectsInv, ImportInv
<1>11. ActiveInv'
  BY <1>1, <1>2, <1>3, <1>4 DEF ActiveInv, Records
<1>12. JobInv'
  BY <1>1, JobsOver
<1>. QED  BY <1>6, <1>7, <1>9, <1>10, <1>11, <1>12 DEF ProjectsInv

LEMMA RegisterKeeps ==
    ASSUME ProjectsInv, NEW r \in Roots, Projects!Register(r)
    PROVE  ProjectsInv'
<1>1. /\ main.step = "idle" /\ main.op = "none" /\ Records(Held, runtime.active)
      /\ Standing = registry /\ Held = Projects!Loaded /\ Projects!Serving
      /\ registry # NoRegistry => Sound(registry) /\ Projects!Loaded = registry
  BY Beginning DEF Projects!Register
<1>2. /\ ~Projects!Unreadable /\ ~Projects!JobHolds
      /\ registry = NoRegistry => Projects!Loaded = Projects!EmptyRegistry
      /\ Projects!Loaded \in Projects!Registries
  BY <1>1, AtRest DEF Projects!Register, Projects!Begin, Projects!Free
<1>3. PICK g : g = [Projects!Loaded EXCEPT !.projects[r] = "registered"]
  OBVIOUS
<1>4. /\ g \in Projects!Registries /\ g.projects = [Projects!Loaded.projects EXCEPT ![r] = "registered"]
      /\ g.identity = Projects!Loaded.identity /\ g.last = Projects!Loaded.last /\ g.legacy = Projects!Loaded.legacy
  BY <1>2, <1>3, ChangedFields
<1>5. /\ Projects!Loaded.projects \in [Roots -> {"absent", "registered", "detached"}]
      /\ Projects!Loaded.last \in Roots \cup {NoRoot} /\ r # NoRoot
  BY <1>2, ProjectConstants DEF Projects!Registries
<1>6. Projects!Valid(Projects!Loaded)
  BY <1>1, <1>2 DEF Sound, Projects!Valid, Projects!EmptyRegistry
<1>7. Projects!Valid(g) /\ r \in Projects!Projects(g) /\ g.projects[r] = "registered"
      /\ \A p \in Roots \ {r} : g.projects[p] = Projects!Loaded.projects[p]
  BY <1>4, <1>5, <1>6 DEF Projects!Valid, Projects!Projects
<1>8. Records(g, runtime.active)
  BY <1>1, <1>4, <1>5, <1>7 DEF Records
<1>9. UNCHANGED <<registry, backup, legacy, stage, source, brain, runtime, job, trouble, torn>>
  BY DEF Projects!Register
<1>10. CASE Projects!Loaded.projects[r] = "detached"
  <2>1. registry # NoRegistry
    BY <1>2, <1>10 DEF Projects!EmptyRegistry
  <2>2. Drafts("rejoin", r, g) /\ UNCHANGED dir
    BY <1>3, <1>7, <1>10 DEF Projects!Register, Projects!Write, Drafts
  <2>3. Sound(g)
    BY <1>1, <1>4, <1>7, <1>10, <2>1, ProjectConstants DEF Sound
  <2>4. "rejoin" \in MainOps \ {"register"} /\ main'.op = "rejoin"
    BY <2>2 DEF MainOps, Drafts
  <2>5. Records(g, Becomes')
    BY <1>8, <1>9, <2>4 DEF Becomes
  <2>. QED  BY <1>1, <1>2, <1>4, <1>5, <1>9, <2>1, <2>2, <2>3, <2>4, <2>5, Begins DEF Elsewhere
<1>11. CASE Projects!Loaded.projects[r] = "absent"
  <2>1. Drafts("register", r, g) /\ dir' = [dir EXCEPT ![r] = "bare"]
    BY <1>3, <1>7, <1>11 DEF Projects!Register, Projects!Write, Drafts
  <2>2. /\ main' \in Projects!Mains /\ main'.op = "register" /\ main'.step = "checkpoint"
        /\ main'.root = r /\ main'.draft = g
    BY <1>4, <2>1, DraftFields DEF MainOps
  <2>3. Standing' = Standing /\ Held' = Held
    BY <1>1, <1>9, <2>2 DEF Standing, Held
  <2>4. /\ dir' \in [Roots -> Projects!Directories] /\ dir'[r] = "bare"
        /\ \A p \in Roots \ {r} : dir'[p] = dir[p]
    BY <2>1 DEF ProjectsInv, Projects!TypeOK, Projects!RegistryTypeOK, Projects!Directories
  <2>5. registry = NoRegistry => backup = NoRegistry /\ Projects!Orphans = {}
    BY <1>2 DEF Projects!Unreadable
  <2>6. registry = NoRegistry => Projects!Orphans' = {r}
    BY <2>4, <2>5 DEF Projects!Orphans
  <2>7. Projects!TypeOK'
    BY <1>9, <2>2, <2>4 DEF ProjectsInv, Projects!TypeOK, Projects!RegistryTypeOK
  <2>8. MainFits'
    BY <1>5, <2>2 DEF MainFits
  <2>9. Sound(g)'
    BY <1>1, <1>2, <1>4, <1>7, <1>9, <1>11, <2>4, <2>5, ProjectConstants
    DEF Sound, IdentityFits, Projects!EmptyRegistry, Projects!Orphans
  <2>10. WriteInv'
    BY <1>1, <1>8, <1>9, <1>11, <2>2, <2>3, <2>4, <2>5, <2>9 DEF WriteInv, Becomes
  <2>11. registry # NoRegistry => Sound(registry)'
    BY <1>1, <1>9, <1>11, <2>4, ProjectConstants DEF Sound, IdentityFits
  <2>12. StandingInv'
    BY <1>1, <1>9, <2>3, <2>4, <2>11 DEF ProjectsInv, StandingInv
  <2>13. ImportInv'
    BY <1>1, <1>9, <2>2, <2>5, <2>6 DEF ProjectsInv, ImportInv, Interrupted
  <2>14. BrainInv' /\ ActiveInv'
    BY <1>1, <1>9, <2>2, <2>3 DEF ProjectsInv, BrainInv, ActiveInv, Records
  <2>15. JobInv'
    <3>1. SUFFICES ASSUME NEW w \in Workers PROVE JobFits(job[w])'
      BY DEF JobInv
    <3>2. JobFits(job[w])
      BY DEF ProjectsInv, JobInv
    <3>. QED  BY <1>1, <1>2, <1>9, <2>2, <2>3, <3>2 DEF JobFits, Projects!JobHolds
  <2>. QED  BY <2>7, <2>8, <2>10, <2>12, <2>13, <2>14, <2>15 DEF ProjectsInv
<1>. QED  BY <1>10, <1>11 DEF Projects!Register

------------------------------------------------------------------------------------
(* write_registry.                                                                 *)

LEMMA CheckpointKeeps ==
    ASSUME ProjectsInv, Projects!Checkpoint
    PROVE  ProjectsInv'
<1>1. /\ main.step = "checkpoint" /\ Projects!Goto("commit")
      /\ UNCHANGED <<dir, legacy, stage, source, brain, runtime, job, trouble, torn>>
      /\ registry' = NoRegistry
      /\ \/ registry = NoRegistry /\ backup = NoRegistry /\ backup' = NoRegistry
         \/ registry # NoRegistry /\ backup' = registry
  BY DEF Projects!Checkpoint, ProjectsInv, WriteInv
<1>2. /\ main' \in Projects!Mains /\ main'.step = "commit" /\ main'.op = main.op
      /\ main'.root = main.root /\ main'.draft = main.draft
  BY <1>1, GotoFields DEF MainSteps, ProjectsInv
<1>3. Standing = registry /\ Standing' = Standing /\ Held' = Held
  BY <1>1, <1>2 DEF Standing, Held
<1>4. Projects!TypeOK'
  BY <1>1, <1>2 DEF ProjectsInv, Projects!TypeOK, Projects!RegistryTypeOK
<1>5. MainFits'
  BY <1>1, <1>2, <1>3 DEF ProjectsInv, MainFits
<1>6. Sound(main.draft)' /\ Becomes' = Becomes
  BY <1>1, <1>2 DEF ProjectsInv, WriteInv, Sound, IdentityFits, Becomes
<1>7. WriteInv'
  BY <1>1, <1>2, <1>3, <1>6 DEF ProjectsInv, WriteInv, Records
<1>8. StandingInv'
  BY <1>1, <1>3, SoundKept DEF ProjectsInv, StandingInv
<1>9. ImportInv'
  BY <1>1, <1>2, <1>3
  DEF ProjectsInv, ImportInv, Imported, Interrupted, Projects!Orphans
<1>10. BrainInv' /\ ActiveInv'
  BY <1>1, <1>2, <1>3 DEF ProjectsInv, BrainInv, ActiveInv, Records
<1>11. JobInv'
  <2>1. SUFFICES ASSUME NEW w \in Workers PROVE JobFits(job[w])'
    BY DEF JobInv
  <2>2. JobFits(job[w])
    BY DEF ProjectsInv, JobInv
  <2>. QED  BY <1>1, <1>2, <1>3, <2>2 DEF JobFits
<1>. QED  BY <1>4, <1>5, <1>7, <1>8, <1>9, <1>10, <1>11 DEF ProjectsInv

\* A job whose scope was in S learns nothing.
LEMMA MoveFields ==
    ASSUME ProjectsInv, NEW S, Projects!Move(S)
    PROVE  /\ job' \in [Workers -> Projects!Jobs]
           /\ \A w \in Workers :
                /\ job'[w].kind = job[w].kind /\ job'[w].step = job[w].step /\ job'[w].slot = job[w].slot
                /\ job'[w].generation = job[w].generation /\ job'[w].inner = job[w].inner
                /\ job'[w].moved => job[w].moved \/ (job[w].step # "over" /\ job[w].slot \in S)
  BY ZenonT(60) DEF ProjectsInv, Projects!TypeOK, Projects!Jobs, Projects!Move

LEMMA CommitKeeps ==
    ASSUME ProjectsInv, Projects!Commit
    PROVE  ProjectsInv'
<1>1. /\ main.step = "commit" /\ Projects!Goto("drop") /\ registry' = main.draft /\ Projects!Move({LegacySlot})
      /\ UNCHANGED <<backup, dir, legacy, stage, source, brain, runtime, trouble, torn>>
  BY DEF Projects!Commit
<1>2. /\ main' \in Projects!Mains /\ main'.step = "drop" /\ main'.op = main.op
      /\ main'.root = main.root /\ main'.draft = main.draft
  BY <1>1, GotoFields DEF MainSteps, ProjectsInv
<1>3. /\ Sound(main.draft) /\ registry' # NoRegistry /\ registry = NoRegistry
      /\ registry' \in Projects!Registries /\ Projects!Valid(registry')
  BY <1>1, ProjectConstants DEF ProjectsInv, WriteInv, Sound
<1>4. Standing' = main.draft
  BY <1>1, <1>2 DEF Standing
<1>5. Projects!TypeOK'
  BY <1>1, <1>2, <1>3, MoveFields DEF ProjectsInv, Projects!TypeOK, Projects!RegistryTypeOK
<1>6. MainFits'
  BY <1>1, <1>2, <1>3, <1>4 DEF ProjectsInv, MainFits
<1>7. Sound(main.draft)' /\ Becomes' = Becomes
  BY <1>1, <1>2, <1>3 DEF Sound, IdentityFits, Becomes
<1>8. WriteInv'
  BY <1>1, <1>2, <1>7 DEF ProjectsInv, WriteInv, Records
<1>9. StandingInv'
  BY <1>1, <1>2, <1>4, <1>7 DEF ProjectsInv, StandingInv
<1>10. ImportInv'
  BY <1>1, <1>2, <1>3 DEF ProjectsInv, ImportInv
<1>11. BrainInv' /\ ActiveInv'
  BY <1>1, <1>2 DEF ProjectsInv, BrainInv, ActiveInv
<1>12. JobInv'
  <2>1. SUFFICES ASSUME NEW w \in Workers PROVE JobFits(job[w])'
    BY DEF JobInv
  <2>2. JobFits(job[w])
    BY DEF ProjectsInv, JobInv
  <2>3. job[w].step = "replace" => job[w].slot # LegacySlot
    <3>1. SUFFICES ASSUME job[w].step = "replace", job[w].slot = LegacySlot PROVE FALSE
      OBVIOUS
    <3>2. Standing = NoRegistry /\ Projects!Serving /\ ~Projects!MainHolds
      BY <1>1, <1>3, <2>2, <3>1 DEF JobFits, Standing
    <3>3. main.op = "bind"
      BY <1>1, <3>2, MainFields DEF ProjectsInv, MainFits, MainOps
    <3>. QED  BY <1>1, <3>2, <3>3 DEF ProjectsInv, MainFits
  <2>. QED  BY <1>1, <1>2, <1>3, <1>4, <2>2, <2>3, MoveFields DEF JobFits
<1>. QED  BY <1>5, <1>6, <1>8, <1>9, <1>10, <1>11, <1>12 DEF ProjectsInv

\* A new generation is within its bound.
LEMMA SwitchFields ==
    ASSUME ProjectsInv, NEW r \in Roots \cup {NoRoot}, NEW recovery \in BOOLEAN, Projects!SwitchTo(r, recovery)
    PROVE  /\ runtime' \in Projects!Runtimes /\ runtime'.active = r /\ runtime'.recovery = recovery
           /\ runtime'.faulted = runtime.faulted /\ runtime'.generation = runtime.generation + 1
           /\ job' = job \/ Projects!Move(Projects!Slots)
<1>1. runtime.generation \in 0..MaxGeneration /\ trouble \in 0..MaxTrouble
  BY DEF ProjectsInv, Projects!TypeOK, Projects!Runtimes
<1>2. runtime.generation < Projects!Generations /\ Projects!Generations <= MaxGeneration
  BY <1>1, ProjectConstants DEF Projects!SwitchTo, Projects!Generations
<1>3. Projects!Generations \in Int
  BY <1>1, ProjectConstants DEF Projects!Generations
<1>4. runtime.generation + 1 \in 0..MaxGeneration
  BY <1>1, <1>2, <1>3, ProjectConstants
<1>5. runtime' = [runtime EXCEPT !.generation = runtime.generation + 1, !.active = r, !.recovery = recovery]
  BY DEF Projects!SwitchTo
<1>6. runtime \in Projects!Runtimes
  BY DEF ProjectsInv, Projects!TypeOK
<1>7. runtime' \in Projects!Runtimes
  BY <1>4, <1>5, <1>6 DEF Projects!Runtimes
<1>8. /\ runtime'.active = r /\ runtime'.recovery = recovery
      /\ runtime'.faulted = runtime.faulted /\ runtime'.generation = runtime.generation + 1
  BY <1>5, <1>6 DEF Projects!Runtimes
<1>. QED  BY <1>7, <1>8 DEF Projects!SwitchTo

\* What the end of a write does.
LEMMA FinishFields ==
    ASSUME ProjectsInv, main.step = "drop", Projects!Finish
    PROVE  /\ main' \in Projects!Mains
           /\ \/ main' = Projects!Idle
              \/ /\ main'.op = main.op /\ main'.root = main.root
                 /\ <<main.op, main'.step>> \in {<<"finalize", "clean">>, <<"bind", "lock">>, <<"not-needed", "restore">>}
           /\ runtime' \in Projects!Runtimes /\ runtime'.active = Becomes /\ runtime'.faulted = runtime.faulted
           /\ runtime'.recovery => runtime.recovery \/ legacy = "bad"
           /\ main.op \notin Projects!StartWrites => runtime'.recovery = runtime.recovery
           /\ \/ job' = job /\ runtime'.generation \in {runtime.generation, runtime.generation + 1}
              \/ /\ Projects!Move(Projects!Slots) /\ runtime'.generation = runtime.generation + 1
                 /\ main.op \in {"activate", "restore", "finalize", "detach"}
<1>1. main.op \in MainOps /\ main.root \in Roots \cup {NoRoot} /\ runtime \in Projects!Runtimes
  BY MainFields DEF ProjectsInv, Projects!TypeOK
<1>2. runtime.recovery \in BOOLEAN
  BY <1>1 DEF Projects!Runtimes
<1>3. CASE main.op \in {"activate", "restore", "finalize"}
  <2>1. PICK recovery \in BOOLEAN :
            /\ Projects!SwitchTo(main.root, recovery)
            /\ recovery = (IF main.op = "activate" THEN runtime.recovery ELSE FALSE)
            /\ IF main.op = "finalize" THEN Projects!Goto("clean") ELSE main' = Projects!Idle
    BY <1>2, <1>3 DEF Projects!Finish, Projects!Return
  <2>2. Becomes = main.root
    BY <1>3 DEF Becomes
  <2>3. /\ runtime' \in Projects!Runtimes /\ runtime'.active = main.root /\ runtime'.recovery = recovery
        /\ runtime'.faulted = runtime.faulted /\ runtime'.generation = runtime.generation + 1
        /\ job' = job \/ Projects!Move(Projects!Slots)
    BY <1>1, <2>1, SwitchFields
  <2>4. CASE main.op = "finalize"
    <3>1. /\ main' \in Projects!Mains /\ main'.step = "clean"
          /\ main'.op = main.op /\ main'.root = main.root
      BY <2>1, <2>4, GotoFields DEF MainSteps, ProjectsInv
    <3>. QED  BY <1>3, <2>1, <2>2, <2>3, <2>4, <3>1
  <2>5. CASE main.op # "finalize"
    <3>1. main' \in Projects!Mains /\ main' = Projects!Idle
      BY <2>1, <2>5, DownFields
    <3>. QED  BY <1>3, <2>1, <2>2, <2>3, <2>5, <3>1
  <2>. QED  BY <2>4, <2>5
<1>4. CASE main.op = "detach" /\ runtime.active = main.root
  <2>1. Projects!SwitchTo(NoRoot, runtime.recovery) /\ main' = Projects!Idle
    BY <1>4 DEF Projects!Finish, Projects!Return
  <2>2. Becomes = NoRoot
    BY <1>4 DEF Becomes
  <2>3. /\ runtime' \in Projects!Runtimes /\ runtime'.active = NoRoot /\ runtime'.recovery = runtime.recovery
        /\ runtime'.faulted = runtime.faulted /\ runtime'.generation = runtime.generation + 1
        /\ job' = job \/ Projects!Move(Projects!Slots)
    BY <1>2, <2>1, SwitchFields
  <2>. QED  BY <1>4, <2>1, <2>2, <2>3, DownFields
<1>5. CASE main.op \in {"bind", "not-needed"}
  <2>1. UNCHANGED <<runtime, job>> /\ Projects!Goto(IF main.op = "bind" THEN "lock" ELSE "restore")
    BY <1>5 DEF Projects!Finish
  <2>2. PICK step \in {"lock", "restore"} : Projects!Goto(step) /\ (step = "lock" <=> main.op = "bind")
    BY <1>5, <2>1
  <2>3. main' \in Projects!Mains /\ main'.step = step /\ main'.op = main.op /\ main'.root = main.root
    BY <2>2, GotoFields DEF MainSteps, ProjectsInv
  <2>4. Becomes = runtime.active
    BY <1>5 DEF Becomes
  <2>. QED  BY <1>1, <1>5, <2>1, <2>2, <2>3, <2>4
<1>6. CASE main.op = "recovery-required"
  <2>1. /\ runtime' = [runtime EXCEPT !.recovery = legacy = "bad"] /\ main' = Projects!Idle
        /\ UNCHANGED job
    BY <1>6 DEF Projects!Finish, Projects!Return
  <2>2. Becomes = runtime.active
    BY <1>6 DEF Becomes
  <2>3. /\ runtime' \in Projects!Runtimes /\ runtime'.active = runtime.active
        /\ runtime'.faulted = runtime.faulted /\ runtime'.generation = runtime.generation
        /\ runtime'.recovery = (legacy = "bad")
    BY <1>1, <2>1 DEF Projects!Runtimes
  <2>. QED  BY <1>6, <2>1, <2>2, <2>3, DownFields
<1>7. CASE ~(main.op \in {"activate", "restore", "finalize"}) /\ ~(main.op = "detach" /\ runtime.active = main.root)
           /\ ~(main.op \in {"bind", "not-needed"}) /\ main.op # "recovery-required"
  <2>1. UNCHANGED <<runtime, job>> /\ main' = Projects!Idle
    BY <1>7 DEF Projects!Finish, Projects!Return
  <2>2. Becomes = runtime.active
    BY <1>7 DEF Becomes
  <2>. QED  BY <1>1, <2>1, <2>2, DownFields
<1>. QED  BY <1>3, <1>4, <1>5, <1>6, <1>7

LEMMA DropKeeps ==
    ASSUME ProjectsInv, Projects!Drop \/ Projects!DropFails
    PROVE  ProjectsInv'
<1>1. /\ main.step = "drop" /\ Projects!Finish /\ backup' \in {NoRegistry, backup}
      /\ UNCHANGED <<registry, dir, legacy, stage, source, brain, torn>>
      /\ trouble' \in 0..MaxTrouble
  BY ProjectConstants
  DEF Projects!Drop, Projects!DropFails, Projects!diskVars, Projects!registryVars, Projects!Trouble, ProjectsInv, Projects!TypeOK
<1>2. /\ main' \in Projects!Mains
      /\ \/ main' = Projects!Idle
         \/ /\ main'.op = main.op /\ main'.root = main.root
            /\ <<main.op, main'.step>> \in {<<"finalize", "clean">>, <<"bind", "lock">>, <<"not-needed", "restore">>}
      /\ runtime' \in Projects!Runtimes /\ runtime'.active = Becomes /\ runtime'.faulted = runtime.faulted
      /\ runtime'.recovery => runtime.recovery \/ legacy = "bad"
      /\ main.op \notin Projects!StartWrites => runtime'.recovery = runtime.recovery
      /\ \/ job' = job /\ runtime'.generation \in {runtime.generation, runtime.generation + 1}
         \/ /\ Projects!Move(Projects!Slots) /\ runtime'.generation = runtime.generation + 1
            /\ main.op \in {"activate", "restore", "finalize", "detach"}
  BY <1>1, FinishFields
<1>3. /\ registry = main.draft /\ registry # NoRegistry /\ Sound(registry) /\ Records(registry, Becomes)
      /\ main.op = "bind" => main.root \in Roots /\ registry.projects[main.root] = "registered"
  BY <1>1, ProjectConstants DEF ProjectsInv, WriteInv, Sound
<1>4. main'.step \in {"idle", "clean", "lock", "restore"}
  BY <1>2, DownFields
<1>5. Standing' = registry /\ Held' = registry
  BY <1>1, <1>3, <1>4 DEF Standing, Held
<1>6. job' \in [Workers -> Projects!Jobs] /\ \A w \in Workers : job'[w].slot = NoRoot <=> job'[w].step = "over"
  BY <1>2, MoveFields DEF ProjectsInv, Projects!TypeOK
<1>7. Projects!TypeOK'
  BY <1>1, <1>2, <1>6 DEF ProjectsInv, Projects!TypeOK, Projects!RegistryTypeOK
<1>8. MainFits'
  BY <1>1, <1>2, <1>3, DownFields DEF MainFits
<1>9. WriteInv' /\ BrainInv'
  BY <1>1, <1>4 DEF WriteInv, ProjectsInv, BrainInv
<1>10. StandingInv'
  BY <1>1, <1>3, <1>5, SoundKept DEF ProjectsInv, StandingInv
<1>11. ImportInv'
  BY <1>1, <1>2, <1>3, <1>4, DownFields DEF ProjectsInv, ImportInv, Projects!Unreadable
<1>12. ActiveInv'
  <2>1. Records(Held, runtime.active)'
    BY <1>2, <1>3, <1>5 DEF Records
  <2>2. runtime'.active # NoRoot => Projects!Serving' \/ main'.step = "clean"
    BY <1>1, <1>2, <1>4, DownFields, NotServing DEF Becomes
  <2>. QED  BY <2>1, <2>2 DEF ActiveInv
<1>13. JobInv'
  <2>1. SUFFICES ASSUME NEW w \in Workers PROVE JobFits(job[w])'
    BY DEF JobInv
  <2>2. JobFits(job[w])
    BY DEF ProjectsInv, JobInv
  <2>3. /\ runtime.generation \in Nat /\ job[w].generation \in Nat
    BY ProjectConstants DEF ProjectsInv, Projects!TypeOK, Projects!Runtimes, Projects!Jobs
  <2>4. job[w].step # "over" => main.op \notin Projects!StartWrites /\ Projects!Serving'
    BY <1>1, <1>2, <1>4, <2>2, DownFields DEF JobFits
  <2>5. ASSUME job' = job PROVE JobFits(job[w])'
    <3>1. /\ job[w].generation <= runtime.generation => job[w].generation <= runtime'.generation
          /\ job[w].generation < runtime.generation => job[w].generation < runtime'.generation
      BY <1>2, <2>3
    <3>2. main'.step \notin Projects!Writing
      BY <1>4
    <3>. QED  BY <1>2, <1>3, <1>5, <2>2, <2>4, <2>5, <3>1, <3>2 DEF JobFits
  <2>6. ASSUME job' # job PROVE JobFits(job[w])'
    <3>1. job[w].step # "replace"
      BY <1>1, <1>2, <2>2, <2>4, <2>6 DEF JobFits
    <3>. QED  BY <1>1, <1>2, <1>3, <1>5, <2>2, <2>3, <2>4, <2>6, <3>1, MoveFields DEF JobFits
  <2>. QED  BY <2>5, <2>6
<1>. QED  BY <1>7, <1>8, <1>9, <1>10, <1>11, <1>12, <1>13 DEF ProjectsInv

------------------------------------------------------------------------------------
(* What fails, and the death of the process.                                       *)

LEMMA TroubleFields ==
    ASSUME ProjectsInv, NEW n \in {1, 2}, Projects!Trouble(n)
    PROVE  trouble' \in 0..MaxTrouble
  BY ProjectConstants DEF ProjectsInv, Projects!TypeOK, Projects!Trouble

LEMMA StepFailsKeeps ==
    ASSUME ProjectsInv, Projects!StepFails
    PROVE  ProjectsInv'
<1>1. /\ main.step \in (Projects!Starting \ {"clean"}) \cup Projects!Activating /\ main' = Projects!Idle
      /\ UNCHANGED <<registry, backup, dir, legacy, stage, source, brain, job, torn>>
  BY DEF Projects!StepFails, Projects!GiveUp, Projects!Return, Projects!diskVars, Projects!registryVars
<1>2. trouble' \in 0..MaxTrouble
  BY TroubleFields DEF Projects!StepFails
<1>3. CASE main.step \in Projects!Starting
  <2>1. runtime' = [runtime EXCEPT !.active = NoRoot, !.recovery = TRUE, !.faulted = TRUE]
    BY <1>3 DEF Projects!StepFails, Projects!GiveUp
  <2>2. runtime' \in Projects!Runtimes /\ runtime'.active = NoRoot /\ runtime'.recovery = TRUE /\ runtime'.faulted = TRUE
    BY <2>1 DEF ProjectsInv, Projects!TypeOK, Projects!Runtimes
  <2>. QED  BY <1>1, <1>2, <1>3, <2>2, Settles
<1>4. CASE main.step \in Projects!Activating
  <2>1. UNCHANGED runtime
    BY <1>4, Activation DEF Projects!StepFails, Projects!GiveUp
  <2>2. main' \in Projects!Mains /\ main'.op = "none" /\ main'.step = "idle"
    BY <1>1, DownFields
  <2>3. Standing' = registry /\ Standing = registry /\ Held' = Held
    BY <1>1, <1>4, <2>2 DEF Standing, Held
  <2>4. Projects!TypeOK'
    BY <1>1, <1>2, <2>1, <2>2 DEF ProjectsInv, Projects!TypeOK, Projects!RegistryTypeOK
  <2>5. MainFits' /\ WriteInv' /\ BrainInv'
    BY <1>1, <2>2 DEF MainFits, WriteInv, ProjectsInv, BrainInv
  <2>6. StandingInv'
    BY <1>1, <2>3, SoundKept DEF ProjectsInv, StandingInv
  <2>7. ImportInv' /\ ActiveInv'
    BY <1>1, <1>4, <2>1, <2>2, <2>3, Activation DEF ProjectsInv, ImportInv, ActiveInv, Records
  <2>8. JobInv'
    <3>1. SUFFICES ASSUME NEW w \in Workers PROVE JobFits(job[w])'
      BY DEF JobInv
    <3>2. JobFits(job[w])
      BY DEF ProjectsInv, JobInv
    <3>. QED  BY <1>1, <2>1, <2>2, <2>3, <3>2 DEF JobFits
  <2>. QED  BY <2>4, <2>5, <2>6, <2>7, <2>8 DEF ProjectsInv
<1>. QED  BY <1>1, <1>3, <1>4

LEMMA DieKeeps ==
    ASSUME ProjectsInv, Projects!Die
    PROVE  ProjectsInv'
<1>1. /\ main' = Projects!Down /\ runtime' = Projects!Fresh /\ job' = [w \in Workers |-> Projects!NoJob]
      /\ UNCHANGED <<registry, backup, dir, legacy, stage, source, brain>>
      /\ torn' = (torn \/ Projects!Unfinished)
  BY DEF Projects!Die, Projects!diskVars, Projects!registryVars
<1>2. trouble' \in 0..MaxTrouble
  BY TroubleFields DEF Projects!Die
<1>3. main' \in Projects!Mains /\ main'.op = "none" /\ main'.step = "down" /\ main'.root = NoRoot
  BY <1>1, DownFields
<1>4. runtime' \in Projects!Runtimes /\ runtime'.active = NoRoot /\ ~runtime'.recovery
  BY <1>1, FreshFields
<1>5. Standing' = registry /\ (registry # NoRegistry => Standing = registry)
  BY <1>1, <1>3 DEF Standing, ProjectsInv, WriteInv
<1>6. \A w \in Workers : job'[w] \in Projects!Jobs /\ job'[w].slot = NoRoot /\ job'[w].step = "over" /\ job'[w].kind = "save"
  BY <1>1, ProjectConstants DEF Projects!NoJob, Projects!Jobs, Projects!Legacies
<1>7. job' \in [Workers -> Projects!Jobs]
  BY <1>1, <1>6
<1>8. torn' \in BOOLEAN
  BY <1>1
<1>9. Projects!TypeOK'
  BY <1>1, <1>2, <1>3, <1>4, <1>6, <1>7, <1>8 DEF ProjectsInv, Projects!TypeOK, Projects!RegistryTypeOK
<1>10. MainFits' /\ WriteInv' /\ BrainInv'
  BY <1>1, <1>3 DEF MainFits, WriteInv, ProjectsInv, BrainInv
<1>11. StandingInv'
  BY <1>1, <1>5, SoundKept DEF ProjectsInv, StandingInv
<1>12. ImportInv'
  <2>1. registry = NoRegistry /\ ~torn' =>
            /\ backup = NoRegistry
            /\ Projects!Orphans = {} \/ (Imported /\ stage = "none" /\ legacy = "project")
            /\ stage # "none" => legacy = "project"
    BY <1>1 DEF ProjectsInv, ImportInv, Projects!Unfinished
  <2>. QED  BY <1>1, <1>3, <1>4, <2>1 DEF ImportInv, Imported, Projects!Orphans
<1>13. ActiveInv'
  BY <1>4 DEF ActiveInv, Records
<1>14. JobInv'
  BY <1>6 DEF JobInv, JobFits
<1>. QED  BY <1>9, <1>10, <1>11, <1>12, <1>13, <1>14 DEF ProjectsInv

LEMMA WriteFailsKeeps ==
    ASSUME ProjectsInv, Projects!WriteFails
    PROVE  ProjectsInv'
<1>1. /\ main.step \in {"checkpoint", "commit"} /\ main' = Projects!Idle
      /\ UNCHANGED <<legacy, stage, source, brain, job>>
      /\ runtime' = (IF main.op \in Projects!StartWrites
                     THEN [runtime EXCEPT !.active = NoRoot, !.recovery = TRUE, !.faulted = TRUE] ELSE runtime)
  BY DEF Projects!WriteFails, Projects!GiveUp, Projects!Return
<1>2. trouble' \in 0..MaxTrouble
  BY TroubleFields DEF Projects!WriteFails
<1>3. main' \in Projects!Mains /\ main'.op = "none" /\ main'.step = "idle"
  BY <1>1, DownFields
<1>4. /\ runtime' \in Projects!Runtimes
      /\ main.op \in Projects!StartWrites =>
            runtime'.active = NoRoot /\ runtime'.recovery = TRUE /\ runtime'.faulted = TRUE
  BY <1>1 DEF ProjectsInv, Projects!TypeOK, Projects!Runtimes
<1>5. /\ Standing = NoRegistry => registry = NoRegistry /\ backup = NoRegistry
      /\ Standing # registry => registry = NoRegistry /\ backup # NoRegistry /\ Standing = backup
  BY <1>1 DEF Standing, ProjectsInv, WriteInv
\* What the undo leaves: what stood, or, when that fails, the backup alone.
<1>6. \/ /\ registry' = Standing /\ dir' \in {dir, Projects!DirectoryRemoved}
         /\ backup' = (IF Standing = registry THEN backup ELSE NoRegistry)
         /\ dir' # Projects!DirectoryRemoved /\ Standing = NoRegistry => torn'
         /\ torn => torn'
      \/ /\ registry' = NoRegistry /\ backup' = backup /\ backup # NoRegistry /\ torn'
         /\ dir' = Projects!DirectoryRemoved
  BY <1>1, <1>5 DEF Projects!WriteFails, Standing
<1>7. torn' \in BOOLEAN
  BY DEF Projects!WriteFails, ProjectsInv, Projects!TypeOK
<1>8. /\ dir' \in [Roots -> Projects!Directories]
      /\ \A r \in Roots : dir'[r] # dir[r] => dir[r] = "bare" /\ dir'[r] = "none"
      /\ Imported /\ main.op # "register" => dir' = dir
      /\ dir' = Projects!DirectoryRemoved /\ main.op = "register" /\ Projects!Orphans = {main.root} => Projects!Orphans' = {}
      /\ Projects!Orphans = {} => Projects!Orphans' = {}
  BY <1>1, <1>6, ProjectConstants
  DEF Projects!DirectoryRemoved, ProjectsInv, WriteInv, Projects!TypeOK, Projects!RegistryTypeOK, Projects!Directories, Projects!Orphans
<1>9. Standing' = registry'
  BY <1>3 DEF Standing
<1>10. registry' # NoRegistry => registry' = Standing /\ Sound(registry') /\ Sound(registry)'
  BY <1>1, <1>6, <1>8, ProjectConstants DEF ProjectsInv, StandingInv, Sound, IdentityFits
<1>11. Projects!TypeOK'
  BY <1>1, <1>2, <1>3, <1>4, <1>6, <1>7, <1>8, <1>10
  DEF ProjectsInv, Projects!TypeOK, Projects!RegistryTypeOK, Sound
<1>12. MainFits' /\ WriteInv' /\ BrainInv'
  BY <1>1, <1>3 DEF MainFits, WriteInv, ProjectsInv, BrainInv
<1>13. StandingInv'
  BY <1>8, <1>9, <1>10 DEF ProjectsInv, StandingInv
<1>14. ImportInv'
  <2>1. SUFFICES ASSUME registry' = NoRegistry, ~torn'
        PROVE  /\ backup' = NoRegistry
               /\ Projects!Orphans' = {} \/ (Imported' /\ stage = "none" /\ legacy = "project" /\ Interrupted')
               /\ stage # "none" => legacy = "project" /\ Interrupted'
    BY <1>1, <1>3, <1>4, <1>6, <1>7 DEF ProjectsInv, ImportInv
  <2>2. Standing = NoRegistry /\ registry = NoRegistry /\ backup = NoRegistry /\ backup' = NoRegistry /\ ~torn
        /\ dir' = Projects!DirectoryRemoved
    BY <1>5, <1>6, <2>1
  <2>3. /\ \/ Projects!Orphans = {}
           \/ Imported /\ stage = "none" /\ legacy = "project" /\ main.op = "finalize"
           \/ main.op = "register" /\ Projects!Orphans = {main.root}
        /\ stage # "none" => legacy = "project" /\ Interrupted
    BY <1>1, <2>2 DEF ProjectsInv, ImportInv
  <2>4. Interrupted => Interrupted'
    BY <1>1, <1>4 DEF Interrupted
  <2>5. main.op = "finalize" => Interrupted'
    BY <1>4 DEF Interrupted
  <2>6. Imported /\ main.op = "finalize" => Imported'
    BY <1>8 DEF Imported, Projects!Orphans
  <2>. QED  BY <1>8, <2>2, <2>3, <2>4, <2>5, <2>6
<1>15. ActiveInv'
  <2>1. Records(Held, runtime.active)
    BY <1>1 DEF ProjectsInv, ActiveInv
  <2>2. registry' = Standing => Held' = Held
    BY <1>9 DEF Held
  <2>3. runtime'.active \in {runtime.active, NoRoot}
    BY <1>1, <1>4
  <2>. QED  BY <1>3, <1>6, <2>1, <2>2, <2>3 DEF ActiveInv, Records, Projects!Unreadable
<1>16. JobInv'
  <2>1. SUFFICES ASSUME NEW w \in Workers PROVE JobFits(job[w])'
    BY DEF JobInv
  <2>2. JobFits(job[w])
    BY DEF ProjectsInv, JobInv
  <2>3. job[w].step # "over" => main.op \notin Projects!StartWrites /\ runtime' = runtime
    BY <1>1, <2>2 DEF JobFits
  <2>4. Standing' # NoRegistry \/ backup' # NoRegistry \/ (Standing = NoRegistry /\ backup = NoRegistry)
    BY <1>5, <1>6, <1>9
  <2>5. ~(job[w].step = "replace" /\ job[w].slot = LegacySlot)
    <3>1. SUFFICES ASSUME job[w].step = "replace", job[w].slot = LegacySlot PROVE FALSE
      OBVIOUS
    <3>2. Standing = NoRegistry /\ Projects!Serving /\ ~Projects!MainHolds
      BY <1>5, <2>2, <3>1 DEF JobFits
    <3>3. main.op = "bind"
      BY <1>1, <3>2, MainFields DEF ProjectsInv, MainFits, MainOps
    <3>. QED  BY <1>1, <3>2, <3>3 DEF ProjectsInv, MainFits
  <2>. QED  BY <1>1, <1>3, <2>2, <2>3, <2>4, <2>5 DEF JobFits
<1>. QED  BY <1>11, <1>12, <1>13, <1>14, <1>15, <1>16 DEF ProjectsInv

------------------------------------------------------------------------------------
(* The workers.                                                                    *)

\* A step of a worker changes its job; while commands are served it may change the
\* single-project files and the Project Brain as well.
LEMMA WorkerStep ==
    ASSUME ProjectsInv, NEW w \in Workers, NEW j \in Projects!Jobs,
           job' = [job EXCEPT ![w] = j], j.slot = NoRoot <=> j.step = "over", JobFits(j),
           UNCHANGED <<registry, backup, dir, stage, source, main, runtime, torn>>,
           trouble' \in 0..MaxTrouble,
           legacy' \in Projects!Legacies, legacy' = legacy \/ (Projects!Serving /\ ~runtime.recovery),
           brain' \in [Roots -> {"none", "same", "changed", "new"}],
           \A p \in Roots : brain'[p] = brain[p] \/ (brain[p] = "same" /\ brain'[p] = "changed")
    PROVE  ProjectsInv'
<1>1. Standing' = Standing /\ Held' = Held /\ Becomes' = Becomes
  BY DEF Standing, Held, Becomes
<1>2. \A p \in Workers : job'[p] = IF p = w THEN j ELSE job[p]
  BY DEF ProjectsInv, Projects!TypeOK
<1>3. job' \in [Workers -> Projects!Jobs]
  BY DEF ProjectsInv, Projects!TypeOK
<1>4. Projects!TypeOK'
  BY <1>2, <1>3 DEF ProjectsInv, Projects!TypeOK, Projects!RegistryTypeOK
<1>5. MainFits'
  BY <1>1 DEF ProjectsInv, MainFits
<1>6. \A i : \A p \in Roots : IdentityFits(i, p) => IdentityFits(i, p)'
  BY DEF IdentityFits, Projects!IdentityOf
<1>7. Sound(main.draft) => Sound(main.draft)'
  BY <1>6 DEF Sound, Projects!Registries
<1>8. WriteInv'
  BY <1>1, <1>7 DEF ProjectsInv, WriteInv, Records
<1>9. Sound(Standing) => Sound(Standing)'
  BY <1>1, <1>6 DEF Sound
<1>10. StandingInv'
  BY <1>1, <1>9 DEF ProjectsInv, StandingInv
<1>11. ImportInv'
  BY <1>1 DEF ProjectsInv, ImportInv, Imported, Interrupted, Projects!Orphans, Projects!Unreadable
<1>12. BrainInv'
  <2>1. main.step \in {"promote", "unlink", "unlinked"} => main.root \in Roots
    BY Activation
  <2>. QED  BY <2>1 DEF ProjectsInv, BrainInv
<1>13. ActiveInv'
  BY <1>1 DEF ProjectsInv, ActiveInv, Records, Projects!Unreadable, Projects!Orphans
<1>14. JobFits(j)'
  BY <1>1 DEF JobFits
<1>15. \A p \in Workers : JobFits(job[p]) => JobFits(job[p])' \/ p = w
  BY <1>1, <1>2 DEF JobFits
<1>16. JobInv'
  BY <1>2, <1>14, <1>15 DEF ProjectsInv, JobInv
<1>. QED  BY <1>4, <1>5, <1>8, <1>10, <1>11, <1>12, <1>13, <1>16 DEF ProjectsInv

LEMMA NoJobFits ==
    /\ Projects!NoJob \in Projects!Jobs /\ Projects!NoJob.slot = NoRoot /\ Projects!NoJob.step = "over"
    /\ JobFits(Projects!NoJob)
<1>1. Projects!NoJob \in Projects!Jobs
  BY ProjectConstants DEF Projects!NoJob, Projects!Jobs, Projects!Legacies
<1>2. Projects!NoJob.slot = NoRoot /\ Projects!NoJob.step = "over" /\ Projects!NoJob.kind = "save"
  BY DEF Projects!NoJob
<1>. QED  BY <1>1, <1>2 DEF JobFits

LEMMA JobNow ==
    ASSUME ProjectsInv, NEW w \in Workers
    PROVE  /\ job[w] \in Projects!Jobs /\ JobFits(job[w]) /\ (job[w].slot = NoRoot <=> job[w].step = "over")
           /\ trouble \in 0..MaxTrouble /\ legacy \in Projects!Legacies
           /\ brain \in [Roots -> {"none", "same", "changed", "new"}]
           /\ runtime \in Projects!Runtimes /\ runtime.active \in Roots \cup {NoRoot}
           /\ runtime.generation \in 0..MaxGeneration
  BY DEF ProjectsInv, JobInv, Projects!TypeOK, Projects!Runtimes

\* A job ends.
LEMMA JobEnds ==
    ASSUME ProjectsInv, NEW w \in Workers, job' = [job EXCEPT ![w] = Projects!NoJob],
           UNCHANGED <<registry, backup, dir, stage, source, brain, main, runtime, torn>>,
           trouble' \in 0..MaxTrouble,
           legacy' \in Projects!Legacies, legacy' = legacy \/ job[w].step = "replace"
    PROVE  ProjectsInv'
<1>1. job[w].step = "replace" => Projects!Serving /\ ~runtime.recovery
  BY JobNow DEF JobFits, Projects!Jobs
<1>. QED  BY <1>1, JobNow, NoJobFits, WorkerStep

LEMMA TakeScopeKeeps ==
    ASSUME ProjectsInv, NEW w \in Workers, Projects!TakeScope(w) \/ Projects!Ask(w)
    PROVE  ProjectsInv'
<1>1. UNCHANGED <<registry, backup, dir, legacy, stage, source, brain, main, runtime, trouble, torn>> /\ Projects!Serving
  BY DEF Projects!TakeScope, Projects!Ask, Projects!diskVars, Projects!registryVars
<1>2. CASE Projects!TakeScope(w)
  <2>1. PICK j : j = [Projects!NoJob EXCEPT !.step = "work", !.slot = Projects!Scope,
                          !.generation = runtime.generation]
    OBVIOUS
  <2>2. Projects!Scope \in Projects!Slots /\ Projects!Scope # NoRoot
    BY JobNow, ProjectConstants DEF Projects!Scope, Projects!Slots
  <2>3. /\ j \in Projects!Jobs /\ j.kind = "save" /\ j.step = "work" /\ j.slot = Projects!Scope
        /\ j.generation = runtime.generation /\ j.moved = FALSE
    BY <2>1, <2>2, JobNow DEF Projects!NoJob, Projects!Jobs, Projects!Legacies
  <2>4. JobFits(j)
    BY <1>1, <1>2, <2>3, JobNow, ProjectConstants DEF JobFits, Projects!TakeScope
  <2>5. job' = [job EXCEPT ![w] = j]
    BY <1>2, <2>1 DEF Projects!TakeScope
  <2>. QED  BY <1>1, <2>2, <2>3, <2>4, <2>5, JobNow, WorkerStep
<1>3. CASE Projects!Ask(w)
  <2>1. PICK j : j = [Projects!NoJob EXCEPT !.kind = "ask", !.step = "asked", !.slot = runtime.active,
                          !.generation = runtime.generation]
    OBVIOUS
  <2>2. runtime.active \in Roots
    BY <1>3, JobNow DEF Projects!Ask
  <2>3. /\ j \in Projects!Jobs /\ j.kind = "ask" /\ j.step = "asked" /\ j.slot = runtime.active
        /\ j.generation = runtime.generation /\ j.moved = FALSE
    BY <2>1, <2>2, JobNow, ProjectConstants DEF Projects!NoJob, Projects!Jobs, Projects!Legacies, Projects!Slots
  <2>4. JobFits(j)
    BY <1>1, <2>2, <2>3, JobNow, ProjectConstants DEF JobFits
  <2>5. job' = [job EXCEPT ![w] = j]
    BY <1>3, <2>1 DEF Projects!Ask
  <2>. QED  BY <1>1, <2>2, <2>3, <2>4, <2>5, JobNow, ProjectConstants, WorkerStep
<1>. QED  BY <1>2, <1>3

LEMMA ReplaceKeeps ==
    ASSUME ProjectsInv, NEW w \in Workers, Projects!Replace(w)
    PROVE  ProjectsInv'
<1>1. /\ UNCHANGED <<registry, backup, dir, stage, source, brain, main, runtime, trouble, torn>>
      /\ job[w].step = "work" /\ Projects!Free
  BY DEF Projects!Replace, Projects!registryVars
<1>2. CASE job' = [job EXCEPT ![w] = Projects!NoJob] /\ UNCHANGED legacy
  BY <1>1, <1>2, JobNow, JobEnds
<1>3. CASE ~Projects!Unreadable /\ Projects!Matches(job[w])
  <2>1. PICK j : /\ job' = [job EXCEPT ![w] = j] /\ j \in Projects!Jobs
                 /\ j.step = "replace" /\ j.kind = job[w].kind /\ j.slot = job[w].slot
                 /\ j.generation = job[w].generation /\ j.inner = job[w].inner /\ j.moved = job[w].moved
    <3>1. \/ job' = [job EXCEPT ![w] = [job[w] EXCEPT !.step = "replace", !.old = legacy]]
          \/ job' = [job EXCEPT ![w] = [job[w] EXCEPT !.step = "replace"]]
      BY <1>3, JobNow DEF Projects!Replace, ProjectsInv, Projects!TypeOK
    <3>2. PICK j : /\ job' = [job EXCEPT ![w] = j]
                   /\ \/ j = [job[w] EXCEPT !.step = "replace", !.old = legacy]
                      \/ j = [job[w] EXCEPT !.step = "replace"]
      BY <3>1
    <3>3. /\ j \in Projects!Jobs /\ j.step = "replace" /\ j.kind = job[w].kind /\ j.slot = job[w].slot
          /\ j.generation = job[w].generation /\ j.inner = job[w].inner /\ j.moved = job[w].moved
      BY <3>2, JobNow DEF Projects!Jobs
    <3>. QED  BY <3>2, <3>3
  <2>2. /\ job[w].kind = "save" /\ Projects!Serving /\ ~runtime.recovery /\ j.generation <= runtime.generation
        /\ job[w].moved => IF job[w].slot = LegacySlot THEN Standing # NoRegistry \/ backup # NoRegistry
                           ELSE job[w].generation < runtime.generation
    BY <1>1, <2>1, JobNow DEF JobFits, Projects!Jobs
  <2>3. job[w].slot = LegacySlot => registry = NoRegistry /\ backup = NoRegistry
    <3>1. SUFFICES ASSUME job[w].slot = LegacySlot PROVE registry = NoRegistry /\ backup = NoRegistry
      OBVIOUS
    <3>2. Projects!Projects(Projects!Loaded) = {}
      BY <1>3, <3>1 DEF Projects!Matches
    <3>3. registry # NoRegistry => Standing = registry
      BY DEF Standing, ProjectsInv, WriteInv
    <3>4. registry # NoRegistry => Projects!Projects(registry) # {}
      BY <3>3 DEF ProjectsInv, StandingInv, Sound
    <3>. QED  BY <1>3, <3>2, <3>4 DEF Projects!Unreadable, Projects!Loaded
  <2>4. ~job[w].moved
    <3>1. CASE job[w].slot = LegacySlot
      BY <2>2, <2>3, <3>1 DEF Standing
    <3>2. CASE job[w].slot # LegacySlot
      BY <1>3, <2>2, <3>2, JobNow DEF Projects!Matches
    <3>. QED  BY <3>1, <3>2
  <2>5. JobFits(j)
    BY <1>1, <2>1, <2>2, <2>3, <2>4 DEF JobFits, Projects!Free
  <2>6. legacy' \in Projects!Legacies /\ j.slot # NoRoot
    BY <1>1, <1>3, <2>1, JobNow DEF Projects!Replace, Projects!Legacies
  <2>. QED  BY <1>1, <2>1, <2>2, <2>5, <2>6, JobNow, WorkerStep
<1>. QED  BY <1>2, <1>3 DEF Projects!Replace

LEMMA WorkerSaveKeeps ==
    ASSUME ProjectsInv, NEW w \in Workers,
           Projects!Save(w) \/ Projects!SaveFails(w) \/ Projects!Deliver(w)
    PROVE  ProjectsInv'
<1>1. job' = [job EXCEPT ![w] = Projects!NoJob]
      /\ UNCHANGED <<registry, backup, dir, stage, source, brain, main, runtime, torn>>
  BY DEF Projects!Save, Projects!SaveFails, Projects!Deliver, Projects!registryVars, Projects!diskVars
<1>2. legacy' = legacy \/ job[w].step = "replace"
  BY DEF Projects!Save, Projects!SaveFails, Projects!Deliver, Projects!diskVars
<1>3. trouble' \in 0..MaxTrouble
  BY JobNow, TroubleFields DEF Projects!Save, Projects!SaveFails, Projects!Deliver
<1>4. legacy' \in Projects!Legacies
  BY JobNow
  DEF Projects!Save, Projects!SaveFails, Projects!Deliver, Projects!diskVars, Projects!Legacies, Projects!Jobs
<1>. QED  BY <1>1, <1>2, <1>3, <1>4, JobEnds

LEMMA WorkerRunKeeps ==
    ASSUME ProjectsInv, NEW w \in Workers, Projects!Run(w)
    PROVE  ProjectsInv'
<1>1. UNCHANGED <<registry, backup, dir, legacy, stage, source, brain, main, runtime, trouble, torn>> /\ job[w].step = "asked"
  BY DEF Projects!Run, Projects!diskVars, Projects!registryVars
<1>2. CASE runtime.active = NoRoot \/ Projects!Unreadable
  BY <1>1, <1>2, JobNow, JobEnds DEF Projects!Run
<1>3. CASE ~(runtime.active = NoRoot \/ Projects!Unreadable)
  <2>1. PICK j : j = [job[w] EXCEPT !.step = "running", !.inner = runtime.active]
    OBVIOUS
  <2>2. job' = [job EXCEPT ![w] = j]
    BY <1>3, <2>1 DEF Projects!Run, ProjectsInv, Projects!TypeOK
  <2>3. /\ j \in Projects!Jobs /\ j.step = "running" /\ j.kind = job[w].kind /\ j.slot = job[w].slot
        /\ j.generation = job[w].generation /\ j.inner = runtime.active /\ j.moved = job[w].moved
    BY <2>1, JobNow DEF Projects!Jobs
  <2>4. runtime.active \in Roots /\ job[w].kind = "ask"
    BY <1>1, <1>3, JobNow DEF JobFits, Projects!Jobs
  <2>5. JobFits(j) /\ j.slot # NoRoot
    BY <1>1, <2>3, <2>4, JobNow DEF JobFits
  <2>. QED  BY <1>1, <2>2, <2>3, <2>5, JobNow, WorkerStep
<1>. QED  BY <1>2, <1>3

LEMMA AnswerKeeps ==
    ASSUME ProjectsInv, NEW w \in Workers, Projects!Answer(w)
    PROVE  ProjectsInv'
<1>1. UNCHANGED <<registry, backup, dir, legacy, stage, source, main, runtime, trouble, torn>> /\ job[w].step = "running"
  BY DEF Projects!Answer, Projects!registryVars
<1>2. PICK j : j = [job[w] EXCEPT !.step = "answer"]
  OBVIOUS
<1>3. job' = [job EXCEPT ![w] = j]
  BY <1>2 DEF Projects!Answer, ProjectsInv, Projects!TypeOK
<1>4. /\ j \in Projects!Jobs /\ j.step = "answer" /\ j.kind = job[w].kind /\ j.slot = job[w].slot
      /\ j.generation = job[w].generation /\ j.inner = job[w].inner /\ j.moved = job[w].moved
  BY <1>2, JobNow DEF Projects!Jobs
<1>5. job[w].kind = "ask" /\ job[w].inner \in Roots
  BY <1>1, JobNow DEF JobFits, Projects!Jobs
<1>6. JobFits(j) /\ j.slot # NoRoot
  BY <1>1, <1>4, <1>5, JobNow DEF JobFits
<1>7. PICK r : r = job[w].inner
  OBVIOUS
<1>8. brain' = brain \/ (brain[r] = "same" /\ brain' = [brain EXCEPT ![r] = "changed"])
  BY <1>7 DEF Projects!Answer
<1>9. /\ brain' \in [Roots -> {"none", "same", "changed", "new"}]
      /\ \A p \in Roots : brain'[p] = brain[p] \/ (brain[p] = "same" /\ brain'[p] = "changed")
  BY <1>5, <1>7, <1>8, JobNow
<1>. QED  BY <1>1, <1>3, <1>4, <1>6, <1>9, JobNow, WorkerStep

------------------------------------------------------------------------------------
(* The theorems.                                                                   *)

LEMMA ProjectsInitially ==
    ASSUME Projects!Init
    PROVE  ProjectsInv
<1>1. /\ registry = NoRegistry /\ backup = NoRegistry /\ stage = "none" /\ main = Projects!Down
      /\ runtime = Projects!Fresh /\ trouble = 0 /\ torn = FALSE
      /\ dir = [r \in Roots |-> "none"] /\ brain = [r \in Roots |-> "none"]
      /\ job = [w \in Workers |-> Projects!NoJob]
  BY DEF Projects!Init
<1>2. main \in Projects!Mains /\ main.op = "none" /\ main.step = "down" /\ main.root = NoRoot
  BY <1>1, DownFields
<1>3. runtime \in Projects!Runtimes /\ runtime.active = NoRoot /\ ~runtime.recovery
  BY <1>1, FreshFields
<1>4. Projects!RegistryTypeOK /\ Projects!Orphans = {}
  BY <1>1 DEF Projects!RegistryTypeOK, Projects!Directories, Projects!Orphans
<1>5. legacy \in Projects!Legacies /\ source \in [Roots -> {"none", "whole"}]
  BY DEF Projects!Init
<1>6. \A w \in Workers : /\ job[w] \in Projects!Jobs /\ job[w].slot = NoRoot /\ job[w].step = "over"
                         /\ JobFits(job[w])
  BY <1>1, NoJobFits
<1>7. job \in [Workers -> Projects!Jobs] /\ trouble \in 0..MaxTrouble
  BY <1>1, <1>6, ProjectConstants
<1>8. brain \in [Roots -> {"none", "same", "changed", "new"}] /\ source \in [Roots -> {"none", "whole", "torn"}]
  BY <1>1, <1>5
<1>9. Projects!TypeOK
  BY <1>1, <1>2, <1>3, <1>4, <1>5, <1>6, <1>7, <1>8 DEF Projects!TypeOK
<1>10. MainFits /\ WriteInv
  BY <1>1, <1>2 DEF MainFits, WriteInv
<1>11. StandingInv
  BY <1>1, <1>2 DEF StandingInv, Standing
<1>12. ImportInv
  BY <1>1, <1>2, <1>3, <1>4 DEF ImportInv
<1>13. BrainInv /\ ActiveInv
  BY <1>1, <1>2, <1>3, <1>5 DEF BrainInv, ActiveInv, Records
<1>. QED  BY <1>6, <1>9, <1>10, <1>11, <1>12, <1>13 DEF ProjectsInv, JobInv

LEMMA ProjectsKept ==
    ASSUME ProjectsInv, Projects!Next
    PROVE  ProjectsInv'
<1>1. CASE Projects!Launch \/ Projects!Restore \/ Projects!Stage \/ Projects!Populate \/ Projects!Place
           \/ Projects!Finalize \/ Projects!Clean
  BY <1>1, LaunchKeeps, RestoreKeeps, StageKeeps, ImportPlaceKeeps, FinalizeKeeps, CleanKeeps
<1>2. CASE \E r \in Roots : Projects!Command(r)
  BY <1>2, RegisterKeeps, RenameKeeps, DetachKeeps, ProjectActivateKeeps DEF Projects!Command
<1>3. CASE Projects!Storage \/ Projects!Promote \/ Projects!Unlink \/ Projects!Bind \/ Projects!Lock
  BY <1>3, StorageKeeps, PromoteKeeps, UnlinkKeeps, BindKeeps, LockKeeps
<1>4. CASE Projects!Checkpoint \/ Projects!Commit \/ Projects!Drop
  BY <1>4, CheckpointKeeps, CommitKeeps, DropKeeps
<1>5. CASE \E w \in Workers : Projects!Work(w) \/ Projects!SaveFails(w)
  BY <1>5, TakeScopeKeeps, ReplaceKeeps, WorkerSaveKeeps, WorkerRunKeeps, AnswerKeeps DEF Projects!Work
<1>6. CASE Projects!StepFails \/ Projects!WriteFails \/ Projects!DropFails \/ Projects!Die
  BY <1>6, StepFailsKeeps, WriteFailsKeeps, DropKeeps, DieKeeps
<1>. QED  BY <1>1, <1>2, <1>3, <1>4, <1>5, <1>6 DEF Projects!Next

LEMMA ProjectsIdle ==
    ASSUME ProjectsInv, UNCHANGED projectVars
    PROVE  ProjectsInv'
<1>1. UNCHANGED <<registry, backup, dir, legacy, stage, source, brain, main, runtime, job, trouble, torn>>
  BY DEF projectVars
<1>2. Projects!TypeOK'
  BY <1>1 DEF ProjectsInv, Projects!TypeOK, Projects!RegistryTypeOK
<1>3. Standing' = Standing /\ Held' = Held /\ Becomes' = Becomes
  BY <1>1 DEF Standing, Held, Becomes
<1>4. MainFits' /\ BrainInv'
  BY <1>1, <1>3 DEF ProjectsInv, MainFits, BrainInv
<1>5. WriteInv' /\ StandingInv'
  BY <1>1, <1>3 DEF ProjectsInv, WriteInv, StandingInv, Sound, IdentityFits, Records
<1>6. ImportInv' /\ ActiveInv'
  BY <1>1, <1>3
  DEF ProjectsInv, ImportInv, Imported, Interrupted, Projects!Orphans, Projects!Unreadable, ActiveInv, Records
<1>7. JobInv'
  BY <1>1, <1>3 DEF ProjectsInv, JobInv, JobFits
<1>. QED  BY <1>2, <1>4, <1>5, <1>6, <1>7 DEF ProjectsInv

\* Whatever the start, the commands and the workers do, and wherever they fail or the
\* process dies, what is on the disk is what the next step expects
\* (desktop_project_migration.rs, desktop_project_registry.rs).
THEOREM ProjectsInvariantHolds == Spec => []ProjectsInv
<1>1. Init => ProjectsInv
  BY ProjectsInitially DEF Init
<1>2. ProjectsInv /\ [Next]_vars => ProjectsInv'
  <2>1. SUFFICES ASSUME ProjectsInv, [Next]_vars PROVE ProjectsInv'
    OBVIOUS
  <2>2. CASE ProjectsStep
    BY <2>1, <2>2, ProjectsKept DEF ProjectsStep
  <2>3. CASE UNCHANGED projectVars
    BY <2>1, <2>3, ProjectsIdle
  <2>. QED  BY <2>1, <2>2, <2>3
       DEF Next, UpdatesStep, ConnectionStep, ReviewStep, KnowledgeStep, SessionsStep, AgentStep, vars
<1>. QED  BY <1>1, <1>2, PTL DEF Spec

\* Wherever an earlier start or a write of the registry was interrupted, the next start
\* goes on; a registry that cannot be read was left so by a death or a failed undo; and
\* no Project Brain is lost (initialize, write_registry,
\* ensureDesktopProjectBrainStorage).
THEOREM StartHolds == Spec => []StartConverges
<1>1. ProjectsInv => StartConverges
  <2>1. SUFFICES ASSUME ProjectsInv
        PROVE  Projects!StartConverges /\ Projects!UnreadableHasCause /\ Projects!BrainNeverLost
    BY DEF StartConverges, Of
  <2>2. registry # NoRegistry => Sound(registry) /\ Projects!Loaded = registry
    BY <2>1 DEF ProjectsInv, WriteInv, StandingInv, Standing, Projects!Loaded
  <2>3. registry = NoRegistry =>
            /\ Projects!Loaded.legacy = "pending"
            /\ \A r \in Roots : Projects!Loaded.identity[r] = Projects!NoIdentity
    BY DEF Projects!Loaded, Projects!EmptyRegistry
  <2>4. ImportInv /\ BrainInv /\ StandingInv
    BY <2>1 DEF ProjectsInv
  <2>5. Projects!StartConverges
    BY <2>2, <2>3, <2>4, ProjectConstants
    DEF Projects!StartConverges, Sound, StandingInv, ImportInv, Interrupted, Projects!Orphans
  <2>6. Projects!UnreadableHasCause
    BY <2>4 DEF Projects!UnreadableHasCause, ImportInv, Interrupted, Projects!Unreadable
  <2>7. Projects!BrainNeverLost
    BY <2>2, <2>3, <2>4 DEF Projects!BrainNeverLost, BrainInv, Sound, IdentityFits
  <2>. QED  BY <2>5, <2>6, <2>7
<1>. QED  BY <1>1, ProjectsInvariantHolds, PTL

\* The active project is registered and the one recorded last, and what a worker saves or
\* answers is of the session it was asked in (activate_at, detach_at,
\* persistence_scope_matches_runtime).
THEOREM ActiveHolds == Spec => []ActiveIsRecorded
<1>1. ProjectsInv => ActiveIsRecorded
  <2>1. SUFFICES ASSUME ProjectsInv
        PROVE  Projects!ActiveIsRecorded /\ Projects!LandsOnlyIfCurrent
    BY DEF ActiveIsRecorded, Of
  <2>2. Projects!ActiveIsRecorded
    BY <2>1, AtRest DEF Projects!ActiveIsRecorded, Records
  <2>3. ASSUME NEW w \in Workers
        PROVE  job[w].step = "replace" \/ (job[w].step = "answer" /\ Projects!Answers(job[w])) => ~job[w].moved
    <3>1. job[w].step = "answer" => job[w].slot # LegacySlot /\ job[w].kind = "ask"
      BY <2>1, JobNow, ProjectConstants DEF JobFits, Projects!Jobs
    <3>. QED  BY <2>1, <3>1, JobNow DEF JobFits, Projects!Answers
  <2>. QED  BY <2>2, <2>3 DEF Projects!LandsOnlyIfCurrent
<1>. QED  BY <1>1, ProjectsInvariantHolds, PTL

(***************************************************************************)
(* The updates.                                                            *)
(***************************************************************************)

LEMMA UpdatesConstants ==
    /\ \A d \in Documents : d.seq \in Nat /\ d.seq # 0 /\ d.issued \in Nat /\ d.expires \in Nat
    /\ \A d \in Documents : \A b \in d.blocks : b.from \in Nat /\ b.until \in Nat
    /\ \A d \in Documents : \A n \in d.notices : n.from \in Nat /\ n.until \in Nat
    /\ \A d \in Documents : \A n, m \in d.notices : n.id = m.id => n = m
    /\ \A d, e \in Documents : d.seq = e.seq => d = e
    /\ MaxBlocks \in Nat /\ MaxNotices \in Nat /\ MaxNow \in Nat /\ MaxNow # 0 /\ MaxReplies \in Nat /\ MaxBroadcastTrouble \in Nat
    /\ Versions \subseteq Nat \ {0} /\ MaxToasts \in Nat
<1>1. /\ \A d \in Documents : d.seq \in Nat \ {0} /\ {d.issued, d.expires} \subseteq Nat
      /\ \A d \in Documents : \A b \in d.blocks : {b.from, b.until} \subseteq Nat
      /\ \A d \in Documents : \A n \in d.notices : {n.from, n.until} \subseteq Nat
      /\ \A d \in Documents : \A n, m \in d.notices : n.id = m.id => n = m
      /\ \A d, e \in Documents : d.seq = e.seq => d = e
  BY UpdatesAssumption DEF Updates!DocumentsAssumption
<1>. QED  BY <1>1, UpdatesAssumption DEF Updates!BroadcastBounds, Updates!VersionsAssumption

------------------------------------------------------------------------------------
(* What a document asks for.                                                       *)

LEMMA BlockFields ==
    ASSUME NEW d \in Documents, NEW b \in d.blocks
    PROVE  /\ Updates!AsBlock(d, b).id = b.id /\ Updates!AsBlock(d, b).version = b.version
           /\ Updates!AsBlock(d, b).from = b.from /\ Updates!AsBlock(d, b).until \in Nat
           /\ Updates!AsBlock(d, b).until <= b.until
           /\ Updates!AsBlock(d, b) \in StoredBlocks /\ b.id \in Updates!Ids
<1>1. Updates!Earlier(b.until, d.expires) \in Nat /\ Updates!Earlier(b.until, d.expires) <= b.until
  BY UpdatesConstants DEF Updates!Earlier
<1>2. Updates!AsBlock(d, b) \in StoredBlocks
  BY DEF StoredBlocks
<1>3. b.id \in Updates!Ids
  BY DEF Updates!Ids
<1>. QED  BY <1>1, <1>2, <1>3 DEF Updates!AsBlock

LEMMA NoticeFields ==
    ASSUME NEW d \in Documents, NEW n \in d.notices
    PROVE  /\ Updates!AsNotice(d, n).id = n.id /\ Updates!AsNotice(d, n).until \in Nat
           /\ Updates!AsNotice(d, n).until <= n.until
           /\ Updates!AsNotice(d, n) \in StoredNotices /\ n.id \in Updates!NoticeIds
<1>1. Updates!Earlier(n.until, d.expires) \in Nat /\ Updates!Earlier(n.until, d.expires) <= n.until
  BY UpdatesConstants DEF Updates!Earlier
<1>2. n.id \in Updates!NoticeIds /\ d.seq \in Seqs
  BY DEF Updates!NoticeIds, Seqs
<1>. QED  BY <1>1, <1>2 DEF Updates!AsNotice, StoredNotices

\* Every stored block was asked for by a document.
LEMMA StoredFields ==
    ASSUME NEW r \in StoredBlocks
    PROVE  r.until \in Nat
<1>1. PICK d \in Documents : \E b \in d.blocks : r = Updates!AsBlock(d, b)
  BY DEF StoredBlocks
<1>. QED  BY <1>1, BlockFields

LEMMA RetainedStays ==
    ASSUME NEW S, NEW ns \in SUBSET S, NEW at
    PROVE  Updates!Retained(ns, at) \subseteq S /\ Updates!Retained(Updates!Retained(ns, at), at) = Updates!Retained(ns, at)
  BY DEF Updates!Retained

LEMMA RetainedLater ==
    ASSUME NEW ns \in SUBSET StoredNotices, NEW ms \in SUBSET StoredNotices, NEW t \in Nat,
           Updates!Retained(ns, t) = Updates!Retained(ms, t)
    PROVE  Updates!Retained(ns, t + 1) = Updates!Retained(ms, t + 1)
<1>1. \A xs \in SUBSET StoredNotices : Updates!Retained(xs, t + 1) = {r \in Updates!Retained(xs, t) : r.until > t + 1}
  BY DEF Updates!Retained, StoredNotices
<1>. QED  BY <1>1

------------------------------------------------------------------------------------
(* What a step leaves alone.                                                       *)

LEMMA PassFields ==
    ASSUME DocumentsInv
    PROVE  /\ pass = Updates!NoPass <=> pass.step = "sleep"
           /\ pass # Updates!NoPass => pass \in Passes
  BY DEF DocumentsInv, DocumentsShape, Updates!NoPass, Passes, PassSteps

LEMMA DocumentOf ==
    ASSUME NEW s \in Seqs
    PROVE  s \in Nat /\ s # 0 /\ \E d \in Documents : d.seq = s
  BY UpdatesConstants DEF Seqs

\* The window's update and the notification center stay as they are.
LEMMA UpdaterStays ==
    ASSUME UpdaterInv, UNCHANGED Updates!updaterVars
    PROVE  UpdaterInv'
<1>1. UNCHANGED <<installed, offer, ui, center, temp, writer, toasts, marked, crossed, centerLost>>
  BY DEF Updates!updaterVars
<1>2. CenterShape'
  BY <1>1 DEF UpdaterInv, CenterShape
<1>3. UiInv'
  BY <1>1 DEF UpdaterInv, UiInv, Updates!BlockedIsNotTaken, Updates!Quiet
<1>4. CenterInv'
  BY <1>1 DEF UpdaterInv, CenterInv, Told, Marked, Updates!Quiet
<1>. QED  BY <1>2, <1>3, <1>4 DEF UpdaterInv

\* The documents stay as they are.
LEMMA DocumentsStay ==
    ASSUME DocumentsInv, troubles' \in 0..MaxBroadcastTrouble,
           UNCHANGED <<online, now, accepted, blocks, notices, pass, shown, replies, committed, replaced, announced, losses>>
    PROVE  DocumentsInv'
<1>1. DocumentsShape'
  BY DEF DocumentsInv, DocumentsShape
<1>2. PassInv'
  BY DEF DocumentsInv, PassInv, BlocksAhead, Wanted
<1>3. StoreInv'
  BY DEF DocumentsInv, StoreInv, Rewritten, Wanted
<1>4. Updates!AcceptedIsLatest'
  BY DEF DocumentsInv, Updates!AcceptedIsLatest
<1>5. WindowInv'
  BY DEF DocumentsInv, WindowInv, IsCurrent, Updates!Retained
<1>6. NoticesInv'
  BY DEF DocumentsInv, NoticesInv, NoticePassInv, NoticeStoreInv, NoticesAhead, BlocksAhead, Reannounced, Ours, Shown
<1>7. SaidInv'
  BY DEF DocumentsInv, SaidInv, Said, Ours
<1>. QED  BY <1>1, <1>2, <1>3, <1>4, <1>5, <1>6, <1>7 DEF DocumentsInv

\* What the window shows, and waits for, stays.
LEMMA WindowStays ==
    ASSUME DocumentsInv, UNCHANGED <<now, notices, shown, replies>>, losses \subseteq losses',
           pass.step = "renameNotices" => pass'.step = "renameNotices" \/ "notices" \in losses'
    PROVE  WindowInv'
<1>1. \A ns : IsCurrent(ns) => IsCurrent(ns)'
  BY DEF IsCurrent, Updates!Retained
<1>2. WindowInv
  BY DEF DocumentsInv
<1>3. \A r \in replies : r.current => IsCurrent(r.notices)'
  BY <1>1, <1>2 DEF WindowInv
<1>4. (\E r \in replies : r.current) \/ IsCurrent(shown)'
  BY <1>1, <1>2 DEF WindowInv
<1>. QED  BY <1>2, <1>3, <1>4 DEF WindowInv, IsCurrent

\* The sequence that is stored stays the highest.
LEMMA AcceptedStays ==
    ASSUME DocumentsInv, UNCHANGED <<accepted, committed>>, losses \subseteq losses',
           pass.step = "renameAccepted" => pass'.step = "renameAccepted" \/ "accepted" \in losses'
    PROVE  Updates!AcceptedIsLatest'
  BY DEF DocumentsInv, Updates!AcceptedIsLatest

\* The stored blocks stay.
LEMMA StoreStays ==
    ASSUME DocumentsInv, UNCHANGED <<now, blocks, replaced>>, losses \subseteq losses',
           pass.step = "renameBlocks" => "blocks" \in losses',
           pass'.step # "renameBlocks"
    PROVE  StoreInv'
  BY DEF DocumentsInv, StoreInv

\* The stored notices stay.
LEMMA NoticeStoreStays ==
    ASSUME DocumentsInv, UNCHANGED <<now, notices, announced>>, losses \subseteq losses',
           pass.step = "renameNotices" => "notices" \in losses',
           pass'.step # "renameNotices"
    PROVE  NoticeStoreInv'
  BY DEF DocumentsInv, NoticesInv, NoticeStoreInv, Ours

\* What a pass is to do about notices stays.
LEMMA NoticePassStays ==
    ASSUME DocumentsInv, UNCHANGED announced, pass # Updates!NoPass,
           pass'.doc = pass.doc, pass'.at = pass.at,
           pass'.notices = pass.notices, pass'.withdrawn = pass.withdrawn,
           NoticesAhead' <=> NoticesAhead, pass.step # "renameNotices", pass'.step # "renameNotices"
    PROVE  NoticePassInv'
  BY DEF DocumentsInv, NoticesInv, NoticePassInv, Ours, Shown

\* So does who said what.
LEMMA SaidStays ==
    ASSUME DocumentsInv, UNCHANGED <<now, committed, replaced, announced>>, losses \subseteq losses'
    PROVE  SaidInv'
  BY DEF DocumentsInv, SaidInv, Said, Ours

------------------------------------------------------------------------------------
(* A pass of the thread.                                                           *)

\* Every field of a step of the pass is of its kind.
LEMMA PassGotoFields ==
    ASSUME DocumentsInv, pass.step # "sleep", NEW step \in PassSteps, Updates!Goto(step)
    PROVE  /\ pass \in Passes /\ pass' \in Passes /\ pass'.step = step /\ pass' # Updates!NoPass
           /\ pass'.doc = pass.doc /\ pass'.at = pass.at
           /\ pass'.blocks = pass.blocks /\ pass'.notices = pass.notices /\ pass'.withdrawn = pass.withdrawn
<1>1. pass \in Passes
  BY PassFields
<1>2. pass' = [pass EXCEPT !.step = step]
  BY DEF Updates!Goto
<1>3. pass' \in Passes /\ pass'.step = step
  BY <1>1, <1>2 DEF Passes
<1>4. pass' # Updates!NoPass
  BY <1>3 DEF Updates!NoPass, PassSteps
<1>5. /\ pass'.doc = pass.doc /\ pass'.at = pass.at
      /\ pass'.blocks = pass.blocks /\ pass'.notices = pass.notices /\ pass'.withdrawn = pass.withdrawn
  BY <1>1, <1>2 DEF Passes
<1>. QED  BY <1>1, <1>3, <1>4, <1>5

LEMMA StepFields ==
    ASSUME DocumentsInv
    PROVE  /\ Updates!NoPass.step = "sleep"
           /\ pass # Updates!NoPass =>
                /\ pass.step \in PassSteps /\ pass.doc \in Seqs /\ pass.at \in Nat /\ pass.blocks \subseteq StoredBlocks
                /\ pass.notices \subseteq StoredNotices /\ pass.withdrawn \subseteq Updates!NoticeIds
  BY PassFields DEF Passes, Updates!NoPass

LEMMA InputFields ==
    ASSUME NEW d \in Documents
    PROVE  /\ Updates!BlockInputs(d) \subseteq StoredBlocks
           /\ Updates!NoticeInputs(d) \subseteq StoredNotices
           /\ Updates!Withdrawn(d) \subseteq Updates!NoticeIds
<1>1. Updates!BlockInputs(d) \subseteq StoredBlocks
  BY BlockFields DEF Updates!BlockInputs
<1>2. Updates!NoticeInputs(d) \subseteq StoredNotices
  BY NoticeFields DEF Updates!NoticeInputs
<1>3. Updates!Withdrawn(d) \subseteq Updates!NoticeIds
  BY NoticeFields DEF Updates!Withdrawn
<1>. QED  BY <1>1, <1>2, <1>3

LEMMA UpsertFields ==
    ASSUME NEW S, NEW store \in SUBSET S, NEW inputs \in SUBSET S, NEW at
    PROVE  Updates!Upsert(Updates!Retained(store, at), inputs) \subseteq S
  BY DEF Updates!Upsert, Updates!Retained

LEMMA DocumentsFetch ==
    ASSUME DocumentsInv, NEW d \in Documents, Updates!Fetch(d)
    PROVE  DocumentsInv'
<1>1. /\ pass = Updates!NoPass /\ Updates!Fresh(d)
      /\ UNCHANGED <<online, now, accepted, blocks, notices, shown, replies, troubles, committed, replaced, announced, losses>>
  BY DEF Updates!Fetch, Updates!KeepStores, Updates!KeepWindow, Updates!KeepGhosts
<1>2. PICK step : step = IF Updates!BlockInputs(d) # {} THEN "blocks" ELSE "notices"
  OBVIOUS
<1>3. pass' = [step |-> step, doc |-> d.seq, at |-> now, blocks |-> Updates!BlockInputs(d),
               notices |-> Updates!NoticeInputs(d), withdrawn |-> Updates!Withdrawn(d)]
  BY <1>2 DEF Updates!Fetch
<1>4. /\ pass'.step = step /\ step \in {"blocks", "notices"} /\ pass'.doc = d.seq /\ pass'.at = now
      /\ pass'.blocks = Updates!BlockInputs(d)
      /\ pass'.notices = Updates!NoticeInputs(d) /\ pass'.withdrawn = Updates!Withdrawn(d)
  BY <1>2, <1>3
<1>5. now \in Nat /\ d.seq \in Seqs
  BY DEF DocumentsInv, DocumentsShape, Seqs
<1>6. pass' \in Passes
  BY <1>3, <1>4, <1>5, InputFields DEF Passes, PassSteps
<1>7. DocumentsShape'
  BY <1>1, <1>6 DEF DocumentsInv, DocumentsShape
<1>8. PassInv'
  <2>1. "accepted" \in losses \/ \A s \in committed : s <= d.seq
    <3>1. "accepted" \in losses \/ \A s \in committed : s <= accepted
      BY <1>1 DEF DocumentsInv, Updates!AcceptedIsLatest, Updates!NoPass
    <3>2. accepted < d.seq /\ accepted \in Nat /\ d.seq \in Nat /\ committed \subseteq Nat
      BY <1>1, DocumentOf, UpdatesConstants DEF Updates!Fresh, DocumentsInv, DocumentsShape
    <3>. QED  BY <3>1, <3>2
  <2>2. ASSUME NEW e \in Documents, e.seq = pass'.doc
        PROVE  pass'.step = "blocks" => pass'.blocks = {Updates!AsBlock(e, b) : b \in Wanted(e)'}
    <3>1. e = d
      BY <2>2, <1>4, UpdatesConstants
    <3>2. Wanted(d)' = {b \in d.blocks : now < b.until}
      BY <1>4 DEF Wanted
    <3>. QED  BY <3>1, <3>2, <1>4 DEF Updates!BlockInputs
  <2>3. \A e \in Documents : e.seq = pass'.doc =>
            /\ pass'.step = "blocks" => pass'.blocks = {Updates!AsBlock(e, b) : b \in Wanted(e)'}
            /\ pass'.step = "renameBlocks" => {Updates!AsBlock(e, b) : b \in Wanted(e)'} \subseteq pass'.blocks
    BY <2>2, <1>4
  <2>4. ASSUME pass'.step = "notices", NEW e \in Documents, e.seq = pass'.doc
        PROVE  Wanted(e)' = {}
    <3>1. e = d /\ Updates!BlockInputs(d) = {}
      BY <2>4, <1>2, <1>4, UpdatesConstants
    <3>2. Wanted(d)' = {b \in d.blocks : now < b.until}
      BY <1>4 DEF Wanted
    <3>. QED  BY <3>1, <3>2 DEF Updates!BlockInputs
  <2>5. \A e \in Documents : e.seq = pass'.doc => (~BlocksAhead' => \A b \in Wanted(e)' : replaced[b.id] = pass'.doc)
    BY <2>4, <1>4 DEF BlocksAhead
  <2>. QED  BY <2>1, <2>3, <2>5, <1>1, <1>4, <1>5 DEF PassInv, Updates!AsBlock, Updates!Earlier
<1>9. pass.step = "sleep"
  BY <1>1 DEF Updates!NoPass
<1>10. StoreInv'
  BY <1>1, <1>4, <1>9, StoreStays
<1>11. Updates!AcceptedIsLatest'
  BY <1>1, <1>9, AcceptedStays
<1>12. WindowInv'
  BY <1>1, <1>9, WindowStays
<1>13. NoticePassInv'
  <2>1. NoticesAhead' /\ pass'.step # "renameNotices"
    BY <1>4 DEF NoticesAhead, BlocksAhead
  <2>2. /\ Ours(d)' = Ours(d) /\ Ours(d) = {n \in d.notices : n.ours}
        /\ Shown(d)' = {n \in Ours(d) : now < n.until}
    BY <1>4 DEF Shown, Ours
  <2>3. \A n \in d.notices : n.until <= now <=> ~(now < n.until)
    BY <1>5, UpdatesConstants
  <2>4. /\ pass'.notices = {Updates!AsNotice(d, n) : n \in Shown(d)'}
        /\ pass'.withdrawn = {n.id : n \in Ours(d)' \ Shown(d)'}
    BY <2>2, <2>3, <1>4 DEF Updates!NoticeInputs, Updates!Withdrawn
  <2>5. \A e \in Documents : e.seq = pass'.doc => e = d
    BY <1>4, UpdatesConstants
  <2>. QED  BY <2>1, <2>4, <2>5 DEF NoticePassInv, Updates!AsNotice, Updates!Earlier
<1>14. NoticeStoreInv'
  BY <1>1, <1>4, <1>9, NoticeStoreStays
<1>15. SaidInv'
  BY <1>1, SaidStays
<1>. QED  BY <1>7, <1>8, <1>10, <1>11, <1>12, <1>13, <1>14, <1>15 DEF DocumentsInv, NoticesInv

\* A pass that ends at once leaves what it was at; one cut short leaves its mark.
LEMMA PassEnds ==
    ASSUME DocumentsInv, pass' = Updates!NoPass, troubles' \in 0..MaxBroadcastTrouble,
           UNCHANGED <<online, now, accepted, blocks, notices, committed, replaced, announced>>,
           losses' = Updates!Lost
    PROVE  /\ UNCHANGED <<shown, replies>> => DocumentsInv'
           /\ shown' = {} /\ replies' = {[notices |-> Updates!Retained(notices, now), current |-> TRUE]} =>
                DocumentsInv'
<1>1. pass'.step = "sleep"
  BY StepFields
<1>2. /\ losses \subseteq losses' /\ losses' \subseteq Updates!Stores
      /\ pass.step = "renameBlocks" => "blocks" \in losses'
      /\ pass.step = "renameNotices" => "notices" \in losses'
      /\ pass.step = "renameAccepted" => "accepted" \in losses'
  <2>1. losses \subseteq Updates!Stores
    BY DEF DocumentsInv, DocumentsShape
  <2>2. DOMAIN Updates!Renaming = {"renameBlocks", "renameNotices", "renameAccepted"}
    BY DEF Updates!Renaming
  <2>3. /\ Updates!Renaming["renameBlocks"] = "blocks" /\ Updates!Renaming["renameNotices"] = "notices"
        /\ Updates!Renaming["renameAccepted"] = "accepted"
    BY DEF Updates!Renaming
  <2>. QED  BY <2>1, <2>2, <2>3 DEF Updates!Lost, Updates!Stores
<1>3. PassInv'
  BY DEF PassInv
<1>4. StoreInv'
  BY <1>1, <1>2, StoreStays
<1>5. Updates!AcceptedIsLatest'
  BY <1>2, AcceptedStays
<1>8. NoticesInv' /\ SaidInv'
  <2>1. NoticePassInv'
    BY DEF NoticePassInv
  <2>2. NoticeStoreInv'
    BY <1>1, <1>2, NoticeStoreStays
  <2>. QED  BY <2>1, <2>2, <1>2, SaidStays DEF NoticesInv
<1>6. ASSUME UNCHANGED <<shown, replies>>
      PROVE  DocumentsInv'
  <2>1. DocumentsShape'
    BY <1>2, <1>6 DEF DocumentsInv, DocumentsShape
  <2>2. WindowInv'
    BY <1>2, <1>6, WindowStays
  <2>. QED  BY <2>1, <2>2, <1>3, <1>4, <1>5, <1>8 DEF DocumentsInv
<1>7. ASSUME shown' = {}, replies' = {[notices |-> Updates!Retained(notices, now), current |-> TRUE]}
      PROVE  DocumentsInv'
  <2>. DEFINE ns == Updates!Retained(notices, now)
  <2>1. ns \subseteq StoredNotices /\ Updates!Retained(ns, now) = ns
    BY RetainedStays DEF DocumentsInv, DocumentsShape
  <2>2. [notices |-> ns, current |-> TRUE] \in Reads
    BY <2>1 DEF Reads
  <2>3. DocumentsShape'
    BY <1>2, <1>7, <2>2 DEF DocumentsInv, DocumentsShape
  <2>4. WindowInv'
    BY <1>7, <2>1 DEF WindowInv, IsCurrent
  <2>. QED  BY <2>3, <2>4, <1>3, <1>4, <1>5, <1>8 DEF DocumentsInv
<1>. QED  BY <1>6, <1>7

LEMMA DocumentsRefuse ==
    ASSUME DocumentsInv, Updates!Refuse
    PROVE  DocumentsInv'
<1>1. /\ pass.step \in {"blocks", "notices"} /\ pass' = Updates!NoPass
      /\ UNCHANGED <<online, now, accepted, blocks, notices, shown, replies, troubles, committed, replaced, announced, losses>>
  BY DEF Updates!Refuse, Updates!KeepStores, Updates!KeepWindow, Updates!KeepGhosts
<1>2. losses' = Updates!Lost
  BY <1>1 DEF Updates!Lost, Updates!Renaming
<1>3. troubles' \in 0..MaxBroadcastTrouble
  BY <1>1 DEF DocumentsInv, DocumentsShape
<1>. QED  BY <1>1, <1>2, <1>3, PassEnds

LEMMA DocumentsPassFails ==
    ASSUME DocumentsInv, Updates!PassFails
    PROVE  DocumentsInv'
<1>1. /\ pass' = Updates!NoPass /\ troubles' = troubles + 1 /\ troubles < MaxBroadcastTrouble /\ losses' = Updates!Lost
      /\ UNCHANGED <<online, now, accepted, blocks, notices, shown, replies, committed, replaced, announced>>
  BY DEF Updates!PassFails, Updates!KeepStores, Updates!KeepWindow
<1>2. troubles' \in 0..MaxBroadcastTrouble
  BY <1>1, UpdatesConstants DEF DocumentsInv, DocumentsShape
<1>. QED  BY <1>1, <1>2, PassEnds

\* The process ends.
LEMMA DocumentsRestart ==
    ASSUME DocumentsInv, Updates!Restart, troubles' \in 0..MaxBroadcastTrouble
    PROVE  DocumentsInv'
<1>1. /\ pass' = Updates!NoPass /\ losses' = Updates!Lost
      /\ shown' = {} /\ replies' = {[notices |-> Updates!Retained(notices, now), current |-> TRUE]}
      /\ UNCHANGED <<online, now, accepted, blocks, notices, committed, replaced, announced>>
  BY DEF Updates!Restart, Updates!KeepStores
<1>. QED  BY <1>1, PassEnds

\* Another document is to say what of these blocks is in force.
LEMMA DocumentsRemoveBlocks ==
    ASSUME DocumentsInv, Updates!RemoveBlocks
    PROVE  DocumentsInv'
<1>1. /\ pass.step = "blocks" /\ pass' = [pass EXCEPT !.step = "renameBlocks", !.blocks = Updates!NewBlocks] /\ blocks' = {}
      /\ UNCHANGED <<online, now, accepted, notices, shown, replies, troubles, committed, replaced, announced, losses>>
  BY DEF Updates!RemoveBlocks, Updates!KeepWindow, Updates!KeepGhosts
<1>2. pass # Updates!NoPass /\ pass \in Passes
  BY <1>1, PassFields
<1>3. pass.blocks \subseteq StoredBlocks /\ pass.at \in Nat /\ pass.doc \in Seqs
  BY <1>2, StepFields
<1>4. Updates!NewBlocks \subseteq StoredBlocks
  BY <1>3, UpsertFields DEF Updates!NewBlocks, DocumentsInv, DocumentsShape
<1>5. /\ pass'.step = "renameBlocks" /\ pass'.blocks = Updates!NewBlocks
      /\ pass'.at = pass.at /\ pass'.doc = pass.doc
      /\ pass'.notices = pass.notices /\ pass'.withdrawn = pass.withdrawn
  BY <1>1, <1>2 DEF Passes
<1>6. pass' \in Passes
  BY <1>1, <1>2, <1>4 DEF Passes, PassSteps
<1>7. DocumentsShape'
  BY <1>1, <1>6 DEF DocumentsInv, DocumentsShape
<1>8. \A d \in Documents : Wanted(d)' = Wanted(d)
  BY <1>5 DEF Wanted
<1>9. /\ pass.at <= now
      /\ "accepted" \in losses \/ \A s \in committed : s <= pass.doc
      /\ \A d \in Documents : d.seq = pass.doc => pass.blocks = {Updates!AsBlock(d, b) : b \in Wanted(d)}
  BY <1>1, <1>2 DEF DocumentsInv, PassInv
<1>10. PassInv'
  <2>1. ASSUME NEW d \in Documents, d.seq = pass.doc
        PROVE  {Updates!AsBlock(d, b) : b \in Wanted(d)} \subseteq Updates!NewBlocks
    BY <2>1, <1>9 DEF Updates!NewBlocks, Updates!Upsert
  <2>2. \A d \in Documents : d.seq = pass'.doc => {Updates!AsBlock(d, b) : b \in Wanted(d)'} \subseteq pass'.blocks
    BY <2>1, <1>5, <1>8
  <2>. QED  BY <2>2, <1>1, <1>5, <1>9 DEF PassInv, BlocksAhead, Updates!AsBlock, Updates!Earlier
<1>11. StoreInv'
  <2>1. SUFFICES ASSUME "blocks" \notin losses, NEW d \in Documents, NEW b \in d.blocks,
                        replaced[b.id] = d.seq, now < Updates!AsBlock(d, b).until
                 PROVE  Updates!AsBlock(d, b) \in pass'.blocks \/ Rewritten(b.id)'
    BY <1>1, <1>5 DEF StoreInv, Updates!AsBlock, Updates!Earlier
  <2>2. Updates!AsBlock(d, b) \in blocks
    BY <2>1, <1>1 DEF DocumentsInv, StoreInv
  <2>3. Updates!AsBlock(d, b).until > pass.at
    BY <2>1, <1>3, <1>9, BlockFields DEF DocumentsInv, DocumentsShape
  <2>4. Updates!AsBlock(d, b) \in Updates!Retained(blocks, pass.at)
    BY <2>2, <2>3 DEF Updates!Retained
  <2>5. CASE \A i \in pass.blocks : i.id # Updates!AsBlock(d, b).id
    BY <2>4, <2>5, <1>5 DEF Updates!NewBlocks, Updates!Upsert
  <2>6. CASE \E i \in pass.blocks : i.id = Updates!AsBlock(d, b).id
    <3>1. PICK i \in pass.blocks : i.id = b.id
      BY <2>6, BlockFields
    <3>2. PICK e \in Documents : e.seq = pass.doc
      BY <1>3, DocumentOf
    <3>3. PICK c \in Wanted(e) : i = Updates!AsBlock(e, c)
      BY <3>1, <3>2, <1>9
    <3>4. c \in e.blocks /\ c.id = b.id
      BY <3>1, <3>3, BlockFields DEF Wanted
    <3>. QED  BY <3>2, <3>3, <3>4, <1>5, <1>8 DEF Rewritten
  <2>. QED  BY <2>5, <2>6
<1>12. Updates!AcceptedIsLatest'
  BY <1>1, AcceptedStays
<1>13. WindowInv'
  BY <1>1, WindowStays
<1>14. NoticePassInv'
  <2>1. NoticesAhead /\ NoticesAhead'
    BY <1>1, <1>5 DEF NoticesAhead, BlocksAhead
  <2>. QED  BY <2>1, <1>1, <1>2, <1>5, NoticePassStays
<1>15. NoticeStoreInv'
  BY <1>1, <1>5, NoticeStoreStays
<1>16. SaidInv'
  BY <1>1, SaidStays
<1>. QED  BY <1>7, <1>10, <1>11, <1>12, <1>13, <1>14, <1>15, <1>16 DEF DocumentsInv, NoticesInv

\* Its blocks are in force, and what it did not write stays so.
LEMMA DocumentsRenameBlocks ==
    ASSUME DocumentsInv, Updates!RenameBlocks
    PROVE  DocumentsInv'
<1>1. /\ pass.step = "renameBlocks" /\ Updates!Goto("notices") /\ blocks' = pass.blocks
      /\ UNCHANGED <<online, now, accepted, notices, shown, replies, troubles, committed, announced, losses>>
  BY DEF Updates!RenameBlocks, Updates!KeepWindow
<1>2. /\ pass \in Passes /\ pass' \in Passes /\ pass'.step = "notices" /\ pass'.at = pass.at /\ pass'.doc = pass.doc
      /\ pass # Updates!NoPass
  BY <1>1, PassGotoFields DEF PassSteps, Updates!NoPass
<1>3. pass.blocks \subseteq StoredBlocks /\ pass.at \in Nat /\ pass.doc \in Seqs /\ now \in Nat
  BY <1>2, StepFields DEF DocumentsInv, DocumentsShape
<1>. DEFINE Writes(i) == \E d \in Documents : d.seq = pass.doc /\ \E b \in d.blocks : b.id = i /\ pass.at < b.until
<1>4. replaced' = [i \in Updates!Ids |-> IF Writes(i) THEN pass.doc ELSE replaced[i]]
  BY DEF Updates!RenameBlocks
<1>5. \A i \in Updates!Ids : replaced'[i] = IF Writes(i) THEN pass.doc ELSE replaced[i]
  BY <1>4
<1>. HIDE DEF Writes
<1>6. replaced' \in [Updates!Ids -> {0} \cup Seqs]
  BY <1>3, <1>4 DEF DocumentsInv, DocumentsShape
<1>7. DocumentsShape'
  BY <1>1, <1>2, <1>3, <1>6 DEF DocumentsInv, DocumentsShape
<1>8. /\ pass.at <= now
      /\ "accepted" \in losses \/ \A s \in committed : s <= pass.doc
      /\ \A d \in Documents : d.seq = pass.doc => {Updates!AsBlock(d, b) : b \in Wanted(d)} \subseteq pass.blocks
  BY <1>1, <1>2 DEF DocumentsInv, PassInv
<1>9. PassInv'
  <2>1. ASSUME NEW d \in Documents, d.seq = pass'.doc, NEW b \in Wanted(d)'
        PROVE  replaced'[b.id] = pass'.doc
    <3>1. b \in d.blocks /\ pass.at < b.until /\ d.seq = pass.doc
      BY <2>1, <1>2 DEF Wanted
    <3>2. Writes(b.id) /\ b.id \in Updates!Ids
      BY <3>1, BlockFields DEF Writes
    <3>. QED  BY <3>2, <1>2, <1>5
  <2>. QED  BY <2>1, <1>1, <1>2, <1>8 DEF PassInv
<1>10. StoreInv'
  <2>1. SUFFICES ASSUME "blocks" \notin losses, NEW d \in Documents, NEW b \in d.blocks,
                        replaced'[b.id] = d.seq, now < Updates!AsBlock(d, b).until
                 PROVE  Updates!AsBlock(d, b) \in pass.blocks
    BY <1>1, <1>2 DEF StoreInv, Updates!AsBlock, Updates!Earlier
  <2>2. b.id \in Updates!Ids
    BY BlockFields
  <2>3. CASE Writes(b.id)
    <3>1. d.seq = pass.doc
      BY <2>1, <2>2, <2>3, <1>5
    <3>2. pass.at < b.until
      <4>1. Updates!AsBlock(d, b).until \in Nat /\ Updates!AsBlock(d, b).until <= b.until /\ b.until \in Nat
        BY BlockFields, UpdatesConstants
      <4>. QED  BY <4>1, <2>1, <1>3, <1>8
    <3>3. b \in Wanted(d)
      BY <3>2 DEF Wanted
    <3>. QED  BY <3>1, <3>3, <1>8
  <2>4. CASE ~Writes(b.id)
    <3>1. replaced[b.id] = d.seq
      BY <2>1, <2>2, <2>4, <1>5
    <3>2. Updates!AsBlock(d, b) \in pass.blocks \/ Rewritten(b.id)
      BY <3>1, <2>1, <1>1 DEF DocumentsInv, StoreInv
    <3>3. ~Rewritten(b.id)
      BY <2>4 DEF Rewritten, Wanted, Writes
    <3>. QED  BY <3>2, <3>3
  <2>. QED  BY <2>3, <2>4
<1>11. Updates!AcceptedIsLatest'
  BY <1>1, AcceptedStays
<1>12. WindowInv'
  BY <1>1, WindowStays
<1>13. NoticePassInv'
  <2>1. NoticesAhead /\ NoticesAhead' /\ pass'.notices = pass.notices /\ pass'.withdrawn = pass.withdrawn
    BY <1>1, <1>2, PassGotoFields DEF NoticesAhead, BlocksAhead, PassSteps, Updates!NoPass
  <2>. QED  BY <2>1, <1>1, <1>2, NoticePassStays
<1>14. NoticeStoreInv'
  BY <1>1, <1>2, NoticeStoreStays
<1>15. SaidInv'
  <2>1. pass.doc \in Nat /\ pass.doc # 0
    BY <1>3, DocumentOf
  <2>2. ASSUME NEW d \in Documents, d.seq \in committed, NEW b \in d.blocks, Said(d, replaced[b.id])
        PROVE  Said(d, replaced'[b.id])
    <3>1. d.seq \in Nat /\ ("accepted" \in losses \/ d.seq <= pass.doc)
      BY <2>2, <1>8, UpdatesConstants
    <3>2. replaced'[b.id] = pass.doc \/ replaced'[b.id] = replaced[b.id]
      BY <1>5, BlockFields
    <3>. QED  BY <3>1, <3>2, <2>1, <2>2, <1>1 DEF Said
  <2>. QED  BY <2>2, <1>1 DEF DocumentsInv, SaidInv, Said, Ours, Updates!AsBlock, Updates!AsNotice, Updates!Earlier
<1>. QED  BY <1>7, <1>9, <1>10, <1>11, <1>12, <1>13, <1>14, <1>15 DEF DocumentsInv, NoticesInv

\* What a pass announces is of its document, and nothing else is.
LEMMA AnnouncesFields ==
    ASSUME DocumentsInv, pass # Updates!NoPass, Updates!Announces, UNCHANGED <<now, committed, replaced, losses>>
    PROVE  /\ announced' \in [Updates!NoticeIds -> {0} \cup Seqs]
           /\ \A d \in Documents : \A n \in Ours(d) :
                announced'[n.id] = IF Reannounced(n.id) THEN pass.doc ELSE announced[n.id]
           /\ SaidInv'
<1>1. pass.doc \in Seqs /\ pass.doc \in Nat /\ pass.doc # 0
  BY StepFields, DocumentOf
<1>. DEFINE Writes(i) == \E d \in Documents : d.seq = pass.doc /\ \E n \in d.notices : n.id = i /\ n.ours
<1>2. announced' = [i \in Updates!NoticeIds |-> IF Writes(i) THEN pass.doc ELSE announced[i]]
  BY DEF Updates!Announces
<1>3. \A i : Writes(i) <=> Reannounced(i)
  BY DEF Reannounced, Ours
<1>. HIDE DEF Writes
<1>4. announced' \in [Updates!NoticeIds -> {0} \cup Seqs]
  BY <1>1, <1>2 DEF DocumentsInv, DocumentsShape
<1>5. ASSUME NEW d \in Documents, NEW n \in Ours(d)
      PROVE  announced'[n.id] = IF Reannounced(n.id) THEN pass.doc ELSE announced[n.id]
  <2>1. n.id \in Updates!NoticeIds
    BY NoticeFields DEF Ours
  <2>. QED  BY <2>1, <1>2, <1>3
<1>6. SaidInv'
  <2>1. "accepted" \in losses \/ \A s \in committed : s <= pass.doc
    BY DEF DocumentsInv, PassInv
  <2>2. ASSUME NEW d \in Documents, d.seq \in committed, NEW n \in Ours(d), Said(d, announced[n.id])
        PROVE  Said(d, announced'[n.id])
    <3>1. d.seq \in Nat /\ ("accepted" \in losses \/ d.seq <= pass.doc)
      BY <2>1, <2>2, UpdatesConstants
    <3>2. announced'[n.id] = pass.doc \/ announced'[n.id] = announced[n.id]
      BY <1>5
    <3>. QED  BY <3>1, <3>2, <1>1, <2>2 DEF Said
  <2>. QED  BY <2>2 DEF DocumentsInv, SaidInv, Said, Ours, Updates!AsBlock, Updates!AsNotice, Updates!Earlier
<1>. QED  BY <1>4, <1>5, <1>6

\* The document has said all it has to say of its notices.
LEMMA AnnouncesAll ==
    ASSUME DocumentsInv, pass # Updates!NoPass, Updates!Announces, UNCHANGED <<now, committed, replaced, losses>>,
           pass'.doc = pass.doc, pass'.step = "accept"
    PROVE  NoticePassInv'
<1>1. ASSUME NEW d \in Documents, d.seq = pass.doc, NEW n \in Ours(d)
      PROVE  announced'[n.id] = pass.doc
  <2>1. Reannounced(n.id)
    BY <1>1 DEF Reannounced
  <2>. QED  BY <2>1, <1>1, AnnouncesFields
<1>. QED  BY <1>1 DEF NoticePassInv, NoticesAhead, BlocksAhead, Ours

\* What is still valid was so when the document was fetched.
LEMMA WantedWhileValid ==
    ASSUME DocumentsInv, pass # Updates!NoPass, NEW d \in Documents
    PROVE  /\ \A b \in d.blocks : now < Updates!AsBlock(d, b).until => b \in Wanted(d)
           /\ \A n \in Ours(d) : now < Updates!AsNotice(d, n).until => n \in Shown(d)
<1>1. pass.at \in Nat /\ now \in Nat /\ pass.at <= now
  BY StepFields DEF DocumentsInv, DocumentsShape, PassInv
<1>2. ASSUME NEW b \in d.blocks, now < Updates!AsBlock(d, b).until
      PROVE  b \in Wanted(d)
  BY <1>1, <1>2, BlockFields, UpdatesConstants DEF Wanted
<1>3. ASSUME NEW n \in Ours(d), now < Updates!AsNotice(d, n).until
      PROVE  n \in Shown(d)
  <2>1. n \in d.notices
    BY DEF Ours
  <2>. QED  BY <2>1, <1>1, <1>3, NoticeFields, UpdatesConstants DEF Shown
<1>. QED  BY <1>2, <1>3

\* The new notices are those that the document shows, and the valid ones that it says
\* nothing of.
LEMMA NewNoticesFields ==
    ASSUME DocumentsInv, pass.step = "notices", NEW d \in Documents, NEW n \in Ours(d)
    PROVE  /\ d.seq = pass.doc /\ n \in Shown(d) => Updates!AsNotice(d, n) \in Updates!NewNotices
           /\ /\ now < Updates!AsNotice(d, n).until /\ Updates!AsNotice(d, n) \in notices /\ ~Reannounced(n.id)
              => Updates!AsNotice(d, n) \in Updates!NewNotices
<1>1. pass # Updates!NoPass /\ pass.at \in Nat /\ pass.doc \in Seqs /\ now \in Nat
  BY PassFields, StepFields DEF DocumentsInv, DocumentsShape
<1>2. PICK e \in Documents : e.seq = pass.doc
  BY <1>1, DocumentOf
<1>3. /\ pass.notices = {Updates!AsNotice(e, m) : m \in Shown(e)}
      /\ pass.withdrawn = {m.id : m \in Ours(e) \ Shown(e)} /\ pass.at <= now
  BY <1>1, <1>2 DEF DocumentsInv, NoticesInv, NoticePassInv, NoticesAhead, PassInv
<1>4. n \in d.notices /\ Updates!AsNotice(d, n).id = n.id /\ Updates!AsNotice(d, n).until \in Nat
  BY NoticeFields DEF Ours
<1>5. \A m \in Ours(e) : m \in e.notices /\ Updates!AsNotice(e, m).id = m.id
  BY NoticeFields DEF Ours
<1>6. ASSUME d.seq = pass.doc, n \in Shown(d)
      PROVE  Updates!AsNotice(d, n) \in Updates!NewNotices
  <2>1. d = e
    BY <1>2, <1>6, UpdatesConstants
  <2>2. Updates!AsNotice(d, n) \in Updates!Noticed
    BY <2>1, <1>3, <1>6 DEF Updates!Noticed, Updates!Upsert
  <2>3. n.id \notin pass.withdrawn
    BY <2>1, <1>3, <1>4, <1>5, <1>6, UpdatesConstants
  <2>. QED  BY <2>2, <2>3, <1>4 DEF Updates!NewNotices
<1>7. ASSUME now < Updates!AsNotice(d, n).until, Updates!AsNotice(d, n) \in notices, ~Reannounced(n.id)
      PROVE  Updates!AsNotice(d, n) \in Updates!NewNotices
  <2>1. \A m \in Ours(e) : m.id # n.id
    BY <1>2, <1>7 DEF Reannounced
  <2>2. Updates!AsNotice(d, n) \in Updates!Retained(notices, pass.at)
    BY <1>1, <1>3, <1>4, <1>7 DEF Updates!Retained
  <2>3. \A i \in pass.notices : i.id # Updates!AsNotice(d, n).id
    BY <2>1, <1>3, <1>4, <1>5 DEF Shown
  <2>4. n.id \notin pass.withdrawn
    BY <2>1, <1>3
  <2>. QED  BY <2>2, <2>3, <2>4, <1>4 DEF Updates!NewNotices, Updates!Noticed, Updates!Upsert
<1>. QED  BY <1>6, <1>7

LEMMA DocumentsKeepNotices ==
    ASSUME DocumentsInv, Updates!KeepNotices
    PROVE  DocumentsInv'
<1>1. /\ pass.step = "notices" /\ Updates!Goto("accept") /\ Updates!NewNotices = notices /\ Updates!Announces
      /\ UNCHANGED <<online, now, accepted, blocks, notices, shown, replies, troubles, committed, replaced, losses>>
  BY DEF Updates!KeepNotices, Updates!KeepStores, Updates!KeepWindow
<1>2. /\ pass \in Passes /\ pass' \in Passes /\ pass'.step = "accept" /\ pass'.at = pass.at /\ pass'.doc = pass.doc
      /\ pass # Updates!NoPass
  BY <1>1, PassGotoFields DEF PassSteps, Updates!NoPass
<1>8. /\ announced' \in [Updates!NoticeIds -> {0} \cup Seqs]
      /\ \A d \in Documents : \A n \in Ours(d) :
            announced'[n.id] = IF Reannounced(n.id) THEN pass.doc ELSE announced[n.id]
      /\ SaidInv' /\ NoticePassInv'
  BY <1>1, <1>2, AnnouncesFields, AnnouncesAll
<1>3. DocumentsShape'
  BY <1>1, <1>2, <1>8 DEF DocumentsInv, DocumentsShape
<1>4. PassInv'
  BY <1>1, <1>2 DEF DocumentsInv, PassInv, BlocksAhead, Wanted
<1>5. StoreInv'
  BY <1>1, <1>2, StoreStays
<1>6. Updates!AcceptedIsLatest'
  BY <1>1, AcceptedStays
<1>7. WindowInv'
  BY <1>1, WindowStays
<1>9. NoticeStoreInv'
  <2>1. SUFFICES ASSUME "notices" \notin losses, NEW d \in Documents, NEW n \in Ours(d),
                        announced'[n.id] = d.seq, now < Updates!AsNotice(d, n).until
                 PROVE  Updates!AsNotice(d, n) \in notices
    BY <1>1, <1>2 DEF NoticeStoreInv, Ours, Updates!AsNotice, Updates!Earlier
  <2>2. CASE Reannounced(n.id)
    BY <2>1, <2>2, <1>1, <1>2, <1>8, WantedWhileValid, NewNoticesFields
  <2>3. CASE ~Reannounced(n.id)
    BY <2>1, <2>3, <1>1, <1>8 DEF DocumentsInv, NoticesInv, NoticeStoreInv
  <2>. QED  BY <2>2, <2>3
<1>. QED  BY <1>3, <1>4, <1>5, <1>6, <1>7, <1>8, <1>9 DEF DocumentsInv, NoticesInv

LEMMA DocumentsRemoveNotices ==
    ASSUME DocumentsInv, Updates!RemoveNotices
    PROVE  DocumentsInv'
<1>1. /\ pass.step = "notices" /\ pass' = [pass EXCEPT !.step = "renameNotices", !.notices = Updates!NewNotices]
      /\ notices' = {}
      /\ UNCHANGED <<online, now, accepted, blocks, shown, replies, troubles, committed, replaced, announced, losses>>
  BY DEF Updates!RemoveNotices, Updates!KeepWindow, Updates!KeepGhosts
<1>2. pass # Updates!NoPass /\ pass \in Passes
  BY <1>1, PassFields
<1>3. Updates!NewNotices \subseteq StoredNotices
  <2>1. pass.notices \subseteq StoredNotices
    BY <1>2, StepFields
  <2>. QED  BY <2>1, UpsertFields DEF Updates!NewNotices, Updates!Noticed, DocumentsInv, DocumentsShape
<1>4. /\ pass'.step = "renameNotices" /\ pass'.at = pass.at /\ pass'.doc = pass.doc /\ pass' \in Passes
      /\ pass'.notices = Updates!NewNotices
  BY <1>1, <1>2, <1>3 DEF Passes, PassSteps
<1>5. DocumentsShape'
  BY <1>1, <1>4 DEF DocumentsInv, DocumentsShape
<1>6. PassInv'
  BY <1>1, <1>2, <1>4 DEF DocumentsInv, PassInv, BlocksAhead, Wanted
<1>7. StoreInv'
  BY <1>1, <1>4, StoreStays
<1>8. Updates!AcceptedIsLatest'
  BY <1>1, AcceptedStays
<1>9. WindowInv'
  BY <1>1, <1>4 DEF DocumentsInv, WindowInv, IsCurrent
<1>10. \A d \in Documents : Ours(d)' = Ours(d) /\ Shown(d)' = Shown(d)
  BY <1>4 DEF Ours, Shown
<1>11. NoticePassInv'
  <2>1. NoticesAhead'
    BY <1>4 DEF NoticesAhead
  <2>2. ASSUME NEW d \in Documents, d.seq = pass.doc, NEW n \in Shown(d)
        PROVE  Updates!AsNotice(d, n) \in Updates!NewNotices
    BY <2>2, <1>1, NewNoticesFields DEF Shown
  <2>. QED  BY <2>1, <2>2, <1>4, <1>10 DEF NoticePassInv, Updates!AsNotice, Updates!Earlier
<1>12. NoticeStoreInv'
  <2>1. SUFFICES ASSUME "notices" \notin losses, NEW d \in Documents, NEW n \in Ours(d),
                        announced[n.id] = d.seq, now < Updates!AsNotice(d, n).until
                 PROVE  Updates!AsNotice(d, n) \in Updates!NewNotices \/ Reannounced(n.id)
    BY <1>1, <1>4, <1>10 DEF NoticeStoreInv, Reannounced, Updates!AsNotice, Updates!Earlier
  <2>2. Updates!AsNotice(d, n) \in notices
    BY <2>1, <1>1 DEF DocumentsInv, NoticesInv, NoticeStoreInv
  <2>. QED  BY <2>1, <2>2, <1>1, NewNoticesFields
<1>13. SaidInv'
  BY <1>1, SaidStays
<1>. QED  BY <1>5, <1>6, <1>7, <1>8, <1>9, <1>11, <1>12, <1>13 DEF DocumentsInv, NoticesInv

\* The one read that the window waits for is of what the store now holds.
LEMMA AskedIsCurrent ==
    ASSUME DocumentsInv, NEW ns \in SUBSET StoredNotices, now' = now, notices' = ns, replies' = Updates!Asked(ns)
    PROVE  replies' \subseteq Reads /\ WindowInv'
<1>0. PICK new : new = [notices |-> Updates!Retained(ns, now), current |-> TRUE]
  OBVIOUS
<1>1. Updates!Retained(ns, now) \subseteq StoredNotices
      /\ Updates!Retained(Updates!Retained(ns, now), now) = Updates!Retained(ns, now)
  BY RetainedStays
<1>2. new \in Reads /\ new.current = TRUE /\ new.notices = Updates!Retained(ns, now)
  BY <1>0, <1>1 DEF Reads
<1>3. ASSUME NEW r \in replies
      PROVE  [r EXCEPT !.current = FALSE] \in Reads /\ [r EXCEPT !.current = FALSE].current = FALSE
  BY <1>3 DEF DocumentsInv, DocumentsShape, Reads
<1>4. replies' = {[r EXCEPT !.current = FALSE] : r \in replies} \cup {new}
  BY <1>0 DEF Updates!Asked
<1>5. IsCurrent(new.notices)'
  BY <1>1, <1>2 DEF IsCurrent
<1>6. replies' \subseteq Reads
  BY <1>2, <1>3, <1>4
<1>7. \A r \in replies' : r.current => r = new
  BY <1>3, <1>4
<1>8. \A r \in replies' : r.current => IsCurrent(r.notices)'
  BY <1>5, <1>7 DEF IsCurrent
<1>9. \E r \in replies' : r.current
  BY <1>2, <1>4
<1>. QED  BY <1>6, <1>7, <1>8, <1>9 DEF WindowInv

LEMMA DocumentsRenameNotices ==
    ASSUME DocumentsInv, Updates!RenameNotices
    PROVE  DocumentsInv'
<1>1. /\ pass.step = "renameNotices" /\ Updates!Goto("accept") /\ notices' = pass.notices
      /\ replies' = Updates!Asked(pass.notices) /\ Updates!Announces
      /\ UNCHANGED <<online, now, accepted, blocks, shown, troubles, committed, replaced, losses>>
  BY DEF Updates!RenameNotices
<1>2. /\ pass \in Passes /\ pass' \in Passes /\ pass'.step = "accept" /\ pass'.at = pass.at /\ pass'.doc = pass.doc
      /\ pass # Updates!NoPass /\ pass.notices \subseteq StoredNotices
  BY <1>1, PassGotoFields, StepFields DEF PassSteps, Updates!NoPass
<1>3. replies' \subseteq Reads /\ WindowInv'
  BY <1>1, <1>2, AskedIsCurrent
<1>8. /\ announced' \in [Updates!NoticeIds -> {0} \cup Seqs]
      /\ \A d \in Documents : \A n \in Ours(d) :
            announced'[n.id] = IF Reannounced(n.id) THEN pass.doc ELSE announced[n.id]
      /\ SaidInv' /\ NoticePassInv'
  BY <1>1, <1>2, AnnouncesFields, AnnouncesAll
<1>4. DocumentsShape'
  BY <1>1, <1>2, <1>3, <1>8 DEF DocumentsInv, DocumentsShape
<1>5. PassInv'
  BY <1>1, <1>2 DEF DocumentsInv, PassInv, BlocksAhead, Wanted
<1>6. StoreInv'
  BY <1>1, <1>2, StoreStays
<1>7. Updates!AcceptedIsLatest'
  BY <1>1, AcceptedStays
<1>9. NoticeStoreInv'
  <2>1. SUFFICES ASSUME "notices" \notin losses, NEW d \in Documents, NEW n \in Ours(d),
                        announced'[n.id] = d.seq, now < Updates!AsNotice(d, n).until
                 PROVE  Updates!AsNotice(d, n) \in pass.notices
    BY <1>1, <1>2 DEF NoticeStoreInv, Ours, Updates!AsNotice, Updates!Earlier
  <2>2. CASE Reannounced(n.id)
    <3>1. d.seq = pass.doc /\ n \in Shown(d)
      BY <2>1, <2>2, <1>2, <1>8, WantedWhileValid
    <3>. QED  BY <3>1, <1>1, <1>2 DEF DocumentsInv, NoticesInv, NoticePassInv
  <2>3. CASE ~Reannounced(n.id)
    BY <2>1, <2>3, <1>1, <1>8 DEF DocumentsInv, NoticesInv, NoticeStoreInv
  <2>. QED  BY <2>2, <2>3
<1>. QED  BY <1>3, <1>4, <1>5, <1>6, <1>7, <1>8, <1>9 DEF DocumentsInv, NoticesInv

\* No sequence is stored for a moment.
LEMMA DocumentsRemoveAccepted ==
    ASSUME DocumentsInv, Updates!RemoveAccepted
    PROVE  DocumentsInv'
<1>1. /\ pass.step = "accept" /\ Updates!Goto("renameAccepted") /\ accepted' = 0
      /\ UNCHANGED <<online, now, blocks, notices, shown, replies, troubles, committed, replaced, announced, losses>>
  BY DEF Updates!RemoveAccepted, Updates!KeepWindow, Updates!KeepGhosts
<1>2. /\ pass \in Passes /\ pass' \in Passes /\ pass'.step = "renameAccepted"
      /\ pass'.at = pass.at /\ pass'.doc = pass.doc /\ pass # Updates!NoPass
      /\ pass'.notices = pass.notices /\ pass'.withdrawn = pass.withdrawn
  BY <1>1, PassGotoFields DEF PassSteps, Updates!NoPass
<1>3. DocumentsShape'
  BY <1>1, <1>2 DEF DocumentsInv, DocumentsShape
<1>4. PassInv'
  BY <1>1, <1>2 DEF DocumentsInv, PassInv, BlocksAhead, Wanted
<1>5. StoreInv'
  BY <1>1, <1>2, StoreStays
<1>6. Updates!AcceptedIsLatest'
  BY <1>2 DEF Updates!AcceptedIsLatest
<1>7. WindowInv'
  BY <1>1, WindowStays
<1>8. NoticePassInv'
  <2>1. ~NoticesAhead /\ ~NoticesAhead'
    BY <1>1, <1>2 DEF NoticesAhead, BlocksAhead
  <2>. QED  BY <2>1, <1>1, <1>2, NoticePassStays
<1>9. NoticeStoreInv' /\ SaidInv'
  BY <1>1, <1>2, NoticeStoreStays, SaidStays
<1>. QED  BY <1>3, <1>4, <1>5, <1>6, <1>7, <1>8, <1>9 DEF DocumentsInv, NoticesInv

\* The sequence of the pass is the highest.
LEMMA DocumentsRenameAccepted ==
    ASSUME DocumentsInv, Updates!RenameAccepted
    PROVE  DocumentsInv'
<1>1. /\ pass.step = "renameAccepted" /\ pass' = Updates!NoPass /\ accepted' = pass.doc
      /\ committed' = committed \cup {pass.doc}
      /\ UNCHANGED <<online, now, blocks, notices, shown, replies, troubles, replaced, announced, losses>>
  BY DEF Updates!RenameAccepted, Updates!KeepWindow
<1>2. pass # Updates!NoPass /\ pass.doc \in Seqs /\ pass.doc \in Nat /\ pass'.step = "sleep"
  BY <1>1, PassFields, StepFields, DocumentOf
<1>3. DocumentsShape'
  BY <1>1, <1>2 DEF DocumentsInv, DocumentsShape
<1>4. PassInv'
  BY <1>1 DEF PassInv
<1>5. StoreInv'
  BY <1>1, <1>2, StoreStays
<1>6. Updates!AcceptedIsLatest'
  <2>1. "accepted" \in losses \/ \A s \in committed : s <= pass.doc
    BY <1>2 DEF DocumentsInv, PassInv
  <2>2. "accepted" \in losses \/ \A s \in committed \cup {pass.doc} : s <= pass.doc
    BY <2>1, <1>2
  <2>. QED  BY <2>2, <1>1 DEF Updates!AcceptedIsLatest
<1>7. WindowInv'
  BY <1>1, <1>2, WindowStays
<1>8. NoticePassInv'
  BY <1>1 DEF NoticePassInv
<1>9. NoticeStoreInv'
  BY <1>1, <1>2, NoticeStoreStays
<1>10. SaidInv'
  <2>1. /\ ~BlocksAhead /\ ~NoticesAhead
    BY <1>1 DEF BlocksAhead, NoticesAhead
  <2>2. ASSUME NEW d \in Documents, d.seq = pass.doc
        PROVE  /\ \A b \in d.blocks : now < Updates!AsBlock(d, b).until => replaced[b.id] = d.seq
               /\ \A n \in Ours(d) : now < Updates!AsNotice(d, n).until => announced[n.id] = d.seq
    BY <2>1, <2>2, <1>2, WantedWhileValid DEF DocumentsInv, PassInv, NoticesInv, NoticePassInv
  <2>3. ASSUME NEW d \in Documents, d.seq \in committed'
        PROVE  /\ \A b \in d.blocks : now < Updates!AsBlock(d, b).until => Said(d, replaced[b.id])
               /\ \A n \in Ours(d) : now < Updates!AsNotice(d, n).until => Said(d, announced[n.id])
    <3>1. CASE d.seq = pass.doc
      BY <2>2, <3>1, UpdatesConstants DEF Said
    <3>2. CASE d.seq \in committed
      BY <3>2 DEF DocumentsInv, SaidInv
    <3>. QED  BY <2>3, <3>1, <3>2, <1>1
  <2>. QED  BY <2>3, <1>1 DEF SaidInv, Said, Ours, Updates!AsBlock, Updates!AsNotice, Updates!Earlier
<1>. QED  BY <1>3, <1>4, <1>5, <1>6, <1>7, <1>8, <1>9, <1>10 DEF DocumentsInv, NoticesInv

------------------------------------------------------------------------------------
(* The window and the clock.                                                       *)

\* The thread and its stores stay as they are.
LEMMA ThreadStays ==
    ASSUME DocumentsInv, UNCHANGED <<now, accepted, blocks, notices, pass, committed, replaced, announced, losses>>
    PROVE  PassInv' /\ StoreInv' /\ NoticesInv' /\ SaidInv' /\ Updates!AcceptedIsLatest'
<1>1. PassInv'
  BY DEF DocumentsInv, PassInv, BlocksAhead, Wanted
<1>2. StoreInv'
  BY DEF DocumentsInv, StoreInv, Rewritten, Wanted
<1>3. Updates!AcceptedIsLatest'
  BY DEF DocumentsInv, Updates!AcceptedIsLatest
<1>4. NoticesInv'
  BY DEF DocumentsInv, NoticesInv, NoticePassInv, NoticeStoreInv, NoticesAhead, BlocksAhead, Reannounced, Ours, Shown
<1>5. SaidInv'
  BY SaidStays
<1>. QED  BY <1>1, <1>2, <1>3, <1>4, <1>5

LEMMA DocumentsListen ==
    ASSUME DocumentsInv, Updates!Listen
    PROVE  DocumentsInv'
<1>1. /\ replies' = Updates!Asked(notices)
      /\ UNCHANGED <<online, now, accepted, blocks, notices, pass, shown, troubles, committed, replaced, announced, losses>>
  BY DEF Updates!Listen, Updates!KeepStores, Updates!KeepGhosts
<1>2. notices \subseteq StoredNotices
  BY DEF DocumentsInv, DocumentsShape
<1>3. replies' \subseteq Reads /\ WindowInv'
  BY <1>1, <1>2, AskedIsCurrent
<1>4. DocumentsShape'
  BY <1>1, <1>3 DEF DocumentsInv, DocumentsShape
<1>. QED  BY <1>1, <1>3, <1>4, ThreadStays DEF DocumentsInv

LEMMA DocumentsDeliver ==
    ASSUME DocumentsInv, NEW r \in replies, Updates!Deliver(r)
    PROVE  DocumentsInv'
<1>1. /\ replies' = replies \ {r} /\ shown' = IF r.current THEN r.notices ELSE shown
      /\ UNCHANGED <<online, now, accepted, blocks, notices, pass, troubles, committed, replaced, announced, losses>>
  BY DEF Updates!Deliver, Updates!KeepStores, Updates!KeepGhosts
<1>2. r \in Reads
  BY DEF DocumentsInv, DocumentsShape
<1>3. DocumentsShape'
  BY <1>1, <1>2 DEF DocumentsInv, DocumentsShape, Reads
<1>4. \A ns : IsCurrent(ns)' <=> IsCurrent(ns)
  BY <1>1 DEF IsCurrent, Updates!Retained
<1>5. /\ \A x, y \in replies : x.current /\ y.current => x = y
      /\ \A x \in replies : x.current => IsCurrent(x.notices)
      /\ (\E x \in replies : x.current) \/ IsCurrent(shown)
  BY DEF DocumentsInv, WindowInv
<1>6. CASE r.current = TRUE
  <2>1. shown' = r.notices /\ IsCurrent(r.notices)
    BY <1>1, <1>5, <1>6
  <2>2. IsCurrent(r.notices)'
    BY <2>1, <1>4
  <2>3. IsCurrent(shown)'
    BY <2>1, <2>2 DEF IsCurrent
  <2>4. /\ \A x, y \in replies' : x.current /\ y.current => x = y
        /\ \A x \in replies' : x.current => IsCurrent(x.notices)'
    BY <1>1, <1>4, <1>5
  <2>5. WindowInv'
    BY <2>3, <2>4 DEF WindowInv, IsCurrent
  <2>. QED  BY <2>5, <1>1, <1>3, ThreadStays DEF DocumentsInv
<1>7. CASE r.current = FALSE
  <2>1. shown' = shown
    BY <1>1, <1>7
  <2>2. (\E x \in replies' : x.current) \/ IsCurrent(shown)'
    BY <2>1, <1>1, <1>4, <1>5, <1>7
  <2>3. /\ \A x, y \in replies' : x.current /\ y.current => x = y
        /\ \A x \in replies' : x.current => IsCurrent(x.notices)'
    BY <1>1, <1>4, <1>5
  <2>4. WindowInv'
    BY <2>2, <2>3 DEF WindowInv, IsCurrent
  <2>. QED  BY <2>4, <1>1, <1>3, ThreadStays DEF DocumentsInv
<1>. QED  BY <1>2, <1>6, <1>7 DEF Reads

LEMMA DocumentsTick ==
    ASSUME DocumentsInv, Updates!Tick
    PROVE  DocumentsInv'
<1>1. /\ now < MaxNow /\ now' = now + 1
      /\ UNCHANGED <<online, accepted, blocks, notices, pass, shown, replies, troubles, committed, replaced, announced, losses>>
  BY DEF Updates!Tick, Updates!KeepStores, Updates!KeepWindow, Updates!KeepGhosts
<1>2. now \in Nat /\ now' \in 1..MaxNow /\ now' \in Nat
  BY <1>1, UpdatesConstants DEF DocumentsInv, DocumentsShape
<1>3. DocumentsShape'
  BY <1>1, <1>2 DEF DocumentsInv, DocumentsShape
<1>4. PassInv'
  <2>1. ASSUME pass # Updates!NoPass
        PROVE  pass.at <= now'
    <3>1. pass.at \in Nat /\ pass.at <= now
      BY <2>1, StepFields DEF DocumentsInv, PassInv
    <3>. QED  BY <3>1, <1>1, <1>2
  <2>2. \A d \in Documents : Wanted(d)' = Wanted(d)
    BY <1>1 DEF Wanted
  <2>. QED  BY <2>1, <2>2, <1>1 DEF DocumentsInv, PassInv, BlocksAhead, Updates!AsBlock, Updates!Earlier
<1>5. StoreInv'
  <2>1. SUFFICES ASSUME "blocks" \notin losses, NEW d \in Documents, NEW b \in d.blocks,
                        replaced[b.id] = d.seq, now' < Updates!AsBlock(d, b).until
                 PROVE  IF pass.step = "renameBlocks" THEN Updates!AsBlock(d, b) \in pass.blocks \/ Rewritten(b.id)'
                        ELSE Updates!AsBlock(d, b) \in blocks
    BY <1>1 DEF StoreInv, Updates!AsBlock, Updates!Earlier
  <2>2. now < Updates!AsBlock(d, b).until
    BY <2>1, <1>1, <1>2, BlockFields
  <2>3. Rewritten(b.id)' <=> Rewritten(b.id)
    BY <1>1 DEF Rewritten, Wanted
  <2>. QED  BY <2>1, <2>2, <2>3 DEF DocumentsInv, StoreInv
<1>6. Updates!AcceptedIsLatest'
  BY <1>1, AcceptedStays
<1>7. WindowInv'
  <2>1. ASSUME NEW ns \in SUBSET StoredNotices, IsCurrent(ns)
        PROVE  IsCurrent(ns)'
    <3>1. notices \subseteq StoredNotices
      BY DEF DocumentsInv, DocumentsShape
    <3>2. Updates!Retained(ns, now) = Updates!Retained(notices, now) =>
            Updates!Retained(ns, now') = Updates!Retained(notices, now')
      BY <3>1, <1>1, <1>2, RetainedLater
    <3>3. IsCurrent(ns)' <=> \/ pass.step = "renameNotices" \/ "notices" \in losses
                             \/ Updates!Retained(ns, now') = Updates!Retained(notices, now')
      BY <1>1 DEF IsCurrent, Updates!Retained
    <3>. QED  BY <2>1, <3>2, <3>3 DEF IsCurrent
  <2>2. /\ shown \subseteq StoredNotices
        /\ \A r \in replies : r.notices \subseteq StoredNotices
    BY DEF DocumentsInv, DocumentsShape, Reads
  <2>3. \A r \in replies : r.current => IsCurrent(r.notices)'
    BY <2>1, <2>2 DEF DocumentsInv, WindowInv
  <2>4. (\E r \in replies : r.current) \/ IsCurrent(shown)'
    <3>1. PICK ns : ns = shown
      OBVIOUS
    <3>2. (\E r \in replies : r.current) \/ IsCurrent(ns)
      BY <3>1 DEF DocumentsInv, WindowInv
    <3>3. IsCurrent(ns) => IsCurrent(ns)'
      BY <2>1, <2>2, <3>1
    <3>4. shown' = ns
      BY <3>1, <1>1
    <3>. QED  BY <3>2, <3>3, <3>4 DEF IsCurrent
  <2>. QED  BY <2>3, <2>4, <1>1 DEF DocumentsInv, WindowInv, IsCurrent
<1>8. NoticePassInv'
  BY <1>1 DEF DocumentsInv, NoticesInv, NoticePassInv, NoticesAhead, BlocksAhead, Ours, Shown,
              Updates!AsNotice, Updates!Earlier
<1>9. NoticeStoreInv'
  <2>1. SUFFICES ASSUME "notices" \notin losses, NEW d \in Documents, NEW n \in Ours(d),
                        announced[n.id] = d.seq, now' < Updates!AsNotice(d, n).until
                 PROVE  IF pass.step = "renameNotices" THEN Updates!AsNotice(d, n) \in pass.notices \/ Reannounced(n.id)
                        ELSE Updates!AsNotice(d, n) \in notices
    BY <1>1 DEF NoticeStoreInv, Reannounced, Ours, Updates!AsNotice, Updates!Earlier
  <2>2. now < Updates!AsNotice(d, n).until
    <3>1. n \in d.notices
      BY DEF Ours
    <3>. QED  BY <3>1, <2>1, <1>1, <1>2, NoticeFields
  <2>. QED  BY <2>1, <2>2 DEF DocumentsInv, NoticesInv, NoticeStoreInv
<1>10. SaidInv'
  <2>1. ASSUME NEW d \in Documents, d.seq \in committed
        PROVE  /\ \A b \in d.blocks : now' < Updates!AsBlock(d, b).until => Said(d, replaced[b.id])
               /\ \A n \in Ours(d) : now' < Updates!AsNotice(d, n).until => Said(d, announced[n.id])
    <3>1. \A b \in d.blocks : now' < Updates!AsBlock(d, b).until => now < Updates!AsBlock(d, b).until
      BY <1>1, <1>2, BlockFields
    <3>2. \A n \in Ours(d) : now' < Updates!AsNotice(d, n).until => now < Updates!AsNotice(d, n).until
      BY <1>1, <1>2, NoticeFields DEF Ours
    <3>. QED  BY <2>1, <3>1, <3>2 DEF DocumentsInv, SaidInv
  <2>. QED  BY <2>1, <1>1 DEF SaidInv, Said, Ours, Updates!AsBlock, Updates!AsNotice, Updates!Earlier
<1>. QED  BY <1>3, <1>4, <1>5, <1>6, <1>7, <1>8, <1>9, <1>10 DEF DocumentsInv, NoticesInv

------------------------------------------------------------------------------------
(* Checks and installations.                                                       *)

LEMMA BroadcastStays ==
    ASSUME DocumentsInv, UNCHANGED Updates!broadcastVars
    PROVE  DocumentsInv'
<1>1. UNCHANGED <<online, now, accepted, blocks, notices, pass, shown, replies, troubles, committed, replaced, announced, losses>>
  BY DEF Updates!broadcastVars
<1>2. troubles' \in 0..MaxBroadcastTrouble
  BY <1>1 DEF DocumentsInv, DocumentsShape
<1>. QED  BY <1>1, <1>2, DocumentsStay

LEMMA WindowFields ==
    ASSUME ui \in Windows
    PROVE  /\ ui = Updates!Idle \/ ui.step # "idle"
           /\ ui.step \in {"apply", "list", "download", "record", "wait"} => ui.version \in Versions
           /\ ui.step \in {"list", "download"} => ui.ordered \in BOOLEAN /\ ui.gap \in BOOLEAN
           /\ ui.step \in {"record", "wait"} =>
                ui.existed \in BOOLEAN /\ ui \in [step : {"record", "wait"}, version : Versions, existed : BOOLEAN]
<1>1. CASE ui \in [step : {"idle", "check"}]
  <2>1. ui = [step |-> ui.step] /\ ui.step \in {"idle", "check"}
    BY <1>1
  <2>. QED  BY <2>1 DEF Updates!Idle
<1>2. CASE ui \in [step : {"apply"}, version : Versions]
  BY <1>2
<1>3. CASE ui \in [step : {"list", "download"}, version : Versions, ordered : BOOLEAN, gap : BOOLEAN]
  BY <1>3
<1>4. CASE ui \in [step : {"record", "wait"}, version : Versions, existed : BOOLEAN]
  BY <1>4
<1>. QED  BY <1>1, <1>2, <1>3, <1>4 DEF Windows

LEMMA WriterFields ==
    ASSUME UpdaterInv, NEW w \in Updates!Writers
    PROVE  /\ Updates!Quiet(w) <=> writer[w].step = "idle"
           /\ ~Updates!Quiet(w) =>
                /\ writer[w] \in [step : {"write", "remove", "rename"}, content : Marks]
                /\ writer[w].step \in {"write", "remove", "rename"} /\ writer[w].content \in Marks
<1>1. writer[w] \in CenterWriters
  BY DEF UpdaterInv, CenterShape
<1>. QED  BY <1>1 DEF CenterWriters, Updates!Quiet, Updates!Idle

LEMMA WritersAre ==
    Updates!Writers = {"check", "main"}
  BY DEF Updates!Writers

\* The window goes on while its check writes nothing.
LEMMA UiMoves ==
    ASSUME UpdaterInv, Updates!Quiet("check"), Updates!KeepCenter,
           ui' \in Windows, {installed', offer'} \subseteq {0} \cup Versions,
           ui'.step \in {"idle", "check", "apply", "list", "download"},
           ui'.step \in {"list", "download"} /\ ui'.ordered => ui'.gap,
           ui'.step = "list" => toasts[ui'.version] < MaxToasts
    PROVE  UpdaterInv'
<1>1. UNCHANGED <<center, temp, writer, toasts, marked, crossed, centerLost>>
  BY DEF Updates!KeepCenter
<1>2. CenterShape'
  BY <1>1 DEF UpdaterInv, CenterShape
<1>3. UiInv'
  BY <1>1 DEF UiInv, Updates!BlockedIsNotTaken, Updates!Quiet
<1>4. CenterInv'
  BY <1>1 DEF UpdaterInv, CenterInv, Told, Marked, Updates!Quiet
<1>. QED  BY <1>2, <1>3, <1>4 DEF UpdaterInv

LEMMA QuietUnlessWaits ==
    ASSUME UpdaterInv
    PROVE  ui.step # "wait" => Updates!Quiet("check")
  BY DEF UpdaterInv, UiInv

LEMMA UpdaterCheck ==
    ASSUME UpdaterInv, Updates!Check
    PROVE  UpdaterInv'
<1>1. ui = Updates!Idle /\ ui' = [step |-> "check"] /\ UNCHANGED <<installed, offer>> /\ Updates!KeepCenter
  BY DEF Updates!Check
<1>2. Updates!Quiet("check")
  BY <1>1, QuietUnlessWaits DEF Updates!Idle
<1>3. ui' \in Windows /\ ui'.step = "check"
  BY <1>1 DEF Windows
<1>4. {installed', offer'} \subseteq {0} \cup Versions
  BY <1>1 DEF UpdaterInv, CenterShape
<1>. QED  BY <1>1, <1>2, <1>3, <1>4, UiMoves

LEMMA UpdaterInstall ==
    ASSUME UpdaterInv, Updates!Install
    PROVE  UpdaterInv'
<1>1. /\ ui = Updates!Idle /\ offer # 0 /\ ui' = [step |-> "apply", version |-> offer]
      /\ UNCHANGED <<installed, offer>> /\ Updates!KeepCenter
  BY DEF Updates!Install
<1>2. Updates!Quiet("check")
  BY <1>1, QuietUnlessWaits DEF Updates!Idle
<1>3. ui' \in Windows /\ ui'.step = "apply"
  BY <1>1 DEF Windows, UpdaterInv, CenterShape
<1>4. {installed', offer'} \subseteq {0} \cup Versions
  BY <1>1 DEF UpdaterInv, CenterShape
<1>. QED  BY <1>1, <1>2, <1>3, <1>4, UiMoves

LEMMA UpdaterEnds ==
    ASSUME UpdaterInv, Updates!Ends
    PROVE  UpdaterInv'
<1>1. /\ ui.step \in {"check", "apply", "download"} /\ ui' = Updates!Idle /\ offer' = 0
      /\ UNCHANGED installed /\ Updates!KeepCenter
  BY DEF Updates!Ends
<1>2. Updates!Quiet("check")
  BY <1>1, QuietUnlessWaits
<1>3. ui' \in Windows /\ ui'.step = "idle"
  BY <1>1 DEF Windows, Updates!Idle
<1>4. {installed', offer'} \subseteq {0} \cup Versions
  BY <1>1 DEF UpdaterInv, CenterShape
<1>. QED  BY <1>1, <1>2, <1>3, <1>4, UiMoves

\* The last word on what an accepted document asked for is its own, if no other has
\* overruled it.
LEMMA LastWord ==
    ASSUME DocumentsInv, NEW d \in Documents, d.seq \in committed
    PROVE  /\ \A b \in d.blocks :
                now < Updates!AsBlock(d, b).until /\ ~Updates!Overruled(d, replaced[b.id]) => replaced[b.id] = d.seq
           /\ \A n \in Ours(d) :
                now < Updates!AsNotice(d, n).until /\ ~Updates!Overruled(d, announced[n.id]) => announced[n.id] = d.seq
<1>1. d.seq \in Nat /\ d.seq # 0
  BY UpdatesConstants
<1>2. ASSUME NEW last \in {0} \cup Seqs, Said(d, last), ~Updates!Overruled(d, last)
      PROVE  last = d.seq
  BY <1>1, <1>2, DocumentOf DEF Said, Updates!Overruled
<1>3. ASSUME NEW b \in d.blocks, now < Updates!AsBlock(d, b).until, ~Updates!Overruled(d, replaced[b.id])
      PROVE  replaced[b.id] = d.seq
  <2>1. replaced[b.id] \in {0} \cup Seqs
    BY BlockFields DEF DocumentsInv, DocumentsShape
  <2>. QED  BY <2>1, <1>2, <1>3 DEF DocumentsInv, SaidInv
<1>4. ASSUME NEW n \in Ours(d), now < Updates!AsNotice(d, n).until, ~Updates!Overruled(d, announced[n.id])
      PROVE  announced[n.id] = d.seq
  <2>1. announced[n.id] \in {0} \cup Seqs
    BY NoticeFields DEF Ours, DocumentsInv, DocumentsShape
  <2>. QED  BY <2>1, <1>2, <1>4 DEF DocumentsInv, SaidInv
<1>. QED  BY <1>3, <1>4

\* What an accepted document blocks is in the store, but in a gap of it.
LEMMA OrderedIsBlocked ==
    ASSUME DocumentsInv, NEW v, Updates!Ordered(v), ~Updates!Gap
    PROVE  Updates!Blocked(v)
<1>1. PICK d \in Documents : \E b \in d.blocks :
        /\ d.seq \in committed /\ ~Updates!Overruled(d, replaced[b.id])
        /\ b.version = v /\ b.from <= now /\ now < Updates!AsBlock(d, b).until
  BY DEF Updates!Ordered
<1>2. PICK b \in d.blocks : /\ d.seq \in committed /\ ~Updates!Overruled(d, replaced[b.id])
                            /\ b.version = v /\ b.from <= now /\ now < Updates!AsBlock(d, b).until
  BY <1>1
<1>3. "blocks" \notin losses /\ pass.step # "renameBlocks"
  BY DEF Updates!Gap
<1>4. Updates!AsBlock(d, b) \in blocks
  BY <1>2, <1>3, LastWord DEF DocumentsInv, StoreInv
<1>. QED  BY <1>2, <1>4, BlockFields DEF Updates!Blocked

\* A version passes that the store does not block.
LEMMA PassedFields ==
    ASSUME DocumentsInv, NEW v \in Versions, NEW step \in {"list", "download"}, ~Updates!Blocked(v),
           ui' = Updates!Passed(step, v)
    PROVE  /\ ui' \in Windows /\ ui'.step = step /\ ui'.version = v
           /\ ui'.ordered => ui'.gap
<1>1. PICK o \in BOOLEAN : o = Updates!Ordered(v)
  BY DEF Updates!Ordered
<1>2. PICK g \in BOOLEAN : g = Updates!Gap
  BY DEF Updates!Gap
<1>3. ui' = [step |-> step, version |-> v, ordered |-> o, gap |-> g]
  BY <1>1, <1>2 DEF Updates!Passed
<1>4. o => g
  BY <1>1, <1>2, OrderedIsBlocked
<1>. QED  BY <1>3, <1>4 DEF Windows

LEMMA UpdaterChecked ==
    ASSUME DocumentsInv, UpdaterInv, NEW v \in Versions, Updates!Checked(v)
    PROVE  UpdaterInv'
<1>1. /\ ui.step = "check" /\ ~Updates!Blocked(v) /\ toasts[v] < MaxToasts /\ ui' = Updates!Passed("list", v)
      /\ UNCHANGED <<installed, offer>> /\ Updates!KeepCenter
  BY DEF Updates!Checked
<1>2. Updates!Quiet("check")
  BY <1>1, QuietUnlessWaits
<1>3. ui' \in Windows /\ ui'.step = "list" /\ ui'.version = v /\ (ui'.ordered => ui'.gap)
  BY <1>1, PassedFields
<1>4. {installed', offer'} \subseteq {0} \cup Versions
  BY <1>1 DEF UpdaterInv, CenterShape
<1>. QED  BY <1>1, <1>2, <1>3, <1>4, UiMoves

LEMMA UpdaterRechecked ==
    ASSUME DocumentsInv, UpdaterInv, NEW v \in Versions, Updates!Rechecked(v)
    PROVE  UpdaterInv'
<1>1. /\ ui.step = "apply" /\ ~Updates!Blocked(v) /\ ui' = Updates!Passed("download", v)
      /\ UNCHANGED <<installed, offer>> /\ Updates!KeepCenter
  BY DEF Updates!Rechecked
<1>2. Updates!Quiet("check")
  BY <1>1, QuietUnlessWaits
<1>3. ui' \in Windows /\ ui'.step = "download" /\ (ui'.ordered => ui'.gap)
  BY <1>1, PassedFields
<1>4. {installed', offer'} \subseteq {0} \cup Versions
  BY <1>1 DEF UpdaterInv, CenterShape
<1>. QED  BY <1>1, <1>2, <1>3, <1>4, UiMoves

\* Both writers end; one that was replacing the center leaves its mark.
LEMMA WritersEnd ==
    ASSUME UpdaterInv, {installed', offer'} \subseteq {0} \cup Versions, ui' = Updates!Idle,
           writer' = [w \in Updates!Writers |-> Updates!Idle],
           centerLost' = (centerLost \/ \E w \in Updates!Writers : writer[w].step = "rename"),
           UNCHANGED <<center, temp, toasts, marked, crossed>>
    PROVE  UpdaterInv'
<1>1. ui' \in Windows /\ ui'.step = "idle"
  BY DEF Windows, Updates!Idle
<1>2. \A w \in Updates!Writers : writer'[w] = Updates!Idle /\ writer'[w].step = "idle"
  BY DEF Updates!Idle
<1>3. writer' \in [Updates!Writers -> CenterWriters]
  BY DEF CenterWriters
<1>4. centerLost' \in BOOLEAN
  OBVIOUS
<1>5. CenterShape'
  BY <1>1, <1>3, <1>4 DEF UpdaterInv, CenterShape
<1>6. \A w \in Updates!Writers : Updates!Quiet(w)'
  BY <1>2 DEF Updates!Quiet
<1>7. UiInv'
  BY <1>1, <1>6, WritersAre DEF UiInv, Updates!BlockedIsNotTaken
<1>8. ~crossed' /\ ~centerLost' => Told(center) /\ Marked(center)
  BY DEF UpdaterInv, CenterInv
<1>9. CenterInv'
  BY <1>1, <1>2, <1>6, <1>8, WritersAre DEF CenterInv, Told, Marked
<1>. QED  BY <1>5, <1>7, <1>9 DEF UpdaterInv

\* The installer replaces the program and starts it again.
LEMMA InstalledKeeps ==
    ASSUME DocumentsInv, UpdaterInv, Updates!Installed
    PROVE  DocumentsInv' /\ UpdaterInv'
<1>1. /\ ui.step = "download" /\ installed' = ui.version /\ ui' = Updates!Idle /\ offer' = 0
      /\ writer' = [w \in Updates!Writers |-> Updates!Idle]
      /\ centerLost' = (centerLost \/ \E w \in Updates!Writers : writer[w].step = "rename")
      /\ UNCHANGED <<center, temp, toasts, marked, crossed, troubles>> /\ Updates!Restart
  BY DEF Updates!Installed
<1>2. {installed', offer'} \subseteq {0} \cup Versions
  BY <1>1, WindowFields DEF UpdaterInv, CenterShape
<1>3. UpdaterInv'
  BY <1>1, <1>2, WritersEnd
<1>4. troubles' \in 0..MaxBroadcastTrouble
  BY <1>1 DEF DocumentsInv, DocumentsShape
<1>. QED  BY <1>1, <1>3, <1>4, DocumentsRestart

LEMMA ProcessDiesKeeps ==
    ASSUME DocumentsInv, UpdaterInv, Updates!Dies
    PROVE  DocumentsInv' /\ UpdaterInv'
<1>1. /\ troubles < MaxBroadcastTrouble /\ troubles' = troubles + 1 /\ ui' = Updates!Idle /\ offer' = 0
      /\ writer' = [w \in Updates!Writers |-> Updates!Idle]
      /\ centerLost' = (centerLost \/ \E w \in Updates!Writers : writer[w].step = "rename")
      /\ UNCHANGED <<installed, center, temp, toasts, marked, crossed>> /\ Updates!Restart
  BY DEF Updates!Dies
<1>2. {installed', offer'} \subseteq {0} \cup Versions
  BY <1>1 DEF UpdaterInv, CenterShape
<1>3. UpdaterInv'
  BY <1>1, <1>2, WritersEnd
<1>4. troubles' \in 0..MaxBroadcastTrouble
  BY <1>1, UpdatesConstants DEF DocumentsInv, DocumentsShape
<1>. QED  BY <1>1, <1>3, <1>4, DocumentsRestart

------------------------------------------------------------------------------------
(* The notification center.                                                        *)

\* The check asks whether there is a record.
LEMMA UpdaterList ==
    ASSUME UpdaterInv, Updates!List
    PROVE  UpdaterInv'
<1>1. PICK e \in BOOLEAN : e = (center[ui.version] # "none")
  OBVIOUS
<1>2. /\ ui.step = "list" /\ ui' = [step |-> "record", version |-> ui.version, existed |-> e]
      /\ crossed' = (crossed \/ ~Updates!Quiet("main"))
      /\ UNCHANGED <<installed, offer, center, temp, writer, toasts, marked, centerLost>>
  BY <1>1 DEF Updates!List, Updates!KeepUpdater
<1>3. ui.version \in Versions /\ Updates!Quiet("check") /\ toasts[ui.version] < MaxToasts
  BY <1>2, WindowFields, QuietUnlessWaits DEF UpdaterInv, CenterShape, UiInv
<1>4. ui' \in Windows /\ ui'.step = "record" /\ ui'.version = ui.version /\ ui'.existed = e
  BY <1>2, <1>3 DEF Windows
<1>5. crossed' \in BOOLEAN
  BY <1>2 DEF Updates!Quiet, UpdaterInv, CenterShape
<1>6. CenterShape'
  BY <1>2, <1>4, <1>5 DEF UpdaterInv, CenterShape
<1>7. UiInv'
  BY <1>2, <1>3, <1>4 DEF UiInv, Updates!BlockedIsNotTaken, Updates!Quiet
<1>8. CenterInv'
  <2>1. SUFFICES ASSUME ~crossed', ~centerLost'
                 PROVE  CenterInv'
    BY DEF CenterInv
  <2>2. ~crossed /\ ~centerLost /\ Updates!Quiet("main")
    BY <2>1, <1>2
  <2>3. \A w \in Updates!Writers : writer[w].step = "idle"
    BY <2>2, <1>3, WriterFields, WritersAre
  <2>4. Told(center) /\ Marked(center)
    BY <2>2, <2>3 DEF UpdaterInv, CenterInv
  <2>5. ~e => toasts[ui.version] = 0
    <3>1. toasts[ui.version] \in Nat /\ toasts[ui.version] <= 1
      <4>1. toasts[ui.version] \in 0..MaxToasts
        BY <1>3 DEF UpdaterInv, CenterShape
      <4>2. toasts[ui.version] <= 1
        BY <1>3, <2>4 DEF Told
      <4>. QED  BY <4>1, <4>2, UpdatesConstants
    <3>2. toasts[ui.version] = 1 => e
      BY <1>1, <1>3, <2>4 DEF Told
    <3>. QED  BY <3>1, <3>2
  <2>. QED  BY <1>2, <1>3, <1>4, <2>2, <2>3, <2>4, <2>5, WritersAre DEF CenterInv, Told, Marked, Updates!Quiet
<1>. QED  BY <1>6, <1>7, <1>8 DEF UpdaterInv

\* A writer begins, beside another one or not.
LEMMA BeginsFields ==
    ASSUME UpdaterInv, NEW w \in Updates!Writers, NEW content \in Marks, Updates!Begins(w, content)
    PROVE  /\ writer' \in [Updates!Writers -> CenterWriters] /\ crossed' \in BOOLEAN
           /\ writer'[w].step = "write" /\ writer'[w].content = content
           /\ \A x \in Updates!Writers \ {w} : writer'[x] = writer[x]
           /\ ~crossed' => ~crossed /\ \A x \in Updates!Writers \ {w} : Updates!Quiet(x)
<1>1. /\ writer' = [writer EXCEPT ![w] = [step |-> "write", content |-> content]]
      /\ crossed' = (crossed \/ \E x \in Updates!Writers \ {w} : ~Updates!Quiet(x))
  BY DEF Updates!Begins
<1>2. writer \in [Updates!Writers -> CenterWriters] /\ crossed \in BOOLEAN
  BY DEF UpdaterInv, CenterShape
<1>3. [step |-> "write", content |-> content] \in CenterWriters
  BY DEF CenterWriters
<1>. QED  BY <1>1, <1>2, <1>3

LEMMA QuietIs ==
    ASSUME NEW w \in Updates!Writers
    PROVE  /\ Updates!Quiet(w) => writer[w].step = "idle"
           /\ writer'[w] = writer[w] => (Updates!Quiet(w)' <=> Updates!Quiet(w))
  BY DEF Updates!Quiet, Updates!Idle

\* The check writes the record of its version, that nobody had, or that stays.
LEMMA UpdaterRecord ==
    ASSUME UpdaterInv, Updates!Record
    PROVE  UpdaterInv'
<1>1. PICK v : v = ui.version
  OBVIOUS
<1>2. PICK content : content = [center EXCEPT ![v] = IF @ = "none" THEN "unread" ELSE @]
  OBVIOUS
<1>3. /\ ui.step = "record" /\ Updates!Quiet("check") /\ Updates!Begins("check", content)
      /\ ui' = [ui EXCEPT !.step = "wait"]
      /\ UNCHANGED <<installed, offer, center, temp, toasts, marked, centerLost>>
  BY <1>1, <1>2 DEF Updates!Record, Updates!KeepUpdater
<1>4. v \in Versions /\ ui.existed \in BOOLEAN
      /\ ui \in [step : {"record", "wait"}, version : Versions, existed : BOOLEAN]
  BY <1>1, <1>3, WindowFields DEF UpdaterInv, CenterShape
<1>5. /\ ui' \in Windows /\ ui'.step = "wait" /\ ui'.version = v /\ ui'.existed = ui.existed
  BY <1>1, <1>3, <1>4 DEF Windows
<1>6. center \in Marks
  BY DEF UpdaterInv, CenterShape
<1>7. /\ content \in Marks /\ content[v] # "none"
      /\ \A u \in Versions : (center[u] # "none" => content[u] = center[u])
  BY <1>2, <1>4, <1>6 DEF Marks
<1>8. /\ writer' \in [Updates!Writers -> CenterWriters] /\ crossed' \in BOOLEAN
      /\ writer'["check"].step = "write" /\ writer'["check"].content = content
      /\ writer'["main"] = writer["main"]
      /\ ~crossed' => ~crossed /\ Updates!Quiet("main")
  BY <1>3, <1>7, BeginsFields, WritersAre
<1>9. CenterShape'
  BY <1>3, <1>5, <1>8 DEF UpdaterInv, CenterShape
<1>10. toasts[v] < MaxToasts
  BY <1>1, <1>3 DEF UpdaterInv, UiInv
<1>11. UiInv'
  BY <1>3, <1>5, <1>10 DEF UiInv, Updates!BlockedIsNotTaken
<1>12. CenterInv'
  <2>1. SUFFICES ASSUME ~crossed', ~centerLost'
                 PROVE  CenterInv'
    BY DEF CenterInv
  <2>2. ~crossed /\ ~centerLost /\ Updates!Quiet("main")
    BY <2>1, <1>3, <1>8
  <2>3. writer["main"].step = "idle" /\ writer["check"].step = "idle" /\ Updates!Quiet("main")'
    BY <1>3, <1>8, <2>2, QuietIs, WritersAre
  <2>4. Told(center) /\ Marked(center)
    BY <2>2, <2>3, WritersAre DEF UpdaterInv, CenterInv
  <2>5. Told(content) /\ Marked(content)
    <3>1. marked \subseteq Versions
      BY DEF UpdaterInv, CenterShape
    <3>. QED  BY <3>1, <1>7, <2>4 DEF Told, Marked
  <2>6. ~ui.existed => toasts[v] = 0
    BY <1>1, <1>3, <2>2 DEF UpdaterInv, CenterInv
  <2>. QED  BY <1>3, <1>5, <1>7, <1>8, <2>3, <2>4, <2>5, <2>6, WritersAre DEF CenterInv, Told, Marked
<1>. QED  BY <1>9, <1>11, <1>12 DEF UpdaterInv

\* The main thread writes marks; what the center tells of stays in it.
LEMMA MainBegins ==
    ASSUME UpdaterInv, Updates!Quiet("main"), NEW content \in Marks, Updates!Begins("main", content),
           \A v \in Versions : center[v] # "none" => content[v] # "none",
           UNCHANGED <<installed, offer, ui, center, temp, toasts, marked, centerLost>>
    PROVE  UpdaterInv'
<1>1. /\ writer' \in [Updates!Writers -> CenterWriters] /\ crossed' \in BOOLEAN
      /\ writer'["main"].step = "write" /\ writer'["main"].content = content
      /\ writer'["check"] = writer["check"]
      /\ ~crossed' => ~crossed /\ Updates!Quiet("check")
  BY BeginsFields, WritersAre
<1>2. CenterShape'
  BY <1>1 DEF UpdaterInv, CenterShape
<1>3. Updates!Quiet("check")' <=> Updates!Quiet("check")
  BY <1>1, QuietIs, WritersAre
<1>4. UiInv'
  BY <1>3 DEF UpdaterInv, UiInv, Updates!BlockedIsNotTaken
<1>5. CenterInv'
  <2>1. SUFFICES ASSUME ~crossed', ~centerLost'
                 PROVE  CenterInv'
    BY DEF CenterInv
  <2>2. ~crossed /\ ~centerLost /\ Updates!Quiet("check")
    BY <2>1, <1>1
  <2>3. writer["main"].step = "idle" /\ writer["check"].step = "idle" /\ Updates!Quiet("check")'
    BY <1>3, <2>2, QuietIs, WritersAre
  <2>4. Told(center) /\ Marked(center)
    BY <2>2, <2>3, WritersAre DEF UpdaterInv, CenterInv
  <2>5. Told(content)
    BY <2>4 DEF Told
  <2>6. ui.step \in {"record", "wait"} /\ ~ui.existed => toasts[ui.version] = 0
    BY <2>2 DEF UpdaterInv, CenterInv
  <2>. QED  BY <1>1, <2>3, <2>4, <2>5, <2>6, WritersAre DEF CenterInv, Told, Marked
<1>. QED  BY <1>2, <1>4, <1>5 DEF UpdaterInv

LEMMA UpdaterMark ==
    ASSUME UpdaterInv, NEW v \in Versions, NEW as \in {"read", "unread"}, Updates!Mark(v, as)
    PROVE  UpdaterInv'
<1>1. PICK content : content = [center EXCEPT ![v] = as]
  OBVIOUS
<1>2. /\ Updates!Quiet("main") /\ center[v] # "none" /\ Updates!Begins("main", content)
      /\ UNCHANGED <<installed, offer, ui, center, temp, toasts, marked, centerLost>>
  BY <1>1 DEF Updates!Mark, Updates!KeepUpdater
<1>3. content \in Marks /\ \A u \in Versions : center[u] # "none" => content[u] # "none"
  BY <1>1 DEF UpdaterInv, CenterShape, Marks
<1>. QED  BY <1>2, <1>3, MainBegins

LEMMA UpdaterMarkAll ==
    ASSUME UpdaterInv, Updates!MarkAll
    PROVE  UpdaterInv'
<1>1. PICK content : content = [v \in Versions |-> IF center[v] = "unread" THEN "read" ELSE center[v]]
  OBVIOUS
<1>2. /\ Updates!Quiet("main") /\ Updates!Begins("main", content)
      /\ UNCHANGED <<installed, offer, ui, center, temp, toasts, marked, centerLost>>
  BY <1>1 DEF Updates!MarkAll, Updates!KeepUpdater
<1>3. content \in Marks /\ \A u \in Versions : center[u] # "none" => content[u] # "none"
  BY <1>1 DEF UpdaterInv, CenterShape, Marks
<1>. QED  BY <1>2, <1>3, MainBegins

\* A writer takes its next step.
LEMMA WriterGoes ==
    ASSUME UpdaterInv, NEW w \in Updates!Writers, ~Updates!Quiet(w), NEW step \in {"write", "remove", "rename"},
           writer' = [writer EXCEPT ![w].step = step]
    PROVE  /\ writer' \in [Updates!Writers -> CenterWriters]
           /\ writer'[w].step = step /\ writer'[w].content = writer[w].content
           /\ \A x \in Updates!Writers \ {w} : writer'[x] = writer[x]
           /\ \A x \in Updates!Writers : Updates!Quiet(x)' <=> Updates!Quiet(x)
<1>1. PICK r : r = [writer[w] EXCEPT !.step = step]
  OBVIOUS
<1>2. writer \in [Updates!Writers -> CenterWriters]
  BY DEF UpdaterInv, CenterShape
<1>3. writer[w] \in [step : {"write", "remove", "rename"}, content : Marks]
  BY WriterFields
<1>4. /\ r \in [step : {"write", "remove", "rename"}, content : Marks]
      /\ r.step = step /\ r.content = writer[w].content
  BY <1>1, <1>3
<1>5. writer' = [writer EXCEPT ![w] = r]
  BY <1>1
<1>6. writer'[w] = r /\ \A x \in Updates!Writers \ {w} : writer'[x] = writer[x]
  BY <1>2, <1>5
<1>7. writer' \in [Updates!Writers -> CenterWriters]
  BY <1>2, <1>4, <1>5 DEF CenterWriters
<1>8. r # Updates!Idle
  BY <1>4 DEF Updates!Idle
<1>9. \A x \in Updates!Writers : Updates!Quiet(x)' <=> Updates!Quiet(x)
  BY <1>6, <1>8 DEF Updates!Quiet
<1>. QED  BY <1>4, <1>6, <1>7, <1>9

\* While no two writers overlap, the others write nothing.
LEMMA OthersQuiet ==
    ASSUME UpdaterInv, ~crossed, ~centerLost, NEW w \in Updates!Writers, ~Updates!Quiet(w)
    PROVE  \A x \in Updates!Writers \ {w} : Updates!Quiet(x) /\ writer[x].step = "idle"
<1>1. Updates!Quiet("check") \/ Updates!Quiet("main")
  BY DEF UpdaterInv, CenterInv
<1>. QED  BY <1>1, QuietIs, WritersAre

LEMMA UpdaterWrite ==
    ASSUME UpdaterInv, NEW w \in Updates!Writers, Updates!Write(w)
    PROVE  UpdaterInv'
<1>1. /\ writer[w].step = "write" /\ temp' = writer[w].content /\ writer' = [writer EXCEPT ![w].step = "remove"]
      /\ UNCHANGED <<installed, offer, ui, center, toasts, marked, crossed, centerLost>>
  BY DEF Updates!Write, Updates!KeepUpdater
<1>2. ~Updates!Quiet(w) /\ writer[w].content \in Marks
  BY <1>1, WriterFields
<1>3. /\ writer' \in [Updates!Writers -> CenterWriters]
      /\ writer'[w].step = "remove" /\ writer'[w].content = writer[w].content
      /\ \A x \in Updates!Writers \ {w} : writer'[x] = writer[x]
      /\ \A x \in Updates!Writers : Updates!Quiet(x)' <=> Updates!Quiet(x)
  BY <1>1, <1>2, WriterGoes
<1>4. CenterShape'
  BY <1>1, <1>2, <1>3 DEF UpdaterInv, CenterShape
<1>5. UiInv'
  BY <1>1, <1>3, WritersAre DEF UpdaterInv, UiInv, Updates!BlockedIsNotTaken
<1>6. CenterInv'
  <2>1. SUFFICES ASSUME ~crossed', ~centerLost'
                 PROVE  CenterInv'
    BY DEF CenterInv
  <2>2. ~crossed /\ ~centerLost
    BY <2>1, <1>1
  <2>3. \A x \in Updates!Writers \ {w} : Updates!Quiet(x) /\ writer[x].step = "idle"
    BY <2>2, <1>2, OthersQuiet
  <2>4. \A x \in Updates!Writers : writer[x].step # "rename"
    BY <2>3, <1>1
  <2>5. Told(center) /\ Marked(center)
    BY <2>2, <2>4 DEF UpdaterInv, CenterInv
  <2>6. \A x \in Updates!Writers : writer'[x].content = writer[x].content
    BY <1>3
  <2>7. \A x \in Updates!Writers : writer'[x].step \in {"remove", "rename"} => temp' = writer'[x].content
    BY <1>1, <1>3, <2>3
  <2>8. /\ Updates!Quiet("check") \/ Updates!Quiet("main")
        /\ ~Updates!Quiet("main") => Told(writer["main"].content)
        /\ ~Updates!Quiet("check") =>
            /\ Told(writer["check"].content) /\ Marked(writer["check"].content)
            /\ writer["check"].content[ui.version] # "none"
        /\ ui.step \in {"record", "wait"} /\ ~ui.existed => toasts[ui.version] = 0
    BY <2>2 DEF UpdaterInv, CenterInv
  <2>. QED  BY <1>1, <1>3, <2>5, <2>6, <2>7, <2>8, WritersAre DEF CenterInv, Told, Marked
<1>. QED  BY <1>4, <1>5, <1>6 DEF UpdaterInv

\* For a moment there is no center.
LEMMA UpdaterRemove ==
    ASSUME UpdaterInv, NEW w \in Updates!Writers, Updates!Remove(w)
    PROVE  UpdaterInv'
<1>1. /\ writer[w].step = "remove" /\ center' = Updates!Empty /\ writer' = [writer EXCEPT ![w].step = "rename"]
      /\ UNCHANGED <<installed, offer, ui, temp, toasts, marked, crossed, centerLost>>
  BY DEF Updates!Remove, Updates!KeepUpdater
<1>2. ~Updates!Quiet(w)
  BY <1>1, WriterFields
<1>3. /\ writer' \in [Updates!Writers -> CenterWriters]
      /\ writer'[w].step = "rename" /\ writer'[w].content = writer[w].content
      /\ \A x \in Updates!Writers \ {w} : writer'[x] = writer[x]
      /\ \A x \in Updates!Writers : Updates!Quiet(x)' <=> Updates!Quiet(x)
  BY <1>1, <1>2, WriterGoes
<1>4. center' \in Marks
  BY <1>1 DEF Updates!Empty, Marks
<1>5. CenterShape'
  BY <1>1, <1>3, <1>4 DEF UpdaterInv, CenterShape
<1>6. UiInv'
  BY <1>1, <1>3, WritersAre DEF UpdaterInv, UiInv, Updates!BlockedIsNotTaken
<1>7. CenterInv'
  <2>1. SUFFICES ASSUME ~crossed', ~centerLost'
                 PROVE  CenterInv'
    BY DEF CenterInv
  <2>2. ~crossed /\ ~centerLost
    BY <2>1, <1>1
  <2>3. \A x \in Updates!Writers : writer'[x].content = writer[x].content
    BY <1>3
  <2>4. \A x \in Updates!Writers : writer[x].step \in {"remove", "rename"} => temp = writer[x].content
    BY <2>2 DEF UpdaterInv, CenterInv
  <2>5. \A x \in Updates!Writers : writer'[x].step \in {"remove", "rename"} => temp' = writer'[x].content
    BY <1>1, <1>3, <2>4
  <2>6. /\ Updates!Quiet("check") \/ Updates!Quiet("main")
        /\ ~Updates!Quiet("main") => Told(writer["main"].content)
        /\ ~Updates!Quiet("check") =>
            /\ Told(writer["check"].content) /\ Marked(writer["check"].content)
            /\ writer["check"].content[ui.version] # "none"
        /\ ui.step \in {"record", "wait"} /\ ~ui.existed => toasts[ui.version] = 0
    BY <2>2 DEF UpdaterInv, CenterInv
  <2>7. ~\A x \in Updates!Writers : writer'[x].step # "rename"
    BY <1>3
  <2>. QED  BY <1>1, <1>3, <2>3, <2>5, <2>6, <2>7, WritersAre DEF CenterInv, Told, Marked
<1>. QED  BY <1>5, <1>6, <1>7 DEF UpdaterInv

LEMMA WriterIdles ==
    ASSUME UpdaterInv, NEW w \in Updates!Writers, writer' = [writer EXCEPT ![w] = Updates!Idle]
    PROVE  /\ writer' \in [Updates!Writers -> CenterWriters] /\ Updates!Quiet(w)'
           /\ \A x \in Updates!Writers \ {w} : writer'[x] = writer[x] /\ (Updates!Quiet(x)' <=> Updates!Quiet(x))
<1>1. writer \in [Updates!Writers -> CenterWriters]
  BY DEF UpdaterInv, CenterShape
<1>2. writer' \in [Updates!Writers -> CenterWriters]
  BY <1>1 DEF CenterWriters
<1>. QED  BY <1>1, <1>2 DEF Updates!Quiet

\* A writer ends: the center is what it wrote, or what it was.
LEMMA MainEnds ==
    ASSUME UpdaterInv, ~Updates!Quiet("main"), NEW kept \in BOOLEAN, Updates!Report("main", kept),
           writer' = [writer EXCEPT !["main"] = Updates!Idle],
           center' \in Marks, temp' \in {Updates!NoCenter} \cup Marks, UNCHANGED <<installed, crossed>>,
           centerLost' \in BOOLEAN, centerLost => centerLost',
           ~crossed /\ ~centerLost' =>
                IF kept THEN center' = writer["main"].content
                ELSE center' = center /\ Told(center) /\ Marked(center)
    PROVE  UpdaterInv'
<1>1. /\ marked' = IF kept THEN {v \in Versions : writer["main"].content[v] = "read"} ELSE marked
      /\ UNCHANGED <<ui, offer, toasts>>
  BY DEF Updates!Report
<1>2. /\ writer' \in [Updates!Writers -> CenterWriters] /\ Updates!Quiet("main")'
      /\ writer'["check"] = writer["check"] /\ (Updates!Quiet("check")' <=> Updates!Quiet("check"))
  BY WriterIdles, WritersAre
<1>3. CenterShape'
  BY <1>1, <1>2 DEF UpdaterInv, CenterShape
<1>4. UiInv'
  BY <1>1, <1>2 DEF UpdaterInv, UiInv, Updates!BlockedIsNotTaken
<1>5. CenterInv'
  <2>1. SUFFICES ASSUME ~crossed', ~centerLost'
                 PROVE  CenterInv'
    BY DEF CenterInv
  <2>2. ~crossed /\ ~centerLost
    BY <2>1
  <2>3. Updates!Quiet("check") /\ writer["check"].step = "idle"
    BY <2>2, OthersQuiet, WritersAre
  <2>4. Told(writer["main"].content) /\ (ui.step \in {"record", "wait"} /\ ~ui.existed => toasts[ui.version] = 0)
    BY <2>2 DEF UpdaterInv, CenterInv
  <2>5. /\ \A v \in Versions : toasts'[v] <= 1 /\ (toasts'[v] = 1 => center'[v] # "none")
        /\ \A v \in marked' : center'[v] = "read"
    BY <2>1, <2>2, <2>4, <1>1 DEF Told, Marked
  <2>6. writer'["main"].step = "idle" /\ writer'["check"].step = "idle" /\ Updates!Quiet("check")'
    BY <1>2, <2>3 DEF Updates!Quiet, Updates!Idle
  <2>. QED  BY <1>1, <1>2, <2>4, <2>5, <2>6, WritersAre DEF CenterInv, Told, Marked
<1>. QED  BY <1>3, <1>4, <1>5 DEF UpdaterInv

LEMMA CheckEnds ==
    ASSUME UpdaterInv, ~Updates!Quiet("check"), NEW kept \in BOOLEAN, Updates!Report("check", kept),
           writer' = [writer EXCEPT !["check"] = Updates!Idle],
           center' \in Marks, temp' \in {Updates!NoCenter} \cup Marks, UNCHANGED <<installed, crossed>>,
           centerLost' \in BOOLEAN, centerLost => centerLost',
           ~crossed /\ ~centerLost' =>
                IF kept THEN center' = writer["check"].content
                ELSE center' = center /\ Told(center) /\ Marked(center)
    PROVE  UpdaterInv'
<1>1. PICK v : v = ui.version
  OBVIOUS
<1>2. /\ ui' = Updates!Idle /\ offer' = v /\ UNCHANGED marked
      /\ toasts' = IF kept /\ ~ui.existed THEN [toasts EXCEPT ![v] = @ + 1] ELSE toasts
  BY <1>1 DEF Updates!Report
<1>3. ui.step = "wait" /\ toasts[v] < MaxToasts
  BY <1>1 DEF UpdaterInv, UiInv
<1>4. v \in Versions
  BY <1>1, <1>3, WindowFields DEF UpdaterInv, CenterShape
<1>5. toasts \in [Versions -> 0..MaxToasts] /\ toasts[v] \in Nat /\ toasts[v] + 1 \in 0..MaxToasts
  <2>1. toasts \in [Versions -> 0..MaxToasts]
    BY DEF UpdaterInv, CenterShape
  <2>2. toasts[v] \in 0..MaxToasts
    BY <2>1, <1>4
  <2>. QED  BY <2>1, <2>2, <1>3, UpdatesConstants
<1>6. toasts' \in [Versions -> 0..MaxToasts]
  BY <1>2, <1>4, <1>5
<1>7. /\ writer' \in [Updates!Writers -> CenterWriters] /\ Updates!Quiet("check")'
      /\ writer'["main"] = writer["main"] /\ (Updates!Quiet("main")' <=> Updates!Quiet("main"))
  BY WriterIdles, WritersAre
<1>8. ui' \in Windows /\ ui'.step = "idle"
  BY <1>2 DEF Windows, Updates!Idle
<1>9. CenterShape'
  BY <1>2, <1>4, <1>6, <1>7, <1>8 DEF UpdaterInv, CenterShape
<1>10. UiInv'
  BY <1>7, <1>8 DEF UiInv, Updates!BlockedIsNotTaken
<1>11. CenterInv'
  <2>1. SUFFICES ASSUME ~crossed', ~centerLost'
                 PROVE  CenterInv'
    BY DEF CenterInv
  <2>2. ~crossed /\ ~centerLost
    BY <2>1
  <2>3. Updates!Quiet("main") /\ writer["main"].step = "idle"
    BY <2>2, OthersQuiet, WritersAre
  <2>4. /\ Told(writer["check"].content) /\ Marked(writer["check"].content)
        /\ writer["check"].content[v] # "none"
        /\ ~ui.existed => toasts[v] = 0
    BY <1>1, <1>3, <2>2 DEF UpdaterInv, CenterInv
  <2>5. Told(center') /\ Marked(center')
    BY <2>1, <2>2, <2>4 DEF Told, Marked
  <2>6. kept = TRUE => center'[v] # "none"
    BY <2>1, <2>2, <2>4
  <2>7. \A u \in Versions : toasts'[u] = toasts[u] \/ (u = v /\ toasts'[u] = 1 /\ kept = TRUE)
    <3>1. kept /\ ~ui.existed => toasts' = [toasts EXCEPT ![v] = 1]
      <4>1. SUFFICES ASSUME kept /\ ~ui.existed
                     PROVE  toasts' = [toasts EXCEPT ![v] = 1]
        OBVIOUS
      <4>2. toasts' = [toasts EXCEPT ![v] = toasts[v] + 1]
        BY <1>2, <4>1
      <4>3. toasts[v] = 0
        BY <2>4, <4>1
      <4>4. toasts[v] + 1 = 1
        BY <4>3
      <4>. QED  BY <4>2, <4>4
    <3>2. ~(kept /\ ~ui.existed) => toasts' = toasts
      BY <1>2
    <3>3. CASE kept /\ ~ui.existed
      BY <3>1, <3>3, <1>4, <1>5
    <3>4. CASE ~(kept /\ ~ui.existed)
      BY <3>2, <3>4
    <3>. QED  BY <3>3, <3>4
  <2>8. \A u \in Versions : toasts'[u] <= 1 /\ (toasts'[u] = 1 => center'[u] # "none")
    BY <2>5, <2>6, <2>7 DEF Told
  <2>9. \A u \in marked' : center'[u] = "read"
    BY <2>5, <1>2 DEF Marked
  <2>10. writer'["main"].step = "idle" /\ writer'["check"].step = "idle" /\ Updates!Quiet("main")'
    BY <1>7, <2>3 DEF Updates!Quiet, Updates!Idle
  <2>. QED  BY <1>7, <1>8, <2>8, <2>9, <2>10, WritersAre DEF CenterInv, Told, Marked
<1>. QED  BY <1>9, <1>10, <1>11 DEF UpdaterInv

\* The temporary file is there, unless there is nothing to write.
LEMMA UpdaterRename ==
    ASSUME UpdaterInv, NEW w \in Updates!Writers, Updates!Rename(w)
    PROVE  UpdaterInv'
<1>1. PICK kept \in BOOLEAN : kept = (temp # Updates!NoCenter)
  OBVIOUS
<1>2. /\ writer[w].step = "rename" /\ writer' = [writer EXCEPT ![w] = Updates!Idle] /\ Updates!Report(w, kept)
      /\ IF kept THEN center' = temp /\ temp' = Updates!NoCenter ELSE UNCHANGED <<center, temp>>
      /\ UNCHANGED <<installed, crossed, centerLost>>
  BY <1>1 DEF Updates!Rename
<1>3. ~Updates!Quiet(w) /\ writer[w].content \in Marks
  BY <1>2, WriterFields
<1>4. center \in Marks /\ temp \in {Updates!NoCenter} \cup Marks /\ centerLost \in BOOLEAN /\ marked \subseteq Versions
  BY DEF UpdaterInv, CenterShape
<1>5. center' \in Marks /\ temp' \in {Updates!NoCenter} \cup Marks
  BY <1>1, <1>2, <1>4
<1>6. ASSUME ~crossed, ~centerLost'
      PROVE  IF kept THEN center' = writer[w].content ELSE center' = center /\ Told(center) /\ Marked(center)
  <2>1. temp = writer[w].content
    BY <1>2, <1>6 DEF UpdaterInv, CenterInv
  <2>2. CASE kept
    BY <1>2, <2>1, <2>2
  <2>3. CASE ~kept
    <3>1. temp = Updates!NoCenter /\ temp \in Marks
      BY <1>1, <1>3, <2>1, <2>3
    <3>2. DOMAIN temp = Versions /\ DOMAIN temp = {}
      BY <3>1 DEF Marks, Updates!NoCenter
    <3>3. Versions = {}
      BY <3>2
    <3>. QED  BY <1>2, <1>4, <2>3, <3>3 DEF Told, Marked
  <2>. QED  BY <2>2, <2>3
<1>7. CASE w = "main"
  BY <1>2, <1>3, <1>4, <1>5, <1>6, <1>7, MainEnds
<1>8. CASE w = "check"
  BY <1>2, <1>3, <1>4, <1>5, <1>6, <1>8, CheckEnds
<1>. QED  BY <1>7, <1>8, WritersAre

LEMMA WriterFailsKeeps ==
    ASSUME DocumentsInv, UpdaterInv, NEW w \in Updates!Writers, Updates!WriterFails(w)
    PROVE  DocumentsInv' /\ UpdaterInv'
<1>1. /\ ~Updates!Quiet(w) /\ troubles < MaxBroadcastTrouble /\ troubles' = troubles + 1
      /\ writer' = [writer EXCEPT ![w] = Updates!Idle] /\ Updates!Report(w, FALSE)
      /\ centerLost' = (centerLost \/ writer[w].step = "rename")
      /\ UNCHANGED <<now, pass, center, temp, installed, crossed>>
      /\ UNCHANGED <<online, accepted, blocks, notices, shown, replies, committed, replaced, announced, losses>>
  BY DEF Updates!WriterFails, Updates!KeepStores, Updates!KeepWindow, Updates!KeepGhosts
<1>2. troubles' \in 0..MaxBroadcastTrouble
  BY <1>1, UpdatesConstants DEF DocumentsInv, DocumentsShape
<1>3. DocumentsInv'
  BY <1>1, <1>2, DocumentsStay
<1>4. center \in Marks /\ temp \in {Updates!NoCenter} \cup Marks /\ centerLost \in BOOLEAN
  BY DEF UpdaterInv, CenterShape
<1>5. centerLost' \in BOOLEAN /\ (centerLost => centerLost')
  BY <1>1, <1>4
<1>6. ASSUME ~crossed, ~centerLost'
      PROVE  Told(center) /\ Marked(center)
  <2>1. ~centerLost /\ writer[w].step # "rename"
    BY <1>1, <1>6
  <2>2. \A x \in Updates!Writers \ {w} : writer[x].step = "idle"
    BY <1>1, <1>6, <2>1, OthersQuiet
  <2>3. \A x \in Updates!Writers : writer[x].step # "rename"
    BY <2>1, <2>2
  <2>. QED  BY <1>6, <2>1, <2>3 DEF UpdaterInv, CenterInv
<1>7. PICK kept \in BOOLEAN : kept = FALSE
  OBVIOUS
<1>8. UpdaterInv'
  <2>1. CASE w = "main"
    BY <1>1, <1>4, <1>5, <1>6, <1>7, <2>1, MainEnds
  <2>2. CASE w = "check"
    BY <1>1, <1>4, <1>5, <1>6, <1>7, <2>2, CheckEnds
  <2>. QED  BY <2>1, <2>2, WritersAre
<1>. QED  BY <1>3, <1>8

------------------------------------------------------------------------------------
(* The theorems.                                                                   *)

LEMMA UpdatesInitially ==
    ASSUME Updates!UpdatesInit
    PROVE  UpdatesInv
<1>1. /\ now = 1 /\ accepted = 0 /\ blocks = {} /\ notices = {} /\ pass = Updates!NoPass
      /\ shown = {} /\ replies = {[notices |-> {}, current |-> TRUE]} /\ online \in BOOLEAN
      /\ troubles = 0 /\ committed = {} /\ replaced = [i \in Updates!Ids |-> 0] /\ losses = {}
      /\ announced = [i \in Updates!NoticeIds |-> 0]
  BY DEF Updates!UpdatesInit, Updates!BroadcastInit
<1>2. /\ installed = 0 /\ offer = 0 /\ ui = Updates!Idle
      /\ center = Updates!Empty /\ temp = Updates!NoCenter /\ writer = [w \in Updates!Writers |-> Updates!Idle]
      /\ toasts = [v \in Versions |-> 0] /\ marked = {} /\ crossed = FALSE /\ centerLost = FALSE
  BY DEF Updates!UpdatesInit
<1>3. /\ [notices |-> {}, current |-> TRUE] \in Reads /\ now \in 1..MaxNow
      /\ troubles \in 0..MaxBroadcastTrouble
  BY <1>1, UpdatesConstants DEF Reads
<1>4. replaced \in [Updates!Ids -> {0} \cup Seqs] /\ announced \in [Updates!NoticeIds -> {0} \cup Seqs]
  BY <1>1
<1>5. DocumentsShape
  BY <1>1, <1>3, <1>4 DEF DocumentsShape
<1>6. PassInv /\ Updates!AcceptedIsLatest
  BY <1>1 DEF PassInv, Updates!AcceptedIsLatest
<1>7. StoreInv
  <2>1. ASSUME NEW d \in Documents, NEW b \in d.blocks
        PROVE  replaced[b.id] # d.seq
    BY <1>1, BlockFields, UpdatesConstants
  <2>. QED  BY <2>1 DEF StoreInv
<1>15. NoticesInv /\ SaidInv
  <2>1. ASSUME NEW d \in Documents, NEW n \in Ours(d)
        PROVE  announced[n.id] # d.seq
    BY <1>1, NoticeFields, UpdatesConstants DEF Ours
  <2>. QED  BY <2>1, <1>1 DEF NoticesInv, NoticePassInv, NoticeStoreInv, SaidInv
<1>8. WindowInv
  <2>1. IsCurrent({})
    BY <1>1 DEF IsCurrent
  <2>. QED  BY <2>1, <1>1 DEF WindowInv
<1>9. ui \in Windows /\ ui.step = "idle"
  BY <1>2 DEF Windows, Updates!Idle
<1>10. writer \in [Updates!Writers -> CenterWriters] /\ \A w \in Updates!Writers : writer[w].step = "idle" /\ Updates!Quiet(w)
  BY <1>2 DEF CenterWriters, Updates!Quiet, Updates!Idle
<1>11. toasts \in [Versions -> 0..MaxToasts] /\ center \in Marks
  BY <1>2, UpdatesConstants DEF Marks, Updates!Empty
<1>12. CenterShape
  BY <1>2, <1>9, <1>10, <1>11 DEF CenterShape
<1>13. UiInv
  BY <1>9, <1>10, WritersAre DEF UiInv, Updates!BlockedIsNotTaken
<1>14. CenterInv
  <2>1. Told(center) /\ Marked(center)
    BY <1>2 DEF Told, Marked
  <2>. QED  BY <2>1, <1>9, <1>10, WritersAre DEF CenterInv
<1>. QED  BY <1>5, <1>6, <1>7, <1>8, <1>12, <1>13, <1>14, <1>15 DEF UpdatesInv, DocumentsInv, UpdaterInv

LEMMA DocumentsKept ==
    ASSUME DocumentsInv, Updates!BroadcastNext
    PROVE  DocumentsInv'
<1>1. CASE (\E d \in Documents : Updates!Fetch(d)) \/ Updates!Refuse \/ Updates!RemoveBlocks \/ Updates!RenameBlocks
  BY <1>1, DocumentsFetch, DocumentsRefuse, DocumentsRemoveBlocks, DocumentsRenameBlocks
<1>2. CASE Updates!KeepNotices \/ Updates!RemoveNotices \/ Updates!RenameNotices
  BY <1>2, DocumentsKeepNotices, DocumentsRemoveNotices, DocumentsRenameNotices
<1>3. CASE Updates!RemoveAccepted \/ Updates!RenameAccepted \/ Updates!PassFails
  BY <1>3, DocumentsRemoveAccepted, DocumentsRenameAccepted, DocumentsPassFails
<1>4. CASE Updates!Listen \/ (\E r \in replies : Updates!Deliver(r)) \/ Updates!Tick
  BY <1>4, DocumentsListen, DocumentsDeliver, DocumentsTick
<1>. QED  BY <1>1, <1>2, <1>3, <1>4 DEF Updates!BroadcastNext

LEMMA UpdatesKept ==
    ASSUME UpdatesInv, Updates!UpdatesNext
    PROVE  UpdatesInv'
<1>1. DocumentsInv /\ UpdaterInv
  BY DEF UpdatesInv
<1>2. CASE Updates!BroadcastNext /\ UNCHANGED Updates!updaterVars
  BY <1>1, <1>2, DocumentsKept, UpdaterStays DEF UpdatesInv
<1>3. CASE Updates!Check \/ Updates!Install \/ Updates!Ends
  <2>1. UNCHANGED Updates!broadcastVars
    BY <1>3 DEF Updates!Check, Updates!Install, Updates!Ends
  <2>. QED  BY <1>1, <1>3, <2>1, BroadcastStays, UpdaterCheck, UpdaterInstall, UpdaterEnds DEF UpdatesInv
<1>4. CASE Updates!Installed \/ Updates!Dies
  BY <1>1, <1>4, InstalledKeeps, ProcessDiesKeeps DEF UpdatesInv
<1>5. CASE Updates!List \/ Updates!Record \/ Updates!MarkAll
  <2>1. UNCHANGED Updates!broadcastVars
    BY <1>5 DEF Updates!List, Updates!Record, Updates!MarkAll, Updates!KeepUpdater
  <2>. QED  BY <1>1, <1>5, <2>1, BroadcastStays, UpdaterList, UpdaterRecord, UpdaterMarkAll DEF UpdatesInv
<1>6. ASSUME NEW v \in Versions,
             Updates!Checked(v) \/ Updates!Rechecked(v) \/ Updates!Mark(v, "read") \/ Updates!Mark(v, "unread")
      PROVE  UpdatesInv'
  <2>1. UNCHANGED Updates!broadcastVars
    BY <1>6 DEF Updates!Checked, Updates!Rechecked, Updates!Mark, Updates!KeepUpdater
  <2>2. UpdaterInv'
    BY <1>1, <1>6, UpdaterChecked, UpdaterRechecked, UpdaterMark
  <2>. QED  BY <1>1, <2>1, <2>2, BroadcastStays DEF UpdatesInv
<1>7. ASSUME NEW w \in Updates!Writers, Updates!Write(w) \/ Updates!Remove(w) \/ Updates!Rename(w)
      PROVE  UpdatesInv'
  <2>1. UNCHANGED Updates!broadcastVars
    BY <1>7 DEF Updates!Write, Updates!Remove, Updates!Rename, Updates!KeepUpdater
  <2>2. UpdaterInv'
    BY <1>1, <1>7, UpdaterWrite, UpdaterRemove, UpdaterRename
  <2>. QED  BY <1>1, <2>1, <2>2, BroadcastStays DEF UpdatesInv
<1>8. ASSUME NEW w \in Updates!Writers, Updates!WriterFails(w)
      PROVE  UpdatesInv'
  BY <1>1, <1>8, WriterFailsKeeps DEF UpdatesInv
<1>. QED  BY <1>2, <1>3, <1>4, <1>5, <1>6, <1>7, <1>8 DEF Updates!UpdatesNext

LEMMA UpdatesIdle ==
    ASSUME UpdatesInv, UNCHANGED updateVars
    PROVE  UpdatesInv'
<1>1. UNCHANGED Updates!broadcastVars /\ UNCHANGED Updates!updaterVars
  BY DEF updateVars, Updates!broadcastVars, Updates!updaterVars
<1>. QED  BY <1>1, BroadcastStays, UpdaterStays DEF UpdatesInv

\* Whatever documents come, in whatever order, and wherever the thread, a check or the
\* process ends, a pass writes what its document asks for, and a writer of the center what
\* the center held (operator_broadcast_pipeline.rs, notification_center.rs).
THEOREM UpdatesInvariantHolds == Spec => []UpdatesInv
<1>1. Init => UpdatesInv
  BY UpdatesInitially DEF Init
<1>2. UpdatesInv /\ [Next]_vars => UpdatesInv'
  <2>1. SUFFICES ASSUME UpdatesInv, [Next]_vars PROVE UpdatesInv'
    OBVIOUS
  <2>2. CASE UpdatesStep
    BY <2>1, <2>2, UpdatesKept DEF UpdatesStep
  <2>3. CASE UNCHANGED updateVars
    BY <2>1, <2>3, UpdatesIdle
  <2>. QED  BY <2>1, <2>2, <2>3
       DEF Next, ProjectsStep, ConnectionStep, ReviewStep, KnowledgeStep, SessionsStep, AgentStep, vars
<1>. QED  BY <1>1, <1>2, PTL DEF Spec

\* Once the sequence of a document is committed, each of its valid blocks and notices is in
\* its store, or a later document has written that id since; no document follows a later
\* one; and no version that an accepted document blocks is offered or installed: for any
\* documents, versions and bounds, unless a store was lost in its replacement
\* (operator_broadcast_pipeline.rs, updater.rs).
THEOREM DocumentsHold == Spec => []DocumentsTakeEffect
<1>1. UpdatesInv => DocumentsTakeEffect
  <2>1. SUFFICES ASSUME UpdatesInv
        PROVE  Updates!AcceptedTakesEffect /\ Updates!AcceptedIsLatest /\ Updates!BlockedIsNotTaken
    BY DEF DocumentsTakeEffect, Of
  <2>2. Updates!AcceptedTakesEffect
    <3>1. SUFFICES ASSUME NEW d \in Documents, d.seq \in committed
                   PROVE  /\ \A b \in d.blocks :
                                now < Updates!AsBlock(d, b).until /\ ~Updates!Overruled(d, replaced[b.id]) =>
                                    Updates!AsBlock(d, b) \in blocks \/ pass.step = "renameBlocks" \/ "blocks" \in losses
                          /\ \A n \in Ours(d) :
                                now < Updates!AsNotice(d, n).until /\ ~Updates!Overruled(d, announced[n.id]) =>
                                    \/ Updates!AsNotice(d, n) \in notices
                                    \/ pass.step = "renameNotices" \/ "notices" \in losses
      BY DEF Updates!AcceptedTakesEffect, Ours
    <3>2. DocumentsInv /\ StoreInv /\ NoticeStoreInv
      BY <2>1 DEF UpdatesInv, DocumentsInv, NoticesInv
    <3>. QED  BY <3>1, <3>2, LastWord DEF StoreInv, NoticeStoreInv
  <2>. QED  BY <2>1, <2>2 DEF UpdatesInv, DocumentsInv, UpdaterInv, UiInv
<1>. QED  BY <1>1, UpdatesInvariantHolds, PTL

\* Whatever order the window's reads are answered in, it shows the notices of the store;
\* and the center keeps what the user was told and marked, unless two writers overlapped
\* or one was cut short (operator-live-notice.ts, notification_center.rs).
THEOREM NoticesHold == Spec => []NoticesAreKept
<1>1. UpdatesInv => NoticesAreKept
  <2>1. SUFFICES ASSUME UpdatesInv
        PROVE  Updates!ShownIsCurrent /\ Updates!CenterKeepsRecords
    BY DEF NoticesAreKept, Of
  <2>2. Updates!ShownIsCurrent
    BY <2>1 DEF UpdatesInv, DocumentsInv, WindowInv, IsCurrent, Updates!ShownIsCurrent
  <2>3. Updates!CenterKeepsRecords
    <3>1. SUFFICES ASSUME ~crossed, ~centerLost, \A w \in Updates!Writers : Updates!Quiet(w)
                   PROVE  Told(center) /\ Marked(center)
      <4>1. marked \subseteq Versions
        BY <2>1 DEF UpdatesInv, UpdaterInv, CenterShape
      <4>. QED  BY <4>1 DEF Updates!CenterKeepsRecords, Told, Marked
    <3>2. \A w \in Updates!Writers : writer[w].step # "rename"
      BY <3>1, QuietIs
    <3>. QED  BY <2>1, <3>1, <3>2 DEF UpdatesInv, UpdaterInv, CenterInv
  <2>. QED  BY <2>2, <2>3
<1>. QED  BY <1>1, UpdatesInvariantHolds, PTL
====================================================================================
