-------------------------- MODULE HomepageSync_proofs --------------------------
(***************************************************************************)
(* Safety of `mcrctl homepage sync` beside any number of bootstrap runs of *)
(* the same project, for every project and every bound: Caddy never serves *)
(* a deleted directory, and neither command answers wrongly because of the *)
(* other one.  What bootstrap runs remember is taken from the proofs about *)
(* them alone; that no foreign volume is used is not, for a sync creates   *)
(* Caddy without looking at its volumes.                                   *)
(***************************************************************************)
EXTENDS HomepageSync, BootstrapApply_proofs

(* What a sync knows of its directories: its copy is new until it becomes  *)
(* public and stays public from then on, it is never the directory that    *)
(* was moved aside, and a Caddy started since serves it.                   *)
SyncInv ==
  /\ spc \in {"idle", "clone"} => staged = None /\ previous = None
  /\ spc \notin {"idle", "clone"} => staged \in Tree /\ staged # previous
  /\ spc \in {"look", "aside"} => public # staged /\ previous = None
  /\ spc = "install" => public \notin Tree
  /\ spc \in {"render", "remove", "create", "clean"} => public = staged
  /\ spc \in {"create", "clean"} => served \in {None, staged}

HInv == HomepageTypeOK /\ SeenManaged /\ SeenAll /\ Inspections /\ SyncInv /\ ServedIsOnDisk

(* Directories are not the markers that stand for none.                    *)
LEMMA Trees ==
  /\ Empty \notin Tree /\ None \notin Tree /\ Empty # None
  /\ Caddy \in Service
  BY HomepageAssumption, BootstrapAssumption DEF Tree, Empty

(* The types of the parts of the state.                                    *)
DirectoryTypes ==
  /\ public \in Tree \cup {Empty, None}
  /\ leftover \in SUBSET Tree
  /\ served \in Tree \cup {Empty, None}
  /\ staged \in Tree \cup {None}
  /\ previous \in Tree \cup {Empty, None}

SyncTypes ==
  /\ spc \in {"idle", "clone", "look", "aside", "install", "render", "remove",
              "create", "clean"}
  /\ answer \in {"none", "again", "ok", "failed", "stopped"}
  /\ begun \in 0..MaxSyncs

(* HomepageTypeOK in these parts, before and after a step.                 *)
LEMMA HomepageTypes == HomepageTypeOK <=> TypeOK /\ DirectoryTypes /\ SyncTypes
  BY DEF HomepageTypeOK, DirectoryTypes, SyncTypes

LEMMA HomepageTypesNext == HomepageTypeOK' <=> TypeOK' /\ DirectoryTypes' /\ SyncTypes'
  BY DEF HomepageTypeOK, DirectoryTypes, SyncTypes

(* What the steps of a sync change and rely on.                            *)
Directories == DirectoryTypes /\ SyncInv /\ ServedIsOnDisk

(* A Caddy that starts, stops or stays leaves the sync's directories alone; *)
(* what it then serves is public.                                          *)
LEMMA CaddyKeeps ==
  ASSUME Directories, SyncTypes, UNCHANGED <<leftover, spc, staged, previous>>,
         \/ UNCHANGED <<public, served>>
         \/ served' = None /\ UNCHANGED public
         \/ MountPublic
  PROVE  Directories'
<1>1. CASE UNCHANGED <<public, served>>
  BY <1>1 DEF Directories, DirectoryTypes, SyncInv, ServedIsOnDisk, OnDisk
<1>2. CASE served' = None /\ UNCHANGED public
  BY <1>2 DEF Directories, DirectoryTypes, SyncInv, ServedIsOnDisk, OnDisk
<1>3. CASE MountPublic
  <2>1. /\ public' \in Tree \cup {Empty} /\ served' = public'
        /\ public \in Tree => public' = public
        /\ public \notin Tree => public' = Empty
    BY <1>3, Trees DEF MountPublic, Directories, DirectoryTypes
  <2>2. DirectoryTypes' /\ ServedIsOnDisk'
    BY <2>1 DEF Directories, DirectoryTypes, ServedIsOnDisk, OnDisk
  <2>3. SyncInv'
    BY <2>1, Trees DEF Directories, SyncInv, SyncTypes
  <2> QED BY <2>2, <2>3 DEF Directories
<1> QED BY <1>1, <1>2, <1>3

(* The end of a sync, however it ends: it holds no directory any more.     *)
LEMMA EndKeeps ==
  ASSUME Directories, spc' = "idle", staged' = None, previous' = None,
         UNCHANGED <<public, served>>,
         leftover' \subseteq leftover, served \in leftover => served \in leftover' \cup {public}
  PROVE  Directories'
  BY Trees DEF Directories, DirectoryTypes, SyncInv, ServedIsOnDisk, OnDisk

(* Each step of a sync.                                                    *)
LEMMA StageKeeps == ASSUME Directories, Stage PROVE Directories'
<1>1. PICK t \in Fresh :
        /\ staged' = t /\ leftover' = (leftover \ Fresh) \cup {t}
        /\ spc = "clone" /\ spc' = "look" /\ UNCHANGED <<public, served, previous>>
  BY DEF Stage, GotoS
<1>2. t \in Tree /\ t # public /\ t # previous /\ previous = None
  BY <1>1 DEF Fresh, Directories, SyncInv
<1>3. DirectoryTypes'
  BY <1>1, <1>2 DEF Directories, DirectoryTypes
<1>4. ServedIsOnDisk'
  BY <1>1 DEF Directories, DirectoryTypes, ServedIsOnDisk, OnDisk, Fresh
<1>5. SyncInv'
  BY <1>1, <1>2 DEF SyncInv
<1> QED BY <1>3, <1>4, <1>5 DEF Directories

(* The two renames of a sync.                                              *)
LEMMA MoveKeeps ==
  ASSUME Directories, Look \/ MoveAside \/ Install PROVE Directories'
<1>1. CASE Look
  BY <1>1, Trees DEF Look, GotoS, Directories, DirectoryTypes, SyncInv, ServedIsOnDisk, OnDisk
<1>2. CASE MoveAside
  <2>1. /\ spc = "aside" /\ spc' = "install" /\ previous' = public /\ public' = None
        /\ leftover' = leftover \cup ({public} \cap Tree) /\ UNCHANGED <<served, staged>>
    BY <1>2 DEF MoveAside, GotoS
  <2>2. DirectoryTypes' /\ ServedIsOnDisk'
    BY <2>1, Trees DEF Directories, DirectoryTypes, ServedIsOnDisk, OnDisk
  <2>3. SyncInv'
    BY <2>1, Trees DEF Directories, SyncInv
  <2> QED BY <2>2, <2>3 DEF Directories
<1>3. CASE Install
  <2>1. /\ spc = "install" /\ spc' = "render" /\ public' = staged
        /\ leftover' = leftover \ {staged} /\ UNCHANGED <<served, staged, previous>>
        /\ staged \in Tree /\ staged # previous /\ public \notin Tree
    BY <1>3 DEF Install, GotoS, Directories, SyncInv
  <2>2. DirectoryTypes' /\ ServedIsOnDisk'
    BY <2>1 DEF Directories, DirectoryTypes, ServedIsOnDisk, OnDisk
  <2>3. SyncInv'
    BY <2>1 DEF SyncInv
  <2> QED BY <2>2, <2>3 DEF Directories
<1> QED BY <1>1, <1>2, <1>3

(* Caddy goes, and comes back with what is public.                         *)
LEMMA RecreateKeeps ==
  ASSUME Directories, RenderProject \/ RemoveCaddy \/ CreateCaddy PROVE Directories'
<1>1. CASE RenderProject
  BY <1>1 DEF RenderProject, GotoS, Directories, DirectoryTypes, SyncInv, ServedIsOnDisk, OnDisk
<1>2. CASE RemoveCaddy
  BY <1>2 DEF RemoveCaddy, GotoS, Directories, DirectoryTypes, SyncInv, ServedIsOnDisk, OnDisk
<1>3. CASE CreateCaddy
  <2>1. /\ spc = "create" /\ spc' = "clean" /\ public = staged /\ staged \in Tree
        /\ served' = staged /\ public' = staged /\ staged # previous
        /\ UNCHANGED <<leftover, staged, previous>>
    BY <1>3, Trees DEF CreateCaddy, GotoS, MountPublic, Directories, SyncInv
  <2> QED BY <2>1 DEF Directories, DirectoryTypes, SyncInv, ServedIsOnDisk, OnDisk
<1> QED BY <1>1, <1>2, <1>3

(* The last step removes what was moved aside, which nobody serves.        *)
LEMMA FinishKeeps ==
  ASSUME Directories, SyncTypes, BeginSync \/ Clean \/ SyncFails \/ KillSync
  PROVE  Directories'
<1>1. CASE BeginSync
  BY <1>1 DEF BeginSync, GotoS, Directories, DirectoryTypes, SyncInv, ServedIsOnDisk, OnDisk
<1>2. CASE Clean
  <2>1. served \in {None, staged} /\ public = staged /\ staged # previous /\ staged \in Tree
    BY <1>2 DEF Clean, Directories, SyncInv
  <2> QED BY <1>2, <2>1, EndKeeps, Trees DEF Clean, ReturnS, Directories, DirectoryTypes
<1>3. CASE SyncFails \/ KillSync
  BY <1>3, EndKeeps DEF SyncFails, KillSync, ReturnS
<1> QED BY <1>1, <1>2, <1>3

(* A sync touches the render, Caddy's container and the faults only: what  *)
(* the bootstrap runs remember of the volumes stays true, and a Caddy that *)
(* they inspected becomes stale for them.                                  *)
LEMMA SyncLeavesRuns ==
  ASSUME Remembered, SyncStep, Observe
  PROVE  Remembered' /\ UNCHANGED outcome
<1>1. TypeOK
  BY DEF Remembered
<1>2. /\ UNCHANGED <<lock, volume, pc, mine, seen, using, outcome>>
      /\ rendered' \in {rendered, lock} /\ (UNCHANGED faults \/ Fault)
  BY DEF SyncStep, SyncWork, BeginSync, Stage, Look, MoveAside, Install, RenderProject,
         RemoveCaddy, CreateCaddy, Clean, SyncFails, KillSync, bvars, bootstrap, host, project
<1>3. \/ UNCHANGED container
      \/ \E entry \in Container \cup {None} : container' = [container EXCEPT ![Caddy] = entry]
  <2>1. CASE RemoveCaddy
    BY <2>1 DEF RemoveCaddy
  <2>2. CASE CreateCaddy
    BY <1>1, <2>2 DEF CreateCaddy, TypeOK, Container
  <2>3. CASE ~RemoveCaddy /\ ~CreateCaddy
    BY <2>3 DEF SyncStep, SyncWork, BeginSync, Stage, Look, MoveAside, Install, RenderProject,
                Clean, SyncFails, KillSync, bvars, host
  <2> QED BY <2>1, <2>2, <2>3
<1>4. container' \in [Service -> Container \cup {None}]
  BY <1>1, <1>3 DEF TypeOK
<1>5. faults' \in 0..MaxFaults
  BY <1>1, <1>2, BootstrapAssumption DEF TypeOK, Fault
<1>6. stale' \in [Run -> SUBSET Service]
  BY <1>1, <1>2 DEF TypeOK, Observe
<1>7. TypeOK'
  BY <1>1, <1>2, <1>4, <1>5, <1>6 DEF TypeOK
<1>8. Inspections'
  BY <1>2, InspectionsKept DEF Inspections
<1> QED BY <1>2, <1>7, <1>8 DEF Remembered, SeenManaged, SeenAll, Managed

(* After a restart of the host no bootstrap remembers anything.            *)
LEMMA RebootLeavesRuns == ASSUME Remembered, Reboot, Observe PROVE Remembered'
<1>1. /\ UNCHANGED <<lock, rendered, container, volume, mine, using>> /\ Fault
      /\ pc' = [r \in Run |-> "idle"] /\ outcome' = [r \in Run |-> "failed"]
      /\ seen' = [r \in Run |-> NothingSeen]
  BY DEF Reboot, project, host
<1>2. NothingSeen \in [services : SUBSET Service, volumes : SUBSET Volume,
                       inspected : SUBSET Service]
  BY DEF NothingSeen
<1>3. faults' \in 0..MaxFaults
  BY <1>1, BootstrapAssumption DEF Remembered, TypeOK, Fault
<1>4. stale' = [r \in Run |-> {}]
  BY <1>1 DEF Observe, Holding
<1>5. TypeOK'
  BY <1>1, <1>2, <1>3, <1>4 DEF Remembered, TypeOK
<1>6. SeenManaged' /\ SeenAll' /\ Inspections'
  BY <1>1 DEF SeenManaged, SeenAll, Inspections, RunInspections, NothingSeen
<1> QED BY <1>5, <1>6 DEF Remembered

(* The steps of a sync keep the types of its own variables.                *)
LEMMA SyncTypesStep ==
  ASSUME SyncTypes, SyncStep \/ Reboot
  PROVE  SyncTypes'
<1>1. CASE BeginSync
  BY <1>1, HomepageAssumption DEF BeginSync, GotoS, SyncTypes
<1>2. CASE Stage \/ Look \/ MoveAside \/ Install \/ RenderProject \/ RemoveCaddy \/ CreateCaddy
  BY <1>2 DEF Stage, Look, MoveAside, Install, RenderProject, RemoveCaddy, CreateCaddy,
              GotoS, SyncTypes
<1>3. CASE Clean \/ SyncFails \/ KillSync \/ Reboot
  BY <1>3 DEF Clean, SyncFails, KillSync, Reboot, ReturnS, SyncTypes
<1> QED BY <1>1, <1>2, <1>3 DEF SyncStep, SyncWork

(* The parts of the invariant.                                             *)
Together == Remembered /\ SyncTypes /\ Directories

(* The invariant in the parts that the steps change.                       *)
LEMMA HomepageParts == HInv <=> Together
  BY HomepageTypes DEF HInv, Together, Remembered, Directories

LEMMA HomepagePartsNext == HInv' <=> Together'
  BY HomepageTypesNext DEF HInv, Together, Remembered, Directories

(* At first there is a homepage, and no sync is under way.                 *)
LEMMA InitHomepage == HomepageInit => HInv
<1> SUFFICES ASSUME HomepageInit PROVE Together
  BY HomepageParts
<1>1. Remembered
  BY InitIInv DEF HomepageInit, IInv
<1>2. SyncTypes
  BY HomepageAssumption DEF HomepageInit, SyncTypes
<1>3. Directories
  BY DEF HomepageInit, Directories, DirectoryTypes, SyncInv, ServedIsOnDisk
<1> QED BY <1>1, <1>2, <1>3 DEF Together

(* A step of a bootstrap run or of somebody else; Caddy follows it.        *)
LEMMA BootstrapKeeps ==
  ASSUME Together, BootstrapNext, CaddyFollows,
         UNCHANGED <<leftover, spc, staged, previous, answer, begun>>
  PROVE  Together'
<1>1. Remembered'
  BY TypeStep, SeenStep, InspectionsStep DEF Together, Remembered
<1>2. SyncTypes'
  BY DEF Together, SyncTypes
<1>3. \/ UNCHANGED <<public, served>>
      \/ served' = None /\ UNCHANGED public
      \/ MountPublic
  BY DEF CaddyFollows
<1>4. Directories'
  BY <1>3, CaddyKeeps DEF Together
<1> QED BY <1>1, <1>2, <1>4 DEF Together

(* A restart of the host brings Caddy back with what is public.            *)
LEMMA RebootKeeps == ASSUME Together, Reboot, Observe PROVE Together'
<1>1. Remembered' /\ SyncTypes'
  BY RebootLeavesRuns, SyncTypesStep DEF Together
<1>2. /\ spc' = "idle" /\ staged' = None /\ previous' = None /\ UNCHANGED leftover
      /\ UNCHANGED <<public, served>> \/ MountPublic
  BY DEF Reboot, ReturnS
<1>3. CASE UNCHANGED <<public, served>>
  BY <1>1, <1>2, <1>3, EndKeeps DEF Together
<1>4. CASE MountPublic
  <2>1. /\ public' \in Tree \cup {Empty} /\ served' = public'
        /\ public \in Tree => public' = public
    BY <1>4, Trees DEF MountPublic, Together, Directories, DirectoryTypes
  <2>2. DirectoryTypes' /\ ServedIsOnDisk' /\ SyncInv'
    BY <1>2, <2>1, Trees
       DEF Together, Directories, DirectoryTypes, ServedIsOnDisk, OnDisk, SyncInv
  <2> QED BY <1>1, <2>2 DEF Together, Directories
<1> QED BY <1>2, <1>3, <1>4

(* Every step of sync, bootstrap and host keeps the invariant.             *)
LEMMA HomepageStep == HInv /\ [Next]_vars => HInv'
<1> SUFFICES ASSUME Together, [Next]_vars PROVE Together'
  BY HomepageParts, HomepagePartsNext
<1>1. CASE SyncStep /\ Observe
  <2>1. Remembered' /\ SyncTypes'
    BY <1>1, SyncLeavesRuns, SyncTypesStep DEF Together
  <2>2. Directories'
    BY <1>1, StageKeeps, MoveKeeps, RecreateKeeps, FinishKeeps
       DEF Together, SyncStep, SyncWork
  <2> QED BY <2>1, <2>2 DEF Together
<1>2. CASE UNCHANGED vars
  <2>1. UNCHANGED <<lock, rendered, container, volume, pc, mine, seen, stale, using, outcome,
                    faults>>
        /\ UNCHANGED <<public, leftover, served, spc, staged, previous, answer, begun>>
    BY <1>2 DEF vars, bvars, svars
  <2>2. Remembered'
    BY <2>1 DEF Together, Remembered, TypeOK, SeenManaged, SeenAll, Managed, Inspections,
                RunInspections, Current
  <2>3. SyncTypes' /\ Directories'
    BY <2>1, CaddyKeeps DEF Together, SyncTypes
  <2> QED BY <2>2, <2>3 DEF Together
<1> QED BY <1>1, <1>2, BootstrapKeeps, RebootKeeps DEF Next

(* The invariant of sync and bootstrap together.                           *)
THEOREM HomepageInvariance == Spec => []HInv
  BY InitHomepage, HomepageStep, PTL DEF Spec

(* HomepageTypeOK, for every value of the constants.                       *)
THEOREM HomepageTypeCorrect == Spec => []HomepageTypeOK
<1>1. HInv => HomepageTypeOK BY DEF HInv
<1> QED BY <1>1, HomepageInvariance, PTL

(* Caddy never serves a directory that a sync deleted, however syncs,      *)
(* bootstraps, edits, deaths and restarts interleave.                      *)
THEOREM CaddyServesWhatExists == Spec => []ServedIsOnDisk
<1>1. HInv => ServedIsOnDisk BY DEF HInv
<1> QED BY <1>1, HomepageInvariance, PTL

(* "ok" of a sync means that the visitors get its own site, or that nobody *)
(* serves any by then.                                                     *)
THEOREM SyncAnswersTrue == Spec => SyncedIsServed
<1>1. ASSUME Together, [Next]_vars, answer' = "ok", answer # "ok"
      PROVE  served' \in {staged, None}
  <2>1. CASE Clean
    BY <1>1, <2>1 DEF Clean, Together, Directories, SyncInv
  <2>2. CASE ~Clean
    BY <1>1, <2>2 DEF Next, SyncStep, SyncWork, BeginSync, Stage, Look, MoveAside, Install,
         RenderProject, RemoveCaddy, CreateCaddy, SyncFails, KillSync, Reboot, ReturnS,
         vars, svars
  <2> QED BY <2>1, <2>2
<1>2. HInv /\ [Next]_vars =>
        [answer' = "ok" /\ answer # "ok" => served' \in {staged, None}]_vars
  BY <1>1, HomepageParts
<1> QED BY <1>2, HomepageInvariance, PTL DEF Spec, SyncedIsServed

(* What a bootstrap run answers is true of every container that nobody     *)
(* changed after the run inspected it, also when syncs recreate Caddy and  *)
(* the host restarts between two of its inspections.                       *)
THEOREM BootstrapAnswersTrueBesideSync == Spec => AnswersAreTrue
<1>1. ASSUME Remembered, [Next]_vars, NEW r \in Run, Answers(r)
      PROVE  Delivered(r)
  <2>1. CASE BootstrapNext
    BY <1>1, <2>1, AnswersStep
  <2>2. CASE SyncStep /\ Observe
    BY <1>1, <2>2, SyncLeavesRuns DEF Answers
  <2>3. CASE Reboot
    BY <1>1, <2>3 DEF Reboot, Answers
  <2>4. CASE UNCHANGED vars
    BY <1>1, <2>4 DEF vars, bvars, Answers
  <2> QED BY <1>1, <2>1, <2>2, <2>3, <2>4 DEF Next
<1>2. HInv /\ [Next]_vars => [\A r \in Run : Answers(r) => Delivered(r)]_bvars
  BY <1>1, HomepageParts DEF Together
<1>3. AnswersAreTrue <=> [][\A r \in Run : Answers(r) => Delivered(r)]_bvars
  BY DEF AnswersAreTrue, Answers, Delivered
<1> QED BY <1>2, <1>3, HomepageInvariance, PTL DEF Spec
=============================================================================
