----------------------------- MODULE HomepageSync -----------------------------
(***************************************************************************)
(* `mcrctl homepage sync` (homepage_sync.py) next to the bootstrap runs of *)
(* the same project.  A sync clones the site, copies it to a directory of  *)
(* its own, moves the public directory aside, moves the copy in, renders   *)
(* the project, recreates only Caddy, and deletes the directory it moved   *)
(* aside.  No lock keeps other commands out; one sync runs at a time here, *)
(* as the guide has one operator run it, who repeats a failed sync exactly *)
(* once and gives up when that fails too.                                  *)
(*                                                                         *)
(* A tree is a directory on the disk, whatever its path.  A running Caddy  *)
(* keeps the tree that was public when its container started.              *)
(***************************************************************************)
EXTENDS BootstrapApply

CONSTANTS Caddy,      \* the service that serves the homepage
          MaxTrees,   \* bound: directories in use at the same time
          MaxSyncs    \* bound: syncs that are not the repetition of a failed one

Tree == 1..MaxTrees
Empty == 0            \* the directory Docker makes for a bind mount's source

ASSUME HomepageAssumption ==
  /\ Caddy \in Publishing
  /\ None \notin Nat
  /\ MaxTrees \in Nat /\ MaxSyncs \in Nat

VARIABLES public,     \* the tree at <store>/../homepage, Empty, or None
          leftover,   \* trees under .homepage.next.* and .homepage.previous.*
          served,     \* the tree Caddy's container has mounted, or None
          spc,        \* where the sync is
          staged,     \* the tree it copied
          previous,   \* the tree it moved aside, or None
          answer,     \* what it last answered; "again" in a repetition, and
                      \* "stopped" when that failed too
          begun       \* syncs begun that repeat no failed one

svars == <<public, leftover, served, spc, staged, previous, answer, begun>>
vars == <<bvars, svars>>

HomepageTypeOK ==
  /\ TypeOK
  /\ public \in Tree \cup {Empty, None}
  /\ leftover \in SUBSET Tree
  /\ served \in Tree \cup {Empty, None}
  /\ spc \in {"idle", "clone", "look", "aside", "install", "render", "remove",
              "create", "clean"}
  /\ staged \in Tree \cup {None}
  /\ previous \in Tree \cup {Empty, None}
  /\ answer \in {"none", "again", "ok", "failed", "stopped"}
  /\ begun \in 0..MaxSyncs

HomepageInit ==
  /\ Init
  /\ public = None /\ leftover = {} /\ served = None
  /\ spc = "idle" /\ staged = None /\ previous = None
  /\ answer = "none" /\ begun = 0

OnDisk == leftover \cup ({public} \cap Tree)

GotoS(from, to) == spc = from /\ spc' = to
ReturnS(a) == /\ spc' = "idle"
              /\ answer' = IF a = "failed" /\ answer = "again" THEN "stopped" ELSE a
              /\ staged' = None
              /\ previous' = None

(* Names for a new directory.  A leftover that no sync holds and Caddy     *)
(* does not serve stays for ever, but nothing ever reads it: its name is   *)
(* free again here.                                                        *)
Fresh == Tree \ {public, served, staged, previous}

bootstrap == <<pc, mine, seen, using, outcome>>

(* Caddy's container starts: its bind mount takes the directory that is    *)
(* public now, and Docker makes an empty one when there is none.           *)
MountPublic ==
  /\ served' = IF public = None THEN Empty ELSE public
  /\ public' = served'
CaddyFollows ==
  IF container'[Caddy] = container[Caddy] THEN UNCHANGED <<public, served>>
  ELSE IF container'[Caddy] = None \/ ~container'[Caddy].up
  THEN served' = None /\ UNCHANGED public
  ELSE MountPublic
-----------------------------------------------------------------------------
BeginSync ==
  /\ GotoS("idle", "clone")
  /\ IF answer = "failed"
     THEN answer' = "again" /\ UNCHANGED begun
     ELSE answer' = "none" /\ begun < MaxSyncs /\ begun' = begun + 1
  /\ UNCHANGED <<bvars, public, leftover, served, staged, previous>>

(* Clone main and copy it to a new directory beside the public one.        *)
Stage ==
  /\ GotoS("clone", "look")
  /\ \E t \in Fresh :
       /\ \A u \in Fresh : t <= u
       /\ staged' = t
       /\ leftover' = (leftover \ Fresh) \cup {t}
  /\ UNCHANGED <<bvars, public, served, previous, answer, begun>>

(* Mutant: there must be a homepage to replace.                            *)
LookForOld ==
  /\ public # None
  /\ GotoS("look", "aside")
  /\ UNCHANGED <<bvars, public, leftover, served, staged, previous, answer, begun>>

(* public_directory.exists()                                               *)
Look ==
  /\ GotoS("look", IF public = None THEN "install" ELSE "aside")
  /\ UNCHANGED <<bvars, public, leftover, served, staged, previous, answer, begun>>

(* os.rename(public_directory, previous)                                   *)
MoveAside ==
  /\ GotoS("aside", "install")
  /\ previous' = public
  /\ leftover' = leftover \cup ({public} \cap Tree)
  /\ public' = None
  /\ UNCHANGED <<bvars, served, staged, answer, begun>>

(* Mutant: the old tree is deleted as soon as the new one is in its place. *)
InstallAndClean ==
  /\ GotoS("install", "render")
  /\ public' = staged
  /\ leftover' = leftover \ {staged, previous}
  /\ UNCHANGED <<bvars, served, staged, previous, answer, begun>>

(* os.rename(staging, public_directory): over nothing, or over an empty    *)
(* directory that Docker made in the meantime.                             *)
Install ==
  /\ GotoS("install", "render")
  /\ public' = staged
  /\ leftover' = leftover \ {staged}
  /\ UNCHANGED <<bvars, served, staged, previous, answer, begun>>

(* render_toml_project and load_lock: whatever lock is current by now.     *)
RenderProject ==
  /\ GotoS("render", "remove")
  /\ rendered' = lock
  /\ UNCHANGED <<lock, host, bootstrap, faults>>
  /\ UNCHANGED <<public, leftover, served, staged, previous, answer, begun>>

(* Mutant: without --force-recreate a current Caddy is left alone.         *)
RemoveOutdatedCaddy ==
  /\ Startable(Caddy)
  /\ LET current == container[Caddy] = [by |-> rendered, up |-> TRUE]
     IN  /\ GotoS("remove", IF current THEN "clean" ELSE "create")
         /\ container' = [container EXCEPT ![Caddy] = IF current THEN @ ELSE None]
         /\ served' = IF current THEN served ELSE None
  /\ UNCHANGED <<project, volume, bootstrap, faults>>
  /\ UNCHANGED <<public, leftover, staged, previous, answer, begun>>

(* up --force-recreate --no-deps caddy: the old container goes, ...        *)
RemoveCaddy ==
  /\ Startable(Caddy)
  /\ GotoS("remove", "create")
  /\ container' = [container EXCEPT ![Caddy] = None]
  /\ served' = None
  /\ UNCHANGED <<project, volume, bootstrap, faults>>
  /\ UNCHANGED <<public, leftover, staged, previous, answer, begun>>

(* Mutant: Caddy is created without the labels of the lock.                *)
CreateUnlabelled ==
  /\ GotoS("create", "clean")
  /\ container' = [container EXCEPT ![Caddy] = [by |-> None, up |-> TRUE]]
  /\ MountPublic
  /\ UNCHANGED <<project, volume, bootstrap, faults>>
  /\ UNCHANGED <<leftover, staged, previous, answer, begun>>

(* ... and a new one starts from the render.                               *)
CreateCaddy ==
  /\ GotoS("create", "clean")
  /\ container' = [container EXCEPT ![Caddy] = [by |-> rendered, up |-> TRUE]]
  /\ MountPublic
  /\ UNCHANGED <<project, volume, bootstrap, faults>>
  /\ UNCHANGED <<leftover, staged, previous, answer, begun>>

(* shutil.rmtree(previous), and the answer.                                *)
Clean ==
  /\ spc = "clean"
  /\ leftover' = leftover \ {previous}
  /\ ReturnS("ok")
  /\ UNCHANGED <<bvars, public, served, begun>>

(* A command fails: the clone, the render, Compose (also for want of a     *)
(* volume when the project was never started); nothing is put back.        *)
SyncFails ==
  /\ \/ spc \in {"clone", "render", "remove", "create"} /\ Fault
     \/ spc = "remove" /\ ~Startable(Caddy) /\ UNCHANGED faults
  /\ ReturnS("failed")
  /\ UNCHANGED <<project, host, bootstrap>>
  /\ UNCHANGED <<public, leftover, served, begun>>

KillSync ==
  /\ spc # "idle"
  /\ Fault
  /\ ReturnS("failed")
  /\ UNCHANGED <<project, host, bootstrap>>
  /\ UNCHANGED <<public, leftover, served, begun>>

(* The host restarts: every command dies, containers come up again.        *)
Reboot ==
  /\ Fault
  /\ pc' = [r \in Run |-> "idle"]
  /\ outcome' = [r \in Run |-> "failed"]
  /\ seen' = [r \in Run |-> NothingSeen]
  /\ ReturnS(IF spc = "idle" THEN answer ELSE "failed")
  /\ IF served = None THEN UNCHANGED <<public, served>> ELSE MountPublic
  /\ UNCHANGED <<project, host, mine, using, leftover, begun>>
-----------------------------------------------------------------------------
SyncWork ==
  \/ Stage \/ Look \/ MoveAside \/ Install
  \/ RenderProject \/ RemoveCaddy \/ CreateCaddy \/ Clean
  \/ SyncFails

SyncStep == BeginSync \/ SyncWork \/ KillSync

Next ==
  \/ /\ BootstrapNext
     /\ CaddyFollows
     /\ UNCHANGED <<leftover, spc, staged, previous, answer, begun>>
  \/ SyncStep /\ Observe
  \/ Reboot /\ Observe

Spec == HomepageInit /\ [][Next]_vars

(* A sync that runs goes on, and one that failed is repeated, once.        *)
Fairness == /\ WF_vars(SyncWork /\ Observe)
            /\ WF_vars(answer = "failed" /\ BeginSync /\ Observe)

FairSpec == Spec /\ Fairness
-----------------------------------------------------------------------------
(* Caddy never has a deleted directory mounted: a tree is removed only     *)
(* once no container serves it, however syncs, bootstraps, deaths and      *)
(* restarts interleave.                                                    *)
ServedIsOnDisk == served \in {None, Empty} \cup OnDisk

(* A sync that answers OK leaves its own site with the visitors, if Caddy  *)
(* runs at all by then, and whoever started it last.                       *)
SyncedIsServed ==
  [][answer' = "ok" /\ answer # "ok" => served' \in {staged, None}]_vars

(* A sync that died between its two renames left no homepage, and Docker   *)
(* may have put an empty directory there since.  The one repetition the    *)
(* guide asks for brings a site back, unless it fails as well: from no     *)
(* state of the disk that a failed sync leaves is a second one needed.     *)
HomepageComesBack ==
  (public \notin Tree /\ spc # "idle") ~> (public \in Tree \/ answer = "stopped")
=============================================================================
