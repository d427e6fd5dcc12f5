---------------------------- MODULE BootstrapApply ----------------------------
(***************************************************************************)
(* `mcrctl apply --bootstrap` (apply.py): the first start of a project,    *)
(* and its repetition.  A run verifies order, lock and render, looks at    *)
(* the containers and volumes of the Compose project, and either reports   *)
(* a complete project as unchanged, refuses what it does not recognise, or *)
(* creates the missing volumes, starts every service, checks the result    *)
(* and takes the containers down again when anything failed.  It holds no  *)
(* lock; it may be killed anywhere; others act on the same Docker host.    *)
(***************************************************************************)
EXTENDS Naturals, FiniteSets

CONSTANTS Run,        \* bootstrap runs that may overlap
          Lock,       \* lock identities the project's order resolves to
          Service,    \* render_plan.services
          Publishing, \* the services that publish host ports
          Volume,     \* the identities of runtime.volumes, external to Compose
          Mounts,     \* Mounts[s]: the volumes service s uses
          None,
          MaxFaults   \* bound: failures, deaths, edits, foreign acts, and runs
                      \* begun while another one is under way

ASSUME BootstrapAssumption ==
  /\ Publishing \subseteq Service
  /\ Mounts \in [Service -> SUBSET Volume]
  /\ None \notin Lock
  /\ MaxFaults \in Nat

VARIABLES lock,       \* the lock of the current order (mc-remote.lock.toml)
          rendered,   \* the lock the managed output was rendered from
          container,  \* container[s]: None, or the lock in its labels and
                      \* whether it runs
          volume,     \* volume[v]: "absent", "managed" or "foreign" labels
          pc,         \* pc[r]: where run r is
          mine,       \* mine[r]: the lock it verified
          seen,       \* seen[r]: services and volumes it has found or made,
                      \* and the containers it has inspected
          stale,      \* stale[r]: of the containers that run r listed, those
                      \* that changed since it listed them or inspected them
          using,      \* using[r]: the render its `compose up` read
          outcome,    \* outcome[r]: what it last answered
          faults

bvars == <<lock, rendered, container, volume, pc, mine, seen, stale, using, outcome, faults>>

Container == [by : Lock, up : BOOLEAN]

TypeOK ==
  /\ lock \in Lock /\ rendered \in Lock
  /\ container \in [Service -> Container \cup {None}]
  /\ volume \in [Volume -> {"absent", "managed", "foreign"}]
  /\ pc \in [Run -> {"idle", "containers", "volumes", "judge", "inspect", "ports",
                     "pull", "create", "start", "check", "verify", "rollback"}]
  /\ mine \in [Run -> Lock]
  /\ seen \in [Run -> [services : SUBSET Service, volumes : SUBSET Volume,
                    inspected : SUBSET Service]]
  /\ stale \in [Run -> SUBSET Service]
  /\ using \in [Run -> Lock]
  /\ outcome \in [Run -> {"none", "unchanged", "started", "refused", "failed"}]
  /\ faults \in 0..MaxFaults

NothingSeen == [services |-> {}, volumes |-> {}, inspected |-> {}]

Init ==
  /\ \E l \in Lock : /\ lock = l /\ rendered = l
                     /\ mine = [r \in Run |-> l] /\ using = [r \in Run |-> l]
  /\ container = [s \in Service |-> None]
  /\ volume = [v \in Volume |-> "absent"]
  /\ pc = [r \in Run |-> "idle"]
  /\ seen = [r \in Run |-> NothingSeen]
  /\ stale = [r \in Run |-> {}]
  /\ outcome = [r \in Run |-> "none"]
  /\ faults = 0

Goto(r, from, to) == pc[r] = from /\ pc' = [pc EXCEPT ![r] = to]
Return(r, o) == /\ pc' = [pc EXCEPT ![r] = "idle"]
                /\ outcome' = [outcome EXCEPT ![r] = o]
                /\ seen' = [seen EXCEPT ![r] = NothingSeen]
Fault == faults < MaxFaults /\ faults' = faults + 1

project == <<lock, rendered>>
host == <<container, volume>>

(* While a run holds a list of containers, others may change them.  Every  *)
(* step of anybody updates what each run no longer knows.                  *)
Holding(r) == pc[r] \in {"volumes", "judge", "inspect", "verify"}
Observe ==
  stale' = [r \in Run |->
              {s \in IF Holding(r)' THEN seen'[r].services ELSE {} :
                 \/ container'[s] # container[s]
                 \/ s \in stale[r] \ (seen'[r].inspected \ seen[r].inspected)}]

(* Mutant: a container that is not running passes for current.             *)
LabelledFor(r, s) == container[s] # None /\ container[s].by = mine[r]

(* _inspect_current_container: labels of this lock, and running.           *)
Current(r, s) == container[s] = [by |-> mine[r], up |-> TRUE]

(* _project_container_ids: `docker ps --all` by the project's label.        *)
Found == {s \in Service : container[s] # None}

(* _volume_exists, and the labels _inspect_managed_volume insists on.       *)
Exists(v) == volume[v] # "absent"
Managed(v) == volume[v] = "managed"

(* _check_ports: no container of the project publishes a port of the       *)
(* render.  (A listener of somebody else is a failure of that step.)       *)
PortsFree == Found \cap Publishing = {}

(* `docker create` of a service fails when an external volume is missing.  *)
Startable(s) == \A v \in Mounts[s] : Exists(v)
-----------------------------------------------------------------------------
(* The project is rendered and its lock is the expected one (otherwise the *)
(* call returns before it looks at the host).                              *)
Begin(r) ==
  /\ rendered = lock
  /\ Goto(r, "idle", "containers")
  /\ mine' = [mine EXCEPT ![r] = lock]
  /\ outcome' = [outcome EXCEPT ![r] = "none"]
  /\ IF \E q \in Run : pc[q] # "idle" THEN Fault ELSE UNCHANGED faults
  /\ UNCHANGED <<project, host, seen, using>>

ReadContainers(r) ==
  /\ Goto(r, "containers", "volumes")
  /\ seen' = [seen EXCEPT ![r].services = Found]
  /\ UNCHANGED <<project, host, mine, using, outcome, faults>>

(* Mutant: a bootstrap wants its volumes to be new.                        *)
ReadNewVolumes(r) ==
  /\ pc[r] = "volumes"
  /\ IF \E v \in Volume : Exists(v)
     THEN Return(r, "refused")
     ELSE Goto(r, "volumes", "judge") /\ UNCHANGED <<seen, outcome>>
  /\ UNCHANGED <<project, host, mine, using, faults>>

(* Every volume that exists must carry mcrctl's labels for this world.     *)
ReadVolumes(r) ==
  /\ pc[r] = "volumes"
  /\ IF \E v \in Volume : Exists(v) /\ ~Managed(v)
     THEN Return(r, "refused")
     ELSE /\ Goto(r, "volumes", "judge")
          /\ seen' = [seen EXCEPT ![r].volumes = {v \in Volume : Exists(v)}]
          /\ UNCHANGED outcome
  /\ UNCHANGED <<project, host, mine, using, faults>>

(* No containers: a first start.  Otherwise all of them, on all volumes.   *)
Judge(r) ==
  /\ pc[r] = "judge"
  /\ IF seen[r].services = {}
     THEN Goto(r, "judge", "ports") /\ UNCHANGED <<seen, outcome>>
     ELSE IF seen[r].services = Service /\ seen[r].volumes = Volume
          THEN Goto(r, "judge", "inspect") /\ UNCHANGED <<seen, outcome>>
          ELSE Return(r, "refused")
  /\ UNCHANGED <<project, host, mine, using, faults>>

(* The listed containers are inspected one after another, before anything  *)
(* is done ("inspect") and after `compose up` ("verify").                  *)
Inspect(r, s) ==
  /\ pc[r] \in {"inspect", "verify"}
  /\ s \notin seen[r].inspected
  /\ Current(r, s)
  /\ seen' = [seen EXCEPT ![r].inspected = @ \cup {s}]
  /\ UNCHANGED <<project, host, pc, mine, using, outcome, faults>>

(* One that is not as it should be; or it was replaced since it was        *)
(* listed, and the id in the list is gone.                                 *)
InspectionFails(r, s) ==
  /\ s \notin seen[r].inspected
  /\ ~Current(r, s) \/ s \in stale[r]
  /\ \/ pc[r] = "inspect" /\ Return(r, "refused")
     \/ Goto(r, "verify", "rollback") /\ UNCHANGED <<seen, outcome>>
  /\ UNCHANGED <<project, host, mine, using, faults>>

Answer(r) ==
  /\ seen[r].inspected = Service
  /\ \/ pc[r] = "inspect" /\ Return(r, "unchanged")
     \/ pc[r] = "verify" /\ Return(r, "started")
  /\ UNCHANGED <<project, host, mine, using, faults>>

CheckPorts(r) ==
  /\ PortsFree
  /\ Goto(r, "ports", "pull")
  /\ UNCHANGED <<project, host, mine, seen, using, outcome, faults>>

PortTaken(r) ==
  /\ pc[r] = "ports"
  /\ ~PortsFree
  /\ Return(r, "failed")
  /\ UNCHANGED <<project, host, mine, using, faults>>

Pull(r) ==
  /\ Goto(r, "pull", "create")
  /\ UNCHANGED <<project, host, mine, seen, using, outcome, faults>>

(* Mutant: a volume that `docker volume create` named is not inspected.    *)
CreateUninspected(r, v) ==
  /\ pc[r] = "create"
  /\ v \notin seen[r].volumes
  /\ volume' = [volume EXCEPT ![v] = IF @ = "absent" THEN "managed" ELSE @]
  /\ seen' = [seen EXCEPT ![r].volumes = @ \cup {v}]
  /\ UNCHANGED <<project, container, pc, mine, using, outcome, faults>>

(* `docker volume create` answers with the name whether it made the volume *)
(* or somebody else did; only the inspection that follows tells.           *)
CreateVolume(r, v) ==
  /\ pc[r] = "create"
  /\ v \notin seen[r].volumes
  /\ volume' = [volume EXCEPT ![v] = IF @ = "absent" THEN "managed" ELSE @]
  /\ IF Managed(v)'
     THEN /\ seen' = [seen EXCEPT ![r].volumes = @ \cup {v}]
          /\ UNCHANGED <<pc, outcome>>
     ELSE Return(r, "refused")
  /\ UNCHANGED <<project, container, mine, using, faults>>

(* `compose up` reads the managed output as it is by now.                  *)
BeginUp(r) ==
  /\ seen[r].volumes = Volume
  /\ Goto(r, "create", "start")
  /\ using' = [using EXCEPT ![r] = rendered]
  /\ UNCHANGED <<project, host, mine, seen, outcome, faults>>

StartService(r, s) ==
  /\ pc[r] = "start"
  /\ s \notin seen[r].services
  /\ Startable(s)
  /\ container' = [container EXCEPT ![s] = [by |-> using[r], up |-> TRUE]]
  /\ seen' = [seen EXCEPT ![r].services = @ \cup {s}]
  /\ UNCHANGED <<project, volume, pc, mine, using, outcome, faults>>

UpDone(r) ==
  /\ seen[r].services = Service
  /\ Goto(r, "start", "check")
  /\ UNCHANGED <<project, host, mine, seen, using, outcome, faults>>

(* Mutant: the answer of `compose up` is enough.                           *)
NoPostCheck(r) ==
  /\ pc[r] = "check"
  /\ Return(r, "started")
  /\ UNCHANGED <<project, host, mine, using, faults>>

(* The post-check lists the project's containers once more.                *)
PostCheck(r) ==
  /\ Goto(r, "check", IF Found = Service THEN "verify" ELSE "rollback")
  /\ UNCHANGED <<project, host, mine, seen, using, outcome, faults>>

(* _rollback_containers: `compose down`; volumes stay.                     *)
RollBack(r) ==
  /\ pc[r] = "rollback"
  /\ container' = [s \in Service |-> None]
  /\ Return(r, "failed")
  /\ UNCHANGED <<project, volume, mine, using, faults>>

RollBackFails(r) ==
  /\ pc[r] = "rollback"
  /\ Fault
  /\ \E left \in SUBSET Service :
       container' = [s \in Service |-> IF s \in left THEN container[s] ELSE None]
  /\ Return(r, "failed")
  /\ UNCHANGED <<project, volume, mine, using>>

(* Any Docker call may fail: before the start this ends the run, from it   *)
(* on the containers are taken down.                                       *)
StepFails(r) ==
  /\ Fault
  /\ \/ /\ pc[r] \in {"containers", "volumes", "inspect", "ports", "pull", "create"}
        /\ Return(r, "failed")
     \/ /\ pc[r] \in {"start", "check", "verify"}
        /\ Goto(r, pc[r], "rollback")
        /\ UNCHANGED <<seen, outcome>>
  /\ UNCHANGED <<project, host, mine, using>>

Kill(r) ==
  /\ pc[r] # "idle"
  /\ Fault
  /\ Return(r, "failed")
  /\ UNCHANGED <<project, host, mine, using>>
-----------------------------------------------------------------------------
(* Others: the operator edits the order and resolves it, renders it, and,  *)
(* once per refusal, takes a refused project down; someone stops a         *)
(* container or creates a volume of that name.                             *)
Resolve(l) == /\ l # lock /\ Fault
              /\ lock' = l
              /\ UNCHANGED <<rendered, host, pc, mine, seen, using, outcome>>

Render == /\ rendered # lock
          /\ rendered' = lock
          /\ UNCHANGED <<lock, host, pc, mine, seen, using, outcome, faults>>

TakeDown == /\ \A r \in Run : pc[r] = "idle"
            /\ \E r \in Run : outcome[r] = "refused"
            /\ Found # {}
            /\ container' = [s \in Service |-> None]
            /\ outcome' = [r \in Run |-> IF outcome[r] = "refused" THEN "none" ELSE outcome[r]]
            /\ UNCHANGED <<project, volume, pc, mine, seen, using, faults>>

StopContainer(s) == /\ container[s] # None /\ container[s].up
                    /\ Fault
                    /\ container' = [container EXCEPT ![s].up = FALSE]
                    /\ UNCHANGED <<project, volume, pc, mine, seen, using, outcome>>

ForeignVolume(v) == /\ volume[v] = "absent"
                    /\ Fault
                    /\ volume' = [volume EXCEPT ![v] = "foreign"]
                    /\ UNCHANGED <<project, container, pc, mine, seen, using, outcome>>

Work(r) ==
  \/ ReadContainers(r) \/ ReadVolumes(r) \/ Judge(r) \/ CheckPorts(r)
  \/ PortTaken(r) \/ Pull(r) \/ BeginUp(r) \/ UpDone(r) \/ PostCheck(r)
  \/ \E v \in Volume : CreateVolume(r, v)
  \/ \E s \in Service : StartService(r, s) \/ Inspect(r, s) \/ InspectionFails(r, s)
  \/ Answer(r) \/ RollBack(r)

BootstrapStep(r) == Begin(r) \/ Work(r) \/ StepFails(r) \/ RollBackFails(r) \/ Kill(r)

Others ==
  \/ \E l \in Lock : Resolve(l)
  \/ Render \/ TakeDown
  \/ \E s \in Service : StopContainer(s)
  \/ \E v \in Volume : ForeignVolume(v)

BootstrapNext == ((\E r \in Run : BootstrapStep(r)) \/ Others) /\ Observe

BootstrapSpec == Init /\ [][BootstrapNext]_bvars

(* A run goes on; bootstrap is run again; the operator renders what was    *)
(* resolved and takes refused leftovers down.                              *)
BootstrapFairness ==
  /\ \A r \in Run : /\ WF_bvars(Work(r) /\ Observe)
                     /\ SF_bvars(Begin(r) /\ Observe)
  /\ WF_bvars(Render /\ Observe) /\ SF_bvars(TakeDown /\ Observe)

FairBootstrapSpec == BootstrapSpec /\ BootstrapFairness
-----------------------------------------------------------------------------
(* A run that answers `created`, `resumed` or `unchanged` has every volume *)
(* and runs every service from the lock it was asked for, whatever was     *)
(* resolved, rendered, recreated or stopped while it worked; only a        *)
(* container that somebody changed after it was inspected may be different *)
(* by the time of the answer.                                              *)
AnswersAreTrue ==
  [][\A r \in Run :
       /\ outcome'[r] \in {"unchanged", "started"}
       /\ outcome'[r] # outcome[r]
       => /\ \A s \in Service : \/ container'[s] = [by |-> mine[r], up |-> TRUE]
                                \/ s \in stale[r]
          /\ \A v \in Volume : volume'[v] = "managed"]_bvars

(* A bootstrap never puts a container on a volume that mcrctl does not     *)
(* own, also when the volume turns up between its look and its creation    *)
(* and when another run found or made the rest.                            *)
NoForeignVolume ==
  \A s \in Service : container[s] # None =>
    \A v \in Volume : volume[v] = "managed"

(* As long as no foreign volume is in the way, and once failures and       *)
(* overlaps stop, the project gets started when refused leftovers are      *)
(* taken down and bootstrap is run again.                                  *)
Running == \A s \in Service : container[s] = [by |-> lock, up |-> TRUE]
BootstrapRecovers ==
  [](\A v \in Volume : volume[v] # "foreign") => <>[]Running
=============================================================================
