---------------------------- MODULE InterfaceApply ----------------------------
(***************************************************************************)
(* `mcrctl deployment apply` of a one-order deployment                     *)
(* (deployment_interface.py): resolve the order, look at what is left of   *)
(* the deployment, decide between create and update, publish the render,   *)
(* fetch, pull, start, and record the lock in current.json.  What a run    *)
(* may do next is derived from containers, volume and current.json, which  *)
(* earlier runs wrote at different times.  One run at a time; each may     *)
(* fail or be killed at any step.                                          *)
(***************************************************************************)
EXTENDS Naturals, FiniteSets

CONSTANTS Order,      \* contents the operator's order file may have
          Family,     \* Family[o], Revision[o]: the exact preset it names
          Revision,
          Services,   \* Services[o]: the services of its Compose projection
          None,
          MaxFaults   \* bound: failures, deaths, edits and removals

Service == {"scratch", "bridge", "minecraft", "caddy"}

ASSUME InterfaceAssumption ==
  /\ None \notin Order
  /\ Revision \in [Order -> Nat]
  /\ Services \in [Order -> SUBSET Service]
  /\ \A o \in Order : {"scratch", "bridge", "minecraft"} \subseteq Services[o]
  /\ MaxFaults \in Nat

VARIABLES goal,       \* the order file
          container,  \* container[s]: the order it was created from, or None
          volume,     \* the world volume exists
          opened,     \* history: orders whose game server has opened it
          render,     \* render[o]: files under renders/<lock identity of o>
          current,    \* the order whose lock current.json names, or None
          recorded,   \* history: the orders that current.json has named
          pc,         \* where the run is
          order,      \* the order it resolved
          answer,     \* what the last run answered
          faults

vars == <<goal, container, volume, opened, render, current, recorded, pc, order, answer, faults>>

TypeOK ==
  /\ goal \in Order /\ order \in Order
  /\ container \in [Service -> Order \cup {None}]
  /\ volume \in BOOLEAN
  /\ opened \in SUBSET Order
  /\ render \in [Order -> {"none", "part", "whole"}]
  /\ current \in Order \cup {None}
  /\ recorded \in SUBSET Order
  /\ pc \in {"idle", "preflight", "render", "lock", "artifacts", "pull", "volume",
             "start", "record"}
  /\ answer \in {"none", "ok", "failed", "unmanaged", "incomplete", "refused"}
  /\ faults \in 0..MaxFaults

Init ==
  /\ goal \in Order /\ order = goal
  /\ container = [s \in Service |-> None]
  /\ volume \in BOOLEAN     \* a volume of that name may be there already
  /\ opened = {}
  /\ render = [o \in Order |-> "none"]
  /\ current = None /\ recorded = {}
  /\ pc = "idle" /\ answer = "none" /\ faults = 0

host == <<container, volume, opened>>
files == <<render, current, recorded>>

Goto(from, to) == pc = from /\ pc' = to
Return(a) == pc' = "idle" /\ answer' = a
Fault == faults < MaxFaults /\ faults' = faults + 1

(* _container_records: the services of the project that have a container.  *)
Found == {s \in Service : container[s] # None}

(* Mutants: a volume without current.json will do; a project that has no   *)
(* container at all is not recognised.                                     *)
ModeByContainers(wanted, stateExists, volumeExists) ==
  IF Found \notin {{}, wanted} THEN "unmanaged"
  ELSE IF ~stateExists /\ Found # {} THEN "incomplete"
  ELSE "none"

ModeWithContainers(wanted, stateExists, volumeExists) ==
  IF stateExists /\ Found # wanted THEN "unmanaged"
  ELSE IF stateExists # volumeExists \/ (~stateExists /\ Found # {}) THEN "incomplete"
  ELSE "none"

(* detect_apply_mode: the services found are exactly those wanted, or none;*)
(* volume and current.json are both there, or there is nothing at all.     *)
ModeRefusal(wanted, stateExists, volumeExists) ==
  IF Found \notin {{}, wanted} THEN "unmanaged"
  ELSE IF stateExists # volumeExists \/ (~stateExists /\ Found # {}) THEN "incomplete"
  ELSE "none"

(* _load_current_lock: current.json names a render without its lock.        *)
CurrentFails == current # None /\ render[current] # "whole"

(* Mutant: the revisions are not compared.                                 *)
SameFamily(from, to) == Family[to] = Family[from]

(* _validate_stateful_transition: same preset, and not an older revision.  *)
TransitionAllowed(from, to) == /\ Family[to] = Family[from]
                               /\ Revision[to] >= Revision[from]
-----------------------------------------------------------------------------
Begin ==
  /\ Goto("idle", "preflight")
  /\ order' = goal
  /\ answer' = "none"
  /\ UNCHANGED <<goal, host, files, faults>>

(* Containers, volume, current.json with the lock of its render, and the   *)
(* host ports; the first that does not fit ends the run.                   *)
Preflight ==
  /\ pc = "preflight"
  /\ LET refusal == ModeRefusal(Services[order], current # None, volume)
     IN  IF CurrentFails THEN Return("failed")
         ELSE IF refusal # "none" THEN Return(refusal)
         ELSE IF current # None /\ ~TransitionAllowed(current, order) THEN Return("refused")
         ELSE Goto("preflight", "render") /\ UNCHANGED answer
  /\ UNCHANGED <<goal, host, files, order, faults>>

(* _publish_render: file after file, each replaced atomically, the lock    *)
(* last.  A render is named after its lock: rewriting a whole one writes   *)
(* the bytes that are there.                                               *)
PublishFiles ==
  /\ Goto("render", "lock")
  /\ render' = [render EXCEPT ![order] = IF @ = "none" THEN "part" ELSE @]
  /\ UNCHANGED <<goal, host, current, recorded, order, answer, faults>>

PublishLock ==
  /\ Goto("lock", "artifacts")
  /\ render' = [render EXCEPT ![order] = "whole"]
  /\ UNCHANGED <<goal, host, current, recorded, order, answer, faults>>

FetchArtifacts ==
  /\ Goto("artifacts", "pull")
  /\ UNCHANGED <<goal, host, files, order, answer, faults>>

CheckAndPull ==
  /\ Goto("pull", "volume")
  /\ UNCHANGED <<goal, host, files, order, answer, faults>>

(* compose up: the volume first, ...                                       *)
CreateVolume ==
  /\ Goto("volume", "start")
  /\ volume' = TRUE
  /\ UNCHANGED <<goal, container, opened, files, order, answer, faults>>

(* ... then each service whose container is not of this render: the old    *)
(* one is removed, a new one created and started.  (Compose leaves alone a *)
(* container whose configuration is the same in both renders; it is one of *)
(* either render then.)                                                    *)
RemoveOld(s) ==
  /\ pc = "start"
  /\ container[s] \notin {None, order}
  /\ container' = [container EXCEPT ![s] = None]
  /\ UNCHANGED <<goal, volume, opened, files, pc, order, answer, faults>>

CreateNew(s) ==
  /\ pc = "start"
  /\ s \in Services[order] /\ container[s] = None
  /\ container' = [container EXCEPT ![s] = order]
  /\ opened' = IF s = "minecraft" THEN opened \cup {order} ELSE opened
  /\ UNCHANGED <<goal, volume, files, pc, order, answer, faults>>

UpDone ==
  /\ \A s \in Services[order] : container[s] = order
  /\ Goto("start", "record")
  /\ UNCHANGED <<goal, host, files, order, answer, faults>>

(* current.json is replaced atomically.                                    *)
Record ==
  /\ pc = "record"
  /\ current' = order
  /\ recorded' = recorded \cup {order}
  /\ Return("ok")
  /\ UNCHANGED <<goal, host, render, order, faults>>

(* Any command or write of the run fails, or the run is killed: nothing is *)
(* undone.  A port taken by somebody else is such a failure too.           *)
Stop ==
  /\ pc # "idle"
  /\ Fault
  /\ Return("failed")
  /\ UNCHANGED <<goal, host, files, order>>
-----------------------------------------------------------------------------
(* The operator edits the order, and removes containers: at will, or when  *)
(* a run refused them as unmanaged.                                        *)
Edit(o) ==
  /\ o # goal
  /\ Fault
  /\ goal' = o
  /\ UNCHANGED <<host, files, pc, order, answer>>

RemoveContainers ==
  /\ Found # {}
  /\ \/ answer = "unmanaged" /\ pc = "idle" /\ UNCHANGED faults
     \/ Fault
  /\ container' = [s \in Service |-> None]
  /\ UNCHANGED <<goal, volume, opened, files, pc, order, answer>>

Work ==
  \/ Preflight \/ PublishFiles \/ PublishLock \/ FetchArtifacts \/ CheckAndPull
  \/ CreateVolume \/ UpDone \/ Record
  \/ \E s \in Service : RemoveOld(s) \/ CreateNew(s)

Next == Begin \/ Work \/ Stop \/ RemoveContainers \/ \E o \in Order : Edit(o)

Spec == Init /\ [][Next]_vars

(* A run goes on; the operator runs apply again, and removes containers    *)
(* that it refused as unmanaged.                                           *)
Fairness == /\ WF_vars(Work) /\ SF_vars(Begin)
            /\ SF_vars(answer = "unmanaged" /\ RemoveContainers)

FairSpec == Spec /\ Fairness
-----------------------------------------------------------------------------
(* A world volume belongs to one preset family for ever, whatever fails,   *)
(* dies and is edited between the volume's creation and current.json.      *)
OneFamilyPerWorld == \A o, q \in opened : Family[o] = Family[q]

(* current.json names a render that is there in full, of a deployment that *)
(* has its world: doctor and the next apply can always load it.            *)
CurrentIsLoadable ==
  current # None => render[current] = "whole" /\ volume /\ current \in opened

(* A game server is started over the world, and the order it is of.        *)
Opens(o) == container'["minecraft"] = o /\ container["minecraft"] # o

(* Once an apply has answered OK, its world is never opened again by an    *)
(* older revision, whatever later applies leave behind and whatever the    *)
(* order says: the transition is checked long before the start, against    *)
(* the last record only, with failed updates in between.  (An update that  *)
(* opened the world and was never recorded does not count.)                *)
NeverOlderThanRecorded ==
  [][\A o \in Order : Opens(o) => \A q \in recorded : Revision[o] >= Revision[q]]_vars

(* A deployment that was applied once recovers from whatever happens to a  *)
(* later apply: rerun, it comes to run, and to record, the operator's      *)
(* order, if the recorded lock may go over to it.                          *)
Served == current = goal /\ \A s \in Services[goal] : container[s] = goal
Reconverges ==
  <>[](current # None /\ TransitionAllowed(current, goal)) => <>[]Served
=============================================================================
