------------------------- MODULE BootstrapApply_proofs -------------------------
(***************************************************************************)
(* Safety of `mcrctl apply --bootstrap` for every number of overlapping    *)
(* runs, every project and every bound on failures: what a run takes for   *)
(* its volumes stays its own to the end, so no container is put on a       *)
(* volume of somebody else and no run answers wrongly.                     *)
(***************************************************************************)
EXTENDS BootstrapApply, TLAPS

(* A volume that a run has inspected or created carries mcrctl's labels as *)
(* long as the run remembers it: nothing relabels or removes a volume.     *)
SeenManaged == \A r \in Run : \A v \in seen[r].volumes : Managed(v)

(* When it inspects a complete project, and from `compose up` on, a run    *)
(* has seen every volume.                                                  *)
SeenAll == \A r \in Run : pc[r] \in {"inspect", "start", "check", "verify"}
                           => seen[r].volumes = Volume

(* What a run has inspected was in its list of all services, and is still  *)
(* as the run found it unless it is stale.                                 *)
RunInspections(r) ==
  /\ seen[r].inspected # {} => pc[r] \in {"inspect", "verify", "rollback"}
  /\ pc[r] \in {"inspect", "check", "verify"} => seen[r].services = Service
  /\ pc[r] \in {"inspect", "verify"} =>
       \A s \in seen[r].inspected : Current(r, s) \/ s \in stale[r]
Inspections == \A r \in Run : RunInspections(r)

(* What holds whoever else creates containers; with it, the invariant of   *)
(* bootstrap runs alone.                                                   *)
Remembered == TypeOK /\ SeenManaged /\ SeenAll /\ Inspections

IInv == Remembered /\ NoForeignVolume

(* The variables are typed in the initial states.                          *)
LEMMA InitIInv == Init => IInv
  BY BootstrapAssumption
     DEF Init, IInv, Remembered, TypeOK, SeenManaged, SeenAll, Inspections, RunInspections,
         NoForeignVolume, NothingSeen

SeenType == [services : SUBSET Service, volumes : SUBSET Volume,
             inspected : SUBSET Service]
Outcome == {"none", "unchanged", "started", "refused", "failed"}
Control == {"idle", "containers", "volumes", "judge", "inspect", "ports", "pull",
            "create", "start", "check", "verify", "rollback"}

(* A return and a change of step keep the types of what they touch.        *)
LEMMA ReturnType ==
  ASSUME TypeOK, NEW r \in Run, NEW o \in Outcome, Return(r, o)
  PROVE /\ pc' \in [Run -> Control] /\ outcome' \in [Run -> Outcome]
        /\ seen' \in [Run -> SeenType]
  BY DEF TypeOK, Return, NothingSeen, SeenType, Outcome, Control

LEMMA GotoType ==
  ASSUME TypeOK, NEW r \in Run, NEW to \in Control, NEW from, Goto(r, from, to)
  PROVE pc' \in [Run -> Control]
  BY DEF TypeOK, Goto, Control

(* What a run has found or made is a set of services and one of volumes.   *)
LEMMA SeenTypes ==
  ASSUME TypeOK, NEW r \in Run, NEW S \in SUBSET Service, NEW V \in SUBSET Volume
  PROVE /\ [seen EXCEPT ![r].services = S] \in [Run -> SeenType]
        /\ [seen EXCEPT ![r].volumes = V] \in [Run -> SeenType]
        /\ [seen EXCEPT ![r].inspected = S] \in [Run -> SeenType]
        /\ seen[r].services \in SUBSET Service /\ seen[r].volumes \in SUBSET Volume
        /\ seen[r].inspected \in SUBSET Service
  BY DEF TypeOK, SeenType

(* A run's step, a failure, or a foreign act keeps every type.             *)
LEMMA TypeStep == ASSUME TypeOK, BootstrapNext PROVE TypeOK'
<1> DEFINE T == /\ lock \in Lock /\ rendered \in Lock
                /\ container \in [Service -> Container \cup {None}]
                /\ volume \in [Volume -> {"absent", "managed", "foreign"}]
                /\ mine \in [Run -> Lock] /\ using \in [Run -> Lock]
                /\ faults \in 0..MaxFaults
           C == /\ pc \in [Run -> Control] /\ outcome \in [Run -> Outcome]
                /\ seen \in [Run -> SeenType]
<1>0. TypeOK => T /\ C BY DEF TypeOK, Control, Outcome, SeenType
<1>1. ASSUME NEW r \in Run, BootstrapStep(r) PROVE T'
  <2> USE BootstrapAssumption DEF TypeOK, Fault, project, host
  <2>1. ASSUME NEW v \in Volume, CreateVolume(r, v) PROVE T'
    BY <2>1 DEF CreateVolume
  <2>2. ASSUME NEW s \in Service, StartService(r, s) PROVE T'
    BY <2>2 DEF StartService, Container
  <2>3. CASE RollBack(r) BY <2>3 DEF RollBack
  <2>4. CASE RollBackFails(r) BY <2>4 DEF RollBackFails
  <2>5. CASE Begin(r) BY <2>5 DEF Begin
  <2>6. CASE BeginUp(r) BY <2>6 DEF BeginUp
  <2>7. CASE StepFails(r) \/ Kill(r) BY <2>7 DEF StepFails, Kill
  <2>8. CASE UNCHANGED <<lock, rendered, container, volume, mine, using, faults>>
    BY <2>8
  <2> QED BY <1>1, <2>1, <2>2, <2>3, <2>4, <2>5, <2>6, <2>7, <2>8
       DEF BootstrapStep, Work, ReadContainers, ReadVolumes, Judge, CheckPorts,
           PortTaken, Pull, UpDone, PostCheck, Inspect, InspectionFails, Answer
<1>2. ASSUME NEW r \in Run, BootstrapStep(r) PROVE C'
  <2> USE <1>0
  <2>0. C BY DEF TypeOK
  <2>1. ASSUME NEW o \in Outcome, Return(r, o) PROVE C' BY <2>1, ReturnType
  <2>2. ASSUME NEW from, NEW to \in Control, Goto(r, from, to) PROVE pc' \in [Run -> Control]
    BY <2>2, GotoType
  <2>3. CASE Begin(r) BY <2>0, <2>2, <2>3 DEF Begin, Control, Outcome
  <2>4. CASE ReadContainers(r)
    BY <2>0, <2>2, <2>4, SeenTypes DEF ReadContainers, Found, Control
  <2>5. CASE ReadVolumes(r)
    <3>1. [seen EXCEPT ![r].volumes = {v \in Volume : Exists(v)}] \in [Run -> SeenType]
      BY SeenTypes
    <3>2. \/ Return(r, "refused")
          \/ /\ Goto(r, "volumes", "judge") /\ outcome' = outcome
             /\ seen' = [seen EXCEPT ![r].volumes = {v \in Volume : Exists(v)}]
      BY <2>5 DEF ReadVolumes
    <3> QED BY <2>0, <2>1, <2>2, <3>1, <3>2 DEF Control, Outcome
  <2>6. CASE Judge(r) BY <2>0, <2>1, <2>2, <2>6 DEF Judge, Control, Outcome
  <2>7. CASE PortTaken(r) BY <2>1, <2>7 DEF PortTaken, Outcome
  <2>8. CASE CheckPorts(r) \/ Pull(r) \/ BeginUp(r) \/ UpDone(r)
    BY <2>0, <2>2, <2>8 DEF CheckPorts, Pull, BeginUp, UpDone, Control
  <2>9. CASE PostCheck(r) BY <2>0, <2>2, <2>9 DEF PostCheck, Control
  <2>10. ASSUME NEW v \in Volume, CreateVolume(r, v) PROVE C'
    <3>0. seen[r].volumes \cup {v} \in SUBSET Volume BY SeenTypes
    <3>1. [seen EXCEPT ![r].volumes = seen[r].volumes \cup {v}] \in [Run -> SeenType]
      BY <3>0, SeenTypes
    <3>2. \/ Return(r, "refused")
          \/ /\ pc' = pc /\ outcome' = outcome
             /\ seen' = [seen EXCEPT ![r].volumes = seen[r].volumes \cup {v}]
      BY <2>10 DEF CreateVolume
    <3> QED BY <2>0, <2>1, <3>1, <3>2 DEF Outcome
  <2>11. ASSUME NEW s \in Service, StartService(r, s) PROVE C'
    <3>0. seen[r].services \cup {s} \in SUBSET Service BY SeenTypes
    <3>1. [seen EXCEPT ![r].services = seen[r].services \cup {s}] \in [Run -> SeenType]
      BY <3>0, SeenTypes
    <3>2. /\ pc' = pc /\ outcome' = outcome
          /\ seen' = [seen EXCEPT ![r].services = seen[r].services \cup {s}]
      BY <2>11 DEF StartService
    <3> QED BY <2>0, <3>1, <3>2
  <2>12. CASE RollBack(r) \/ RollBackFails(r) \/ Kill(r)
    BY <2>1, <2>12 DEF RollBack, RollBackFails, Kill, Outcome
  <2>13. CASE StepFails(r) BY <2>0, <2>1, <2>2, <2>13 DEF StepFails, Control, Outcome
  <2>14. ASSUME NEW s \in Service, Inspect(r, s) PROVE C'
    <3>0. seen[r].inspected \cup {s} \in SUBSET Service BY SeenTypes
    <3>1. [seen EXCEPT ![r].inspected = seen[r].inspected \cup {s}] \in [Run -> SeenType]
      BY <3>0, SeenTypes
    <3>2. /\ pc' = pc /\ outcome' = outcome
          /\ seen' = [seen EXCEPT ![r].inspected = seen[r].inspected \cup {s}]
      BY <2>14 DEF Inspect
    <3> QED BY <2>0, <3>1, <3>2
  <2>15. ASSUME NEW s \in Service, InspectionFails(r, s) PROVE C'
    BY <2>0, <2>1, <2>2, <2>15 DEF InspectionFails, Control, Outcome
  <2>16. CASE Answer(r) BY <2>1, <2>16 DEF Answer, Outcome
  <2> QED BY <1>2, <2>3, <2>4, <2>5, <2>6, <2>7, <2>8, <2>9, <2>10, <2>11, <2>12, <2>13,
             <2>14, <2>15, <2>16 DEF BootstrapStep, Work
<1>3. ASSUME Others PROVE T' /\ C'
  <2> USE BootstrapAssumption DEF TypeOK, Fault, project, host
  <2>1. ASSUME NEW l \in Lock, Resolve(l) PROVE T' BY <2>1 DEF Resolve
  <2>2. ASSUME Render PROVE T' BY <2>2 DEF Render
  <2>3. ASSUME TakeDown PROVE T' BY <2>3 DEF TakeDown
  <2>4. ASSUME NEW s \in Service, StopContainer(s) PROVE T'
    <3>1. container[s] \in Container BY <2>4 DEF StopContainer
    <3>2. [container[s] EXCEPT !.up = FALSE] \in Container BY <3>1 DEF Container
    <3>3. container' = [container EXCEPT ![s] = [container[s] EXCEPT !.up = FALSE]]
      BY <2>4 DEF StopContainer
    <3>4. container' \in [Service -> Container \cup {None}] BY <3>2, <3>3
    <3>5. /\ UNCHANGED <<lock, rendered, volume, mine, using>> /\ Fault
      BY <2>4 DEF StopContainer
    <3> QED BY <3>4, <3>5
  <2>5. ASSUME NEW v \in Volume, ForeignVolume(v) PROVE T'
    BY <2>5 DEF ForeignVolume
  <2>6. T' BY <1>3, <2>1, <2>2, <2>3, <2>4, <2>5 DEF Others
  <2>7. UNCHANGED <<pc, seen>>
    BY <1>3 DEF Others, Resolve, Render, TakeDown, StopContainer, ForeignVolume
  <2>8. outcome' \in [Run -> Outcome]
    BY <1>3 DEF Others, Resolve, Render, TakeDown, StopContainer, ForeignVolume, Outcome
  <2>9. C BY <1>0
  <2> QED BY <2>6, <2>7, <2>8, <2>9
<1>4. stale' \in [Run -> SUBSET Service]
  <2>1. C' BY <1>1, <1>2, <1>3 DEF BootstrapNext
  <2>2. \A r \in Run : seen'[r].services \subseteq Service BY <2>1 DEF SeenType
  <2> QED BY <2>2 DEF BootstrapNext, Observe
<1>5. T' /\ C' /\ stale' \in [Run -> SUBSET Service] => TypeOK'
  BY DEF TypeOK, Control, Outcome, SeenType
<1> QED BY <1>1, <1>2, <1>3, <1>4, <1>5 DEF BootstrapNext

(* No step takes mcrctl's labels from a volume.                            *)
LEMMA ManagedStays ==
  ASSUME TypeOK, BootstrapNext, NEW v \in Volume, Managed(v) PROVE Managed(v)'
<1> USE DEF TypeOK, Managed, project, host
<1>1. ASSUME NEW r \in Run, BootstrapStep(r) PROVE Managed(v)'
  <2>1. ASSUME NEW w \in Volume, CreateVolume(r, w) PROVE Managed(v)'
    BY <2>1 DEF CreateVolume
  <2>2. ASSUME UNCHANGED volume PROVE Managed(v)' BY <2>2
  <2> QED BY <1>1, <2>1, <2>2
       DEF BootstrapStep, Work, Begin, ReadContainers, ReadVolumes, Judge, CheckPorts,
           PortTaken, Pull, BeginUp, UpDone, PostCheck, StartService, Inspect,
           InspectionFails, Answer, RollBack, StepFails, RollBackFails, Kill
<1>2. CASE Others
  BY <1>2 DEF Others, Resolve, Render, TakeDown, StopContainer, ForeignVolume
<1> QED BY <1>1, <1>2 DEF BootstrapNext

(* What a run remembers of the volumes: nothing new unless it looked at    *)
(* them all or created one, and always volumes that are mcrctl's.          *)
LEMMA SeenStep == ASSUME Remembered, BootstrapNext PROVE SeenManaged' /\ SeenAll'
<1> USE DEF SeenManaged, SeenAll
<1>0. /\ \A v \in Volume : Managed(v) => Managed(v)'
      /\ SeenManaged /\ SeenAll
      /\ seen \in [Run -> SeenType] /\ pc \in [Run -> Control]
      /\ \A q \in Run : seen[q].volumes \subseteq Volume
  BY ManagedStays DEF Remembered, TypeOK, SeenType, Control
<1>1. ASSUME UNCHANGED <<seen, pc>> PROVE SeenManaged' /\ SeenAll'
  BY <1>0, <1>1
<1>2. ASSUME NEW r \in Run, NEW o, Return(r, o) PROVE SeenManaged' /\ SeenAll'
  BY <1>0, <1>2 DEF Return, NothingSeen
<1>3. ASSUME NEW r \in Run, NEW from,
             NEW to \in Control \ {"inspect", "start", "check", "verify"},
             Goto(r, from, to), UNCHANGED seen
      PROVE  SeenManaged' /\ SeenAll'
  BY <1>0, <1>3 DEF Goto
<1>4. ASSUME NEW r \in Run, BootstrapStep(r) PROVE SeenManaged' /\ SeenAll'
  <2>1. CASE Begin(r) BY <1>3, <2>1 DEF Begin, Control
  <2>2. CASE ReadContainers(r)
    <3>1. \A q \in Run : seen'[q].volumes = seen[q].volumes
      BY <1>0, <2>2 DEF ReadContainers, SeenType
    <3> QED BY <1>0, <2>2, <3>1 DEF ReadContainers, Goto
  <2>3. CASE ReadVolumes(r)
    <3>1. CASE \E v \in Volume : Exists(v) /\ ~Managed(v)
      BY <1>2, <2>3, <3>1 DEF ReadVolumes
    <3>2. CASE \A v \in Volume : Exists(v) => Managed(v)
      <4>1. /\ seen' = [seen EXCEPT ![r].volumes = {v \in Volume : Exists(v)}]
            /\ pc' = [pc EXCEPT ![r] = "judge"]
        BY <2>3, <3>2 DEF ReadVolumes, Goto
      <4>2. \A q \in Run : seen'[q].volumes = IF q = r THEN {v \in Volume : Exists(v)}
                                              ELSE seen[q].volumes
        BY <1>0, <4>1 DEF SeenType
      <4> QED BY <1>0, <3>2, <4>1, <4>2
    <3> QED BY <3>1, <3>2
  <2>4. CASE Judge(r)
    <3>1. CASE seen[r].services = {}
      <4>1. Goto(r, "judge", "ports") /\ UNCHANGED seen BY <2>4, <3>1 DEF Judge
      <4> QED BY <1>3, <4>1 DEF Control
    <3>2. CASE /\ seen[r].services # {}
               /\ seen[r].services = Service /\ seen[r].volumes = Volume
      <4>1. Goto(r, "judge", "inspect") /\ UNCHANGED seen BY <2>4, <3>2 DEF Judge
      <4> QED BY <1>0, <3>2, <4>1 DEF Goto
    <3>3. CASE /\ seen[r].services # {}
               /\ ~(seen[r].services = Service /\ seen[r].volumes = Volume)
      <4>1. Return(r, "refused") BY <2>4, <3>3 DEF Judge
      <4> QED BY <1>2, <4>1
    <3> QED BY <3>1, <3>2, <3>3
  <2>5. CASE CheckPorts(r) \/ Pull(r) BY <1>3, <2>5 DEF CheckPorts, Pull, Control
  <2>6. CASE BeginUp(r) BY <1>0, <2>6 DEF BeginUp, Goto
  <2>7. CASE UpDone(r) BY <1>0, <2>7 DEF UpDone, Goto
  <2>8. CASE PostCheck(r) BY <1>0, <2>8 DEF PostCheck, Goto
  <2>9. ASSUME NEW v \in Volume, CreateVolume(r, v) PROVE SeenManaged' /\ SeenAll'
    <3>1. CASE Managed(v)'
      <4>1. /\ seen' = [seen EXCEPT ![r].volumes = seen[r].volumes \cup {v}]
            /\ pc[r] = "create" /\ pc' = pc
        BY <2>9, <3>1 DEF CreateVolume
      <4>2. \A q \in Run : seen'[q].volumes = IF q = r THEN seen[r].volumes \cup {v}
                                              ELSE seen[q].volumes
        BY <1>0, <4>1 DEF SeenType
      <4> QED BY <1>0, <3>1, <4>1, <4>2
    <3>2. CASE ~Managed(v)'
      BY <1>2, <2>9, <3>2 DEF CreateVolume
    <3> QED BY <3>1, <3>2
  <2>10. ASSUME NEW s \in Service, StartService(r, s) PROVE SeenManaged' /\ SeenAll'
    <3>1. \A q \in Run : seen'[q].volumes = seen[q].volumes
      BY <1>0, <2>10 DEF StartService, SeenType
    <3> QED BY <1>0, <2>10, <3>1 DEF StartService
  <2>11. CASE PortTaken(r) \/ RollBack(r) \/ RollBackFails(r) \/ Kill(r)
    BY <1>2, <2>11 DEF PortTaken, RollBack, RollBackFails, Kill
  <2>12. CASE StepFails(r)
    <3>1. Return(r, "failed") \/ (Goto(r, pc[r], "rollback") /\ UNCHANGED seen)
      BY <2>12 DEF StepFails
    <3> QED BY <1>2, <1>3, <3>1 DEF Control
  <2>13. ASSUME NEW s \in Service, Inspect(r, s) PROVE SeenManaged' /\ SeenAll'
    <3>1. \A q \in Run : seen'[q].volumes = seen[q].volumes
      BY <1>0, <2>13 DEF Inspect, SeenType
    <3> QED BY <1>0, <2>13, <3>1 DEF Inspect
  <2>14. ASSUME NEW s \in Service, InspectionFails(r, s) PROVE SeenManaged' /\ SeenAll'
    <3>1. Return(r, "refused") \/ (Goto(r, "verify", "rollback") /\ UNCHANGED seen)
      BY <2>14 DEF InspectionFails
    <3> QED BY <1>2, <1>3, <3>1 DEF Control
  <2>15. CASE Answer(r)
    <3>1. \E o : Return(r, o) BY <2>15 DEF Answer
    <3> QED BY <1>2, <3>1
  <2> QED BY <1>4, <2>1, <2>2, <2>3, <2>4, <2>5, <2>6, <2>7, <2>8, <2>9, <2>10, <2>11,
             <2>12, <2>13, <2>14, <2>15 DEF BootstrapStep, Work
<1>5. CASE Others
  BY <1>1, <1>5 DEF Others, Resolve, Render, TakeDown, StopContainer, ForeignVolume
<1> QED BY <1>4, <1>5 DEF BootstrapNext

(* What a run does not touch of itself keeps its inspections: a container  *)
(* that somebody changes becomes stale for it.                             *)
LEMMA InspectionsKept ==
  ASSUME Remembered, Observe, NEW r \in Run,
         pc'[r] = pc[r], seen'[r] = seen[r], mine'[r] = mine[r]
  PROVE  RunInspections(r)'
<1>1. RunInspections(r) BY DEF Remembered, Inspections
<1>2. ASSUME pc[r] \in {"inspect", "verify"}, NEW s \in seen[r].inspected
      PROVE  Current(r, s)' \/ s \in stale'[r]
  <2>1. s \in Service /\ seen'[r].services = Service /\ Holding(r)'
    BY <1>1, <1>2 DEF Remembered, TypeOK, RunInspections, Holding
  <2>2. stale'[r] = {t \in Service : container'[t] # container[t] \/ t \in stale[r]}
    BY <2>1 DEF Observe
  <2>3. Current(r, s) \/ s \in stale[r] BY <1>1, <1>2 DEF RunInspections
  <2> QED BY <2>1, <2>2, <2>3 DEF Current
<1> QED BY <1>1, <1>2 DEF RunInspections

(* A step of the run itself: it adds only what it finds current.           *)
LEMMA OwnInspections ==
  ASSUME Remembered, Observe, NEW r \in Run, BootstrapStep(r)
  PROVE  RunInspections(r)'
<1> USE DEF RunInspections
<1>0. /\ RunInspections(r)
      /\ seen \in [Run -> SeenType] /\ pc \in [Run -> Control]
  BY DEF Remembered, Inspections, TypeOK, SeenType, Control
<1>1. ASSUME NEW o, Return(r, o) PROVE RunInspections(r)'
  BY <1>0, <1>1 DEF Return, NothingSeen
<1>2. ASSUME pc'[r] \notin {"inspect", "check", "verify"},
             seen'[r].inspected = seen[r].inspected,
             \/ pc[r] \notin {"inspect", "verify", "rollback"}
             \/ pc'[r] = "rollback"
      PROVE  RunInspections(r)'
  BY <1>0, <1>2
<1>3. ASSUME pc[r] \notin {"inspect", "verify", "rollback"}, seen' = seen,
             seen[r].services = Service
      PROVE  RunInspections(r)'
  BY <1>0, <1>3
<1>4. CASE Begin(r) BY <1>0, <1>2, <1>4 DEF Begin, Goto
<1>5. CASE ReadContainers(r)
  <2>1. seen'[r].inspected = seen[r].inspected BY <1>0, <1>5 DEF ReadContainers, SeenType
  <2> QED BY <1>0, <1>2, <1>5, <2>1 DEF ReadContainers, Goto
<1>6. CASE ReadVolumes(r)
  <2>1. CASE \E v \in Volume : Exists(v) /\ ~Managed(v)
    BY <1>1, <1>6, <2>1 DEF ReadVolumes
  <2>2. CASE ~\E v \in Volume : Exists(v) /\ ~Managed(v)
    <3>1. seen'[r].inspected = seen[r].inspected
      BY <1>0, <1>6, <2>2 DEF ReadVolumes, SeenType
    <3> QED BY <1>0, <1>2, <1>6, <2>2, <3>1 DEF ReadVolumes, Goto
  <2> QED BY <2>1, <2>2
<1>7. CASE Judge(r)
  <2>1. CASE seen[r].services = {}
    BY <1>0, <1>2, <1>7, <2>1 DEF Judge, Goto
  <2>2. CASE /\ seen[r].services # {}
             /\ seen[r].services = Service /\ seen[r].volumes = Volume
    BY <1>0, <1>3, <1>7, <2>2 DEF Judge, Goto
  <2>3. CASE /\ seen[r].services # {}
             /\ ~(seen[r].services = Service /\ seen[r].volumes = Volume)
    BY <1>1, <1>7, <2>3 DEF Judge
  <2> QED BY <2>1, <2>2, <2>3
<1>8. CASE CheckPorts(r) \/ Pull(r) \/ BeginUp(r)
  BY <1>0, <1>2, <1>8 DEF CheckPorts, Pull, BeginUp, Goto
<1>9. CASE PortTaken(r) \/ RollBack(r) \/ RollBackFails(r) \/ Kill(r) \/ Answer(r)
  BY <1>1, <1>9 DEF PortTaken, RollBack, RollBackFails, Kill, Answer
<1>10. ASSUME NEW v \in Volume, CreateVolume(r, v) PROVE RunInspections(r)'
  <2>1. CASE Managed(v)'
    <3>1. seen' = [seen EXCEPT ![r].volumes = @ \cup {v}] /\ pc' = pc /\ pc[r] = "create"
      BY <1>10, <2>1 DEF CreateVolume
    <3>2. seen'[r].inspected = seen[r].inspected BY <1>0, <3>1 DEF SeenType
    <3> QED BY <1>0, <1>2, <3>1, <3>2
  <2>2. CASE ~Managed(v)' BY <1>1, <1>10, <2>2 DEF CreateVolume
  <2> QED BY <2>1, <2>2
<1>11. ASSUME NEW s \in Service, StartService(r, s) PROVE RunInspections(r)'
  <2>1. seen'[r].inspected = seen[r].inspected BY <1>0, <1>11 DEF StartService, SeenType
  <2> QED BY <1>0, <1>2, <1>11, <2>1 DEF StartService
<1>12. CASE UpDone(r) BY <1>0, <1>3, <1>12 DEF UpDone, Goto
<1>13. CASE PostCheck(r) BY <1>0, <1>3, <1>2, <1>13 DEF PostCheck, Goto
<1>14. ASSUME NEW s \in Service, Inspect(r, s) PROVE RunInspections(r)'
  <2>1. /\ pc' = pc /\ pc[r] \in {"inspect", "verify"} /\ Current(r, s)
        /\ UNCHANGED <<container, mine>>
        /\ seen'[r].inspected = seen[r].inspected \cup {s}
        /\ seen'[r].services = Service
    BY <1>0, <1>14 DEF Inspect, SeenType, host
  <2>2. ASSUME NEW t \in seen'[r].inspected PROVE Current(r, t)' \/ t \in stale'[r]
    <3>1. CASE t = s BY <2>1, <3>1 DEF Current
    <3>2. CASE t # s
      <4>1. t \in seen[r].inspected /\ t \in Service
        BY <1>0, <2>1, <2>2, <3>2 DEF SeenType
      <4>2. stale'[r] = {u \in Service : \/ container'[u] # container[u]
                                        \/ u \in stale[r] \ (seen'[r].inspected \ seen[r].inspected)}
        BY <2>1 DEF Observe, Holding
      <4> QED BY <1>0, <2>1, <4>1, <4>2 DEF Current
    <3> QED BY <3>1, <3>2
  <2> QED BY <2>1, <2>2
<1>15. ASSUME NEW s \in Service, InspectionFails(r, s) PROVE RunInspections(r)'
  BY <1>0, <1>1, <1>2, <1>15 DEF InspectionFails, Goto
<1>16. CASE StepFails(r) BY <1>0, <1>1, <1>2, <1>16 DEF StepFails, Goto
<1> QED BY <1>4, <1>5, <1>6, <1>7, <1>8, <1>9, <1>10, <1>11, <1>12, <1>13, <1>14, <1>15,
          <1>16 DEF BootstrapStep, Work

(* What a run knows of itself is changed by its own steps only.            *)
LEMMA OthersAside ==
  ASSUME TypeOK, NEW r \in Run, NEW q \in Run, q # r, BootstrapStep(q)
  PROVE  pc'[r] = pc[r] /\ seen'[r] = seen[r] /\ mine'[r] = mine[r]
<1>1. mine'[r] = mine[r]
  BY DEF TypeOK, BootstrapStep, Work, Begin, ReadContainers, ReadVolumes, Judge, CheckPorts,
         PortTaken, Pull, CreateVolume, BeginUp, StartService, UpDone, PostCheck, Inspect,
         InspectionFails, Answer, RollBack, StepFails, RollBackFails, Kill
<1>2. pc'[r] = pc[r] /\ seen'[r] = seen[r]
  BY DEF TypeOK, Goto, Return, BootstrapStep, Work, Begin, ReadContainers, ReadVolumes,
         Judge, CheckPorts, PortTaken, Pull, CreateVolume, BeginUp, StartService, UpDone,
         PostCheck, Inspect, InspectionFails, Answer, RollBack, StepFails, RollBackFails, Kill
<1> QED BY <1>1, <1>2

(* No step of anybody makes a run believe in a container it has not seen.  *)
LEMMA InspectionsStep == ASSUME Remembered, BootstrapNext PROVE Inspections'
<1>1. ASSUME NEW r \in Run PROVE RunInspections(r)'
  <2>1. CASE BootstrapStep(r) BY <2>1, OwnInspections DEF BootstrapNext
  <2>2. ASSUME NEW q \in Run, q # r, BootstrapStep(q) PROVE RunInspections(r)'
    BY <2>2, OthersAside, InspectionsKept DEF BootstrapNext, Remembered
  <2>3. CASE Others
    <3>1. UNCHANGED <<pc, seen, mine>>
      BY <2>3 DEF Others, Resolve, Render, TakeDown, StopContainer, ForeignVolume
    <3> QED BY <3>1, InspectionsKept DEF BootstrapNext
  <2> QED BY <2>1, <2>2, <2>3 DEF BootstrapNext
<1> QED BY <1>1 DEF Inspections

(* A container comes up only in StartService, whose run has seen every     *)
(* volume; all other steps leave containers, take them down or stop them.  *)
LEMMA ForeignStep == ASSUME IInv, BootstrapNext PROVE NoForeignVolume'
<1> USE DEF IInv, Remembered, TypeOK, NoForeignVolume, project, host
<1>1. \A v \in Volume : Managed(v) => Managed(v)' BY ManagedStays
<1>2. ASSUME NEW r \in Run, NEW s \in Service, StartService(r, s) PROVE NoForeignVolume'
  <2>1. \A v \in Volume : Managed(v)
    BY <1>2 DEF StartService, SeenAll, SeenManaged
  <2> QED BY <1>1, <2>1 DEF Managed
<1>3. ASSUME \A s \in Service : container[s] = None => container'[s] = None
      PROVE NoForeignVolume'
  BY <1>1, <1>3 DEF Managed
<1>4. ASSUME NEW r \in Run, BootstrapStep(r) PROVE NoForeignVolume'
  <2>1. CASE RollBack(r) BY <1>3, <2>1 DEF RollBack
  <2>2. CASE RollBackFails(r) BY <1>3, <2>2 DEF RollBackFails
  <2>3. CASE UNCHANGED container BY <1>3, <2>3
  <2> QED BY <1>2, <1>4, <2>1, <2>2, <2>3
       DEF BootstrapStep, Work, Begin, ReadContainers, ReadVolumes, Judge, CheckPorts,
           PortTaken, Pull, CreateVolume, BeginUp, UpDone, PostCheck, Inspect, InspectionFails,
           Answer, StepFails, Kill
<1>5. CASE Others
  <2>1. CASE TakeDown BY <1>3, <2>1 DEF TakeDown
  <2>2. ASSUME NEW s \in Service, StopContainer(s) PROVE NoForeignVolume'
    BY <1>3, <2>2 DEF StopContainer
  <2>3. CASE UNCHANGED container BY <1>3, <2>3
  <2> QED BY <1>5, <2>1, <2>2, <2>3 DEF Others, Resolve, Render, ForeignVolume
<1> QED BY <1>4, <1>5 DEF BootstrapNext

(* The invariant holds in every state of every behaviour: overlapping,     *)
(* failing and killed runs, edits, and volumes that turn up in between.    *)
THEOREM BootstrapInvariance == BootstrapSpec => []IInv
<1>1. IInv /\ [BootstrapNext]_bvars => IInv'
  <2> SUFFICES ASSUME IInv, [BootstrapNext]_bvars PROVE IInv' OBVIOUS
  <2>1. CASE BootstrapNext
    <3>1. TypeOK' BY <2>1, TypeStep DEF IInv, Remembered
    <3>2. SeenManaged' /\ SeenAll' BY <2>1, SeenStep DEF IInv
    <3>3. NoForeignVolume' BY <2>1, ForeignStep
    <3>4. Inspections' BY <2>1, InspectionsStep DEF IInv
    <3> QED BY <3>1, <3>2, <3>3, <3>4 DEF IInv, Remembered
  <2>2. CASE UNCHANGED bvars
    BY <2>2 DEF bvars, IInv, Remembered, TypeOK, SeenManaged, SeenAll, Inspections,
                RunInspections, Current, NoForeignVolume, Managed
  <2> QED BY <2>1, <2>2
<1> QED BY InitIInv, <1>1, PTL DEF BootstrapSpec

(* TypeOK, for every value of the constants.                               *)
THEOREM BootstrapTypeCorrect == BootstrapSpec => []TypeOK
<1>1. IInv => TypeOK BY DEF IInv, Remembered
<1> QED BY <1>1, BootstrapInvariance, PTL

(* No bootstrap, however many overlap, puts a container on a volume that   *)
(* mcrctl does not own.                                                    *)
THEOREM VolumesAreOurs == BootstrapSpec => []NoForeignVolume
<1>1. IInv => NoForeignVolume BY DEF IInv
<1> QED BY <1>1, BootstrapInvariance, PTL

(* An answer that counts, and what it says of the host.                    *)
Answers(r) == /\ outcome'[r] \in {"unchanged", "started"}
              /\ outcome'[r] # outcome[r]
Delivered(r) == /\ \A s \in Service : \/ container'[s] = [by |-> mine[r], up |-> TRUE]
                                      \/ s \in stale[r]
                /\ \A v \in Volume : volume'[v] = "managed"

(* Only a run that has inspected every service answers so.                 *)
LEMMA AnswersStep ==
  ASSUME Remembered, BootstrapNext, NEW r \in Run, Answers(r) PROVE Delivered(r)
<1> USE DEF Answers, Delivered, Remembered, TypeOK, Return, Goto
<1>1. ASSUME NEW q \in Run, BootstrapStep(q) PROVE Delivered(r)
  <2>1. CASE Answer(q)
    <3>1. /\ q = r /\ seen[r].inspected = Service
          /\ pc[r] \in {"inspect", "verify"} /\ UNCHANGED host
      BY <2>1 DEF Answer
    <3>2. \A s \in Service : Current(r, s) \/ s \in stale[r]
      BY <3>1 DEF Inspections, RunInspections
    <3>3. \A v \in Volume : volume[v] = "managed"
      BY <3>1 DEF SeenAll, SeenManaged, Managed
    <3> QED BY <3>1, <3>2, <3>3 DEF Current, host
  <2>3. CASE outcome' = outcome BY <2>3
  <2>4. CASE \E o \in {"none", "refused", "failed"} : outcome' = [outcome EXCEPT ![q] = o]
    BY <2>4
  <2> QED BY <1>1, <2>1, <2>3, <2>4
       DEF BootstrapStep, Work, Begin, ReadContainers, ReadVolumes, CheckPorts,
           PortTaken, Pull, CreateVolume, BeginUp, StartService, UpDone, PostCheck,
           Judge, Inspect, InspectionFails, RollBack, StepFails, RollBackFails, Kill
<1>2. CASE Others
  BY <1>2 DEF Others, Resolve, Render, TakeDown, StopContainer, ForeignVolume
<1> QED BY <1>1, <1>2 DEF BootstrapNext

(* `created`, `resumed` and `unchanged` are true of the lock asked for and *)
(* of every container that nobody changed after the run inspected it,      *)
(* whatever is stopped or recreated between its inspections.               *)
THEOREM BootstrapAnswersTrue == BootstrapSpec => AnswersAreTrue
<1>1. IInv /\ [BootstrapNext]_bvars => [\A r \in Run : Answers(r) => Delivered(r)]_bvars
  BY AnswersStep DEF IInv
<1>2. AnswersAreTrue <=> [][\A r \in Run : Answers(r) => Delivered(r)]_bvars
  BY DEF AnswersAreTrue, Answers, Delivered
<1> QED BY <1>1, <1>2, BootstrapInvariance, PTL DEF BootstrapSpec
=============================================================================
