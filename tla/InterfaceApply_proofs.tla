------------------------ MODULE InterfaceApply_proofs ------------------------
(***************************************************************************)
(* Proofs about InterfaceApply, for every set of orders, presets and        *)
(* services, and any number of failures, deaths, edits and removals.       *)
(***************************************************************************)
EXTENDS InterfaceApply, TLAPS

(***************************************************************************)
(* The inductive invariant, in parts.                                      *)
(***************************************************************************)
UpSteps == {"start", "record"}
PulledSteps == {"artifacts", "pull", "volume"} \cup UpSteps
AdmittedSteps == {"render", "lock"} \cup PulledSteps

\* What the record stands for: a render that is there, a world that exists,
\* and the family of everything that has opened it.
CurrentInv ==
  current # None =>
    /\ render[current] = "whole"
    /\ volume
    /\ current \in opened
    /\ \A o \in opened : Family[o] = Family[current]

\* No world has been opened that does not exist, nor by an order whose game
\* server is not known to have been there.
WorldInv ==
  /\ ~volume => opened = {}
  /\ container["minecraft"] # None => container["minecraft"] \in opened

\* A run past its checks may go over from the recorded lock, or, for want
\* of one, is alone with the world; nothing but its own services is there.
AdmittedInv ==
  pc \in AdmittedSteps =>
    /\ current # None => TransitionAllowed(current, order)
    /\ current = None => opened \subseteq {order}
    /\ Found \subseteq Services[order]

\* What a run has published and started by its later steps.
ProgressInv ==
  /\ pc \in PulledSteps => render[order] = "whole"
  /\ pc \in UpSteps => volume
  /\ pc = "record" =>
       /\ order \in opened
       /\ Found = {} \/ \A s \in Services[order] : container[s] = order

\* The record never went back: what it names is the newest of all it named.
RecordedInv ==
  /\ current = None => recorded = {}
  /\ current # None => \A q \in recorded : Revision[current] >= Revision[q]

IInv == TypeOK /\ CurrentInv /\ RecordedInv /\ WorldInv /\ AdmittedInv /\ ProgressInv /\ OneFamilyPerWorld

\* The services an order may have, and those it must have.
LEMMA ServicesOfOrder ==
  \A o \in Order : /\ Services[o] \subseteq Service
                   /\ {"scratch", "bridge", "minecraft"} \subseteq Services[o]
  BY InterfaceAssumption

\* The count of faults stays within its bound.
LEMMA FaultType ==
  ASSUME IInv, Fault
  PROVE  faults' \in 0..MaxFaults
  BY InterfaceAssumption DEF Fault, IInv, TypeOK

(***************************************************************************)
(* Invariance                                                              *)
(***************************************************************************)

\* A deployment that was never applied has no record and no containers.
LEMMA InitInv == Init => IInv
  BY InterfaceAssumption
     DEF Init, IInv, TypeOK, CurrentInv, RecordedInv, WorldInv, AdmittedInv, ProgressInv,
         OneFamilyPerWorld, AdmittedSteps, PulledSteps, UpSteps, Service

\* Steps that change neither host nor files, and that end the run or bring
\* it nowhere near the host.
LEMMA IdleInv ==
  ASSUME IInv, UNCHANGED <<host, files>>, pc' \in {"idle", "preflight"},
         goal' \in Order, order' \in Order, faults' \in 0..MaxFaults,
         answer' \in {"none", "ok", "failed", "unmanaged", "incomplete", "refused"}
  PROVE  IInv'
  BY DEF IInv, TypeOK, CurrentInv, RecordedInv, WorldInv, AdmittedInv, ProgressInv, OneFamilyPerWorld,
         AdmittedSteps, PulledSteps, UpSteps, host, files

\* The checks before anything is written.
LEMMA PreflightInv ==
  ASSUME IInv, Preflight
  PROVE  IInv'
<1>. UNCHANGED <<goal, host, files, order, faults>> /\ pc = "preflight"
  BY DEF Preflight
<1>1. CASE pc' = "idle"
  <2>1. answer' \in {"failed", "unmanaged", "incomplete", "refused"}
    BY <1>1 DEF Preflight, Return, Goto, ModeRefusal
  <2>. QED
    BY <1>1, <2>1, IdleInv DEF IInv, TypeOK
<1>2. CASE pc' # "idle"
  <2>1. /\ pc' = "render" /\ UNCHANGED answer
        /\ ModeRefusal(Services[order], current # None, volume) = "none"
        /\ current # None => TransitionAllowed(current, order)
    BY <1>2 DEF Preflight, Return, Goto
  <2>2. Found \subseteq Services[order] /\ (current = None => ~volume)
    BY <2>1 DEF ModeRefusal
  <2>3. AdmittedInv'
    BY <2>1, <2>2 DEF AdmittedInv, IInv, WorldInv, TransitionAllowed, Found, host, files
  <2>. QED
    BY <2>1, <2>3
       DEF IInv, TypeOK, CurrentInv, RecordedInv, WorldInv, ProgressInv, OneFamilyPerWorld,
           PulledSteps, UpSteps, host, files
<1>. QED
  BY <1>1, <1>2

\* The publication of the render, the fetches and the pull.
LEMMA PublishInv ==
  ASSUME IInv, PublishFiles \/ PublishLock \/ FetchArtifacts \/ CheckAndPull
  PROVE  IInv'
<1>. UNCHANGED <<goal, host, current, recorded, order, answer, faults>> /\ order \in Order
     /\ pc \in AdmittedSteps \ UpSteps /\ pc' \in AdmittedSteps \ UpSteps
  BY DEF PublishFiles, PublishLock, FetchArtifacts, CheckAndPull, Goto, files, IInv, TypeOK,
         AdmittedSteps, PulledSteps, UpSteps
<1>1. render' \in [Order -> {"none", "part", "whole"}]
      /\ \A o \in Order : render[o] = "whole" => render'[o] = "whole"
  BY DEF PublishFiles, PublishLock, FetchArtifacts, CheckAndPull, files, IInv, TypeOK
<1>2. pc' \in PulledSteps => render'[order] = "whole"
  BY <1>1 DEF PublishFiles, PublishLock, FetchArtifacts, CheckAndPull, Goto, PulledSteps,
              UpSteps, IInv, TypeOK, ProgressInv, files
<1>3. TypeOK'
  BY <1>1 DEF IInv, TypeOK, host, AdmittedSteps, PulledSteps, UpSteps
<1>4. CurrentInv' /\ RecordedInv' /\ WorldInv' /\ OneFamilyPerWorld'
  BY <1>1 DEF IInv, TypeOK, CurrentInv, RecordedInv, WorldInv, OneFamilyPerWorld, host
<1>5. AdmittedInv'
  BY DEF IInv, AdmittedInv, TransitionAllowed, Found, host
<1>6. ProgressInv'
  BY <1>2 DEF ProgressInv, UpSteps
<1>. QED
  BY <1>3, <1>4, <1>5, <1>6 DEF IInv

\* Compose up: the volume, and the end of it.
LEMMA UpInv ==
  ASSUME IInv, CreateVolume \/ UpDone
  PROVE  IInv'
<1>1. CASE CreateVolume
  BY <1>1 DEF CreateVolume, Goto, files, IInv, TypeOK, CurrentInv, RecordedInv, WorldInv, AdmittedInv,
              ProgressInv, OneFamilyPerWorld, TransitionAllowed, Found, AdmittedSteps,
              PulledSteps, UpSteps
<1>2. CASE UpDone
  <2>1. order \in Order /\ order # None
    BY InterfaceAssumption DEF IInv, TypeOK
  <2>2. order \in opened
    BY <1>2, <2>1, ServicesOfOrder DEF UpDone, IInv, WorldInv
  <2>. QED
    BY <1>2, <2>2
       DEF UpDone, Goto, host, files, IInv, TypeOK, CurrentInv, RecordedInv, WorldInv, AdmittedInv,
           ProgressInv, OneFamilyPerWorld, TransitionAllowed, Found, AdmittedSteps,
           PulledSteps, UpSteps
<1>. QED
  BY <1>1, <1>2

\* Compose up removes a container that is not of the render.
LEMMA RemoveOldInv ==
  ASSUME IInv, NEW s \in Service, RemoveOld(s)
  PROVE  IInv'
<1>1. TypeOK'
  BY DEF RemoveOld, files, IInv, TypeOK
<1>2. \A t \in Service : container'[t] = IF t = s THEN None ELSE container[t]
  BY DEF RemoveOld, IInv, TypeOK
<1>3. Found' \subseteq Found
  BY <1>2 DEF Found
<1>. QED
  BY <1>1, <1>2, <1>3
     DEF RemoveOld, files, IInv, CurrentInv, RecordedInv, WorldInv, AdmittedInv, ProgressInv,
         OneFamilyPerWorld, TransitionAllowed, AdmittedSteps, PulledSteps, UpSteps, Service

\* Compose up creates a container; the game server opens the world.
LEMMA CreateNewInv ==
  ASSUME IInv, NEW s \in Service, CreateNew(s)
  PROVE  IInv'
<1>. order \in Order /\ pc = "start" /\ s \in Services[order] /\ volume
     /\ UNCHANGED <<goal, volume, render, current, recorded, pc, order, answer, faults>>
     /\ (current # None => TransitionAllowed(current, order))
     /\ (current = None => opened \subseteq {order})
  BY DEF CreateNew, files, IInv, TypeOK, ProgressInv, AdmittedInv, AdmittedSteps,
         PulledSteps, UpSteps
<1>1. TypeOK'
  BY DEF CreateNew, IInv, TypeOK
<1>2. \A t \in Service : container'[t] = IF t = s THEN order ELSE container[t]
  BY DEF CreateNew, IInv, TypeOK
<1>3. Found' \subseteq Services[order]
  BY <1>2 DEF Found, IInv, AdmittedInv, AdmittedSteps, PulledSteps, UpSteps
<1>4. opened' \in {opened, opened \cup {order}} /\ (s = "minecraft" => order \in opened')
  BY DEF CreateNew
<1>5. CurrentInv' /\ RecordedInv' /\ OneFamilyPerWorld'
  BY <1>4 DEF IInv, CurrentInv, RecordedInv, OneFamilyPerWorld, TransitionAllowed
<1>6. WorldInv'
  BY <1>2, <1>4 DEF IInv, WorldInv, Service
<1>7. AdmittedInv' /\ ProgressInv'
  BY <1>3, <1>4 DEF IInv, AdmittedInv, ProgressInv, TransitionAllowed, AdmittedSteps,
                    PulledSteps, UpSteps
<1>. QED
  BY <1>1, <1>5, <1>6, <1>7 DEF IInv

\* The record.
LEMMA RecordInv ==
  ASSUME IInv, Record
  PROVE  IInv'
<1>. pc = "record" /\ pc' = "idle" /\ answer' = "ok" /\ current' = order /\ order \in Order
     /\ recorded' = recorded \cup {order}
     /\ UNCHANGED <<goal, host, render, order, faults>>
  BY DEF Record, Return, IInv, TypeOK
<1>1. \A o \in opened : Family[o] = Family[order]
  BY DEF IInv, CurrentInv, RecordedInv, AdmittedInv, TransitionAllowed, AdmittedSteps, PulledSteps, UpSteps
<1>2. CurrentInv'
  BY <1>1 DEF IInv, CurrentInv, ProgressInv, PulledSteps, UpSteps, host
<1>3. RecordedInv'
  <2>1. order # None /\ Revision[order] \in Nat /\ \A q \in recorded : Revision[q] \in Nat
    BY InterfaceAssumption DEF IInv, TypeOK
  <2>2. current # None => Revision[current] \in Nat /\ Revision[order] >= Revision[current]
    BY InterfaceAssumption
       DEF IInv, TypeOK, AdmittedInv, TransitionAllowed, AdmittedSteps, PulledSteps, UpSteps
  <2>3. \A q \in recorded : Revision[order] >= Revision[q]
    BY <2>1, <2>2 DEF IInv, RecordedInv
  <2>. QED
    BY <2>1, <2>3 DEF RecordedInv
<1>. QED
  BY <1>2, <1>3 DEF IInv, TypeOK, WorldInv, AdmittedInv, ProgressInv, OneFamilyPerWorld,
              AdmittedSteps, PulledSteps, UpSteps, host

\* What the operator does: edits, and removes containers.
LEMMA OperatorInv ==
  ASSUME IInv, RemoveContainers \/ \E o \in Order : Edit(o)
  PROVE  IInv'
<1>1. CASE RemoveContainers
  <2>1. faults' \in 0..MaxFaults
    BY <1>1, FaultType DEF RemoveContainers, IInv, TypeOK
  <2>2. TypeOK'
    BY <1>1, <2>1 DEF RemoveContainers, files, IInv, TypeOK
  <2>3. Found' = {} /\ container'["minecraft"] = None
    BY <1>1 DEF RemoveContainers, Found, Service
  <2>. QED
    BY <1>1, <2>2, <2>3
       DEF RemoveContainers, files, IInv, CurrentInv, RecordedInv, WorldInv, AdmittedInv, ProgressInv,
           OneFamilyPerWorld, TransitionAllowed
<1>2. CASE \E o \in Order : Edit(o)
  <2>1. faults' \in 0..MaxFaults
    BY <1>2, FaultType DEF Edit
  <2>. QED
    BY <1>2, <2>1
       DEF Edit, host, files, IInv, TypeOK, CurrentInv, RecordedInv, WorldInv, AdmittedInv, ProgressInv,
           OneFamilyPerWorld, TransitionAllowed, Found
<1>. QED
  BY <1>1, <1>2

\* No step of a run or of the operator breaks the invariant.
LEMMA StepInv == IInv /\ [Next]_vars => IInv'
<1>. SUFFICES ASSUME IInv, [Next]_vars PROVE IInv'
  OBVIOUS
<1>1. CASE Begin
  BY <1>1, IdleInv DEF Begin, Goto, host, files, IInv, TypeOK
<1>2. CASE Stop
  <2>1. faults' \in 0..MaxFaults
    BY <1>2, FaultType DEF Stop
  <2>. QED
    BY <1>2, <2>1, IdleInv DEF Stop, Return, host, files, IInv, TypeOK
<1>3. CASE Work
  BY <1>3, PreflightInv, PublishInv, UpInv, RemoveOldInv, CreateNewInv, RecordInv DEF Work
<1>4. CASE UNCHANGED vars
  BY <1>4 DEF vars, IInv, TypeOK, CurrentInv, RecordedInv, WorldInv, AdmittedInv, ProgressInv,
              OneFamilyPerWorld, TransitionAllowed, Found
<1>. QED
  BY <1>1, <1>2, <1>3, <1>4, OperatorInv DEF Next

\* The invariant on which the theorems below rest.
THEOREM InterfaceInvariance == Spec => []IInv
  BY InitInv, StepInv, PTL DEF Spec

\* The variables keep their types.
THEOREM InterfaceTypeCorrect == Spec => []TypeOK
<1>1. IInv => TypeOK
  BY DEF IInv
<1>. QED
  BY <1>1, InterfaceInvariance, PTL

\* A world is only ever opened by orders of one preset family.
THEOREM WorldKeepsFamily == Spec => []OneFamilyPerWorld
<1>1. IInv => OneFamilyPerWorld
  BY DEF IInv
<1>. QED
  BY <1>1, InterfaceInvariance, PTL

\* current.json names a render that is there, of a world that was opened.
THEOREM RecordLoads == Spec => []CurrentIsLoadable
<1>1. IInv => CurrentIsLoadable
  BY DEF IInv, CurrentInv, RecordedInv, CurrentIsLoadable
<1>. QED
  BY <1>1, InterfaceInvariance, PTL

\* No update, finished or not, starts a game server over a world whose
\* record has ever named a newer revision.
THEOREM NeverOlder == Spec => NeverOlderThanRecorded
<1>1. ASSUME IInv, [Next]_vars, NEW o \in Order, Opens(o), NEW q \in recorded
      PROVE  Revision[o] >= Revision[q]
  <2>1. o # None /\ "minecraft" \in Service
    BY InterfaceAssumption DEF Service
  <2>2. \E s \in Service : CreateNew(s)
    BY <1>1, <2>1
       DEF Opens, Next, Work, Begin, Preflight, PublishFiles, PublishLock, FetchArtifacts,
           CheckAndPull, CreateVolume, UpDone, Record, RemoveOld, Stop, RemoveContainers,
           Edit, host, files, vars, IInv, TypeOK
  <2>3. order = o /\ pc = "start"
    BY <1>1, <2>2 DEF Opens, CreateNew, IInv, TypeOK
  <2>4. current \in Order /\ TransitionAllowed(current, o)
    BY <1>1, <2>3
       DEF IInv, TypeOK, RecordedInv, AdmittedInv, AdmittedSteps, PulledSteps, UpSteps
  <2>5. Revision[current] >= Revision[q] /\ Revision[o] >= Revision[current]
    BY <1>1, <2>4, InterfaceAssumption DEF IInv, RecordedInv, TransitionAllowed
  <2>6. Revision[o] \in Nat /\ Revision[current] \in Nat /\ Revision[q] \in Nat
    BY <1>1, <2>4, InterfaceAssumption DEF IInv, TypeOK
  <2>. QED
    BY <2>5, <2>6
<1>2. IInv /\ [Next]_vars =>
        \A o \in Order : Opens(o) => \A q \in recorded : Revision[o] >= Revision[q]
  BY <1>1
<1>. QED
  BY <1>2, InterfaceInvariance, PTL DEF Spec, NeverOlderThanRecorded
=============================================================================
