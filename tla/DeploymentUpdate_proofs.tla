---------------------- MODULE DeploymentUpdate_proofs ----------------------
(***************************************************************************)
(* Proofs about DeploymentUpdate, for every set of locks and processes and *)
(* every choice of crash and fault points.                                 *)
(***************************************************************************)
EXTENDS DeploymentUpdate, TLAPS

(***************************************************************************)
(* The inductive invariant, in layers, each over the ones before it.                    *)
(***************************************************************************)
PublishSteps == {"order", "lock", "inputs", "render", "swap"}
RunSteps == {"start", "doctor", "record-result"}
SourceSteps == {"check", "pull", "stop", "record-stopped"}
ApplySteps == SourceSteps \cup PublishSteps \cup {"record-published"} \cup RunSteps

\* A command has chosen its plan from the step on that needs one, and only
\* apply rolls back.
PlanChosen ==
  \A c \in Proc :
    /\ pc[c] \in ApplySteps \cup {"activate"} => cur[c] \in Plan
    /\ back[c] => pc[c] \in ApplySteps

\* Types, and the plan of each command.
TypeInv == TypeOK /\ PlanChosen

\* Who is not idle holds transaction.lock.
Mutex == \A c \in Proc : pc[c] # "idle" => flock = c

\* The recorded phase of a plan is the one its process's step belongs to.
PhaseInv ==
  \A c \in Proc :
    /\ pc[c] = "activate" => phase[cur[c]] = "prepared"
    /\ back[c] => pc[c] \in PublishSteps \cup RunSteps
    /\ pc[c] \in SourceSteps => phase[cur[c]] = "prepared"
    /\ pc[c] \in PublishSteps \cup {"record-published"} /\ ~back[c] =>
         phase[cur[c]] = "source-stopped"
    /\ pc[c] \in RunSteps /\ ~back[c] => phase[cur[c]] = "target-published"
    /\ back[c] => phase[cur[c]] \in {"prepared", "source-stopped", "target-published"}

\* Every open plan is the active one, an orphan, or about to become active;
\* while a command plans, the active plan is complete.
ActiveInv ==
  /\ \A p \in Plan : Open(p) =>
       \/ active = p
       \/ p \in orphans
       \/ \E c \in Proc : pc[c] = "activate" /\ cur[c] = p
  /\ \A c \in Proc : pc[c] \in {"plan", "activate"} =>
       active = NoPlan \/ (active \in Plan /\ phase[active] = "complete")

\* The plans some apply has begun to carry out.
Engaged(p) ==
  \/ phase[p] \in {"source-stopped", "target-published"}
  \/ \E c \in Proc : cur[c] = p /\ pc[c] \in ApplySteps \ {"check"}

\* A plan that is carried out finds a deployment of its identity.
IdentityInv ==
  \A p \in Plan : Engaged(p) => lock.identity = Source(p).identity

\* What the project holds at each step, as far as one open plan goes.
ProjectInv ==
  /\ \A p \in Plan : Engaged(p) /\ orphans = {} => lock \in {Source(p), Target(p)}
  /\ \A p \in Plan : phase[p] = "target-published" =>
       \/ lock = Target(p)
       \/ p \in interrupted
       \/ orphans # {}
       \/ \E c \in Proc : cur[c] = p /\ back[c]
  /\ \A c \in Proc :
       /\ pc[c] \in {"inputs", "render", "swap", "record-published"} => lock = Goal(c)
       /\ pc[c] \in RunSteps /\ back[c] => lock = Source(cur[c])
       /\ pc[c] = "record-result" => Serving(lock)

\* Order and output, and the tree moved aside, belong to the plan at work.
FilesInv ==
  /\ \A p \in Plan : Engaged(p) /\ orphans = {} =>
       order \in {Source(p), Target(p)} /\ output \in {Source(p), Target(p), Missing}
  /\ \A c \in Proc : pc[c] = "swap" /\ orphans = {} =>
       aside \in {Source(cur[c]), Target(cur[c]), Missing}

IInv == TypeInv /\ Mutex /\ PhaseInv /\ ActiveInv /\ IdentityInv /\ ProjectInv /\ FilesInv

\* A plan is a pair of locks of one identity: its source and its target.
LEMMA PlanParts ==
  \A p \in Plan : Source(p) \in Lock /\ Target(p) \in Lock
                  /\ Source(p).identity = Target(p).identity
  BY DEF Plan, Source, Target, InPlaceTransition

(***************************************************************************)
(* Types                                                                   *)
(***************************************************************************)
ProcessType ==
  /\ flock \in Proc \cup {NoProc}
  /\ pc \in [Proc -> Steps \cup {"idle"}]
  /\ cur \in [Proc -> Plan \cup {NoPlan}]
  /\ back \in [Proc -> BOOLEAN]
  /\ PlanChosen

\* Moving a process to another step of plan or apply keeps the types of the
\* process variables.
LEMMA GotoType ==
  ASSUME TypeInv, NEW c \in Proc, pc[c] \in ApplySteps, NEW step \in ApplySteps, Goto(c, step)
  PROVE  ProcessType'
  BY DEF TypeInv, TypeOK, PlanChosen, ProcessType, Goto, Steps, ApplySteps, SourceSteps,
         PublishSteps, RunSteps

\* So does the release of transaction.lock.
LEMMA UnlockType ==
  ASSUME TypeInv, NEW c \in Proc, Unlock(c)
  PROVE  ProcessType'
  BY DEF TypeInv, TypeOK, PlanChosen, ProcessType, Unlock, Steps, ApplySteps, SourceSteps,
         PublishSteps, RunSteps

\* So does the turn into apply's except branch.
LEMMA RollBackType ==
  ASSUME TypeInv, NEW c \in Proc, pc[c] \in ApplySteps, UNCHANGED <<flock, cur>>,
         pc' = [pc EXCEPT ![c] = "order"], back' = [back EXCEPT ![c] = TRUE]
  PROVE  ProcessType'
  BY DEF TypeInv, TypeOK, PlanChosen, ProcessType, Steps, ApplySteps, SourceSteps,
         PublishSteps, RunSteps

\* Writing state.json with a known phase keeps the type of the phases.
LEMMA RecordType ==
  ASSUME TypeInv, NEW p \in Plan, NEW value \in UpdatePhases, Record(p, value)
  PROVE  phase' \in [Plan -> UpdatePhases \cup {"none"}]
  BY DEF TypeInv, TypeOK, Record

\* An exception in apply, rolling back or not, keeps the types.
LEMMA FailType ==
  ASSUME TypeInv, NEW c \in Proc, pc[c] \in ApplySteps, Fail(c)
  PROVE  ProcessType' /\ phase' \in [Plan -> UpdatePhases \cup {"none"}]
  <1>. cur[c] \in Plan
    BY DEF TypeInv, PlanChosen
  <1>1. CASE back[c]
    <2>1. Record(cur[c], "rollback-failed") /\ Unlock(c)
      BY <1>1 DEF Fail
    <2>. QED
      BY <2>1, RecordType, UnlockType DEF UpdatePhases
  <1>2. CASE ~back[c] /\ phase[cur[c]] \in {"source-stopped", "target-published"}
    <2>1. /\ UNCHANGED <<phase, flock, cur>>
          /\ pc' = [pc EXCEPT ![c] = "order"]
          /\ back' = [back EXCEPT ![c] = TRUE]
      BY <1>2 DEF Fail
    <2>. QED
      BY <2>1, RollBackType DEF TypeInv, TypeOK
  <1>3. CASE ~back[c] /\ phase[cur[c]] \notin {"source-stopped", "target-published"}
    <2>1. UNCHANGED phase /\ Unlock(c)
      BY <1>3 DEF Fail
    <2>. QED
      BY <2>1, UnlockType DEF TypeInv, TypeOK
  <1>. QED
    BY <1>1, <1>2, <1>3

\* The types hold of a deployment that was never updated.
LEMMA TypeInvInit == Init => TypeInv
  <1> SUFFICES ASSUME Init PROVE TypeInv
    OBVIOUS
  <1>1. phase \in [Plan -> UpdatePhases \cup {"none"}]
    BY DEF Init
  <1>2. pc \in [Proc -> Steps \cup {"idle"}] /\ cur \in [Proc -> Plan \cup {NoPlan}]
        /\ back \in [Proc -> BOOLEAN]
    BY DEF Init
  <1>3. PlanChosen
    BY DEF Init, PlanChosen, ApplySteps, SourceSteps, PublishSteps, RunSteps
  <1>. QED
    BY <1>1, <1>2, <1>3, DeploymentUpdateAssumption
       DEF DeploymentUpdateAssumption, Init, TypeInv, TypeOK

\* Every step of the commands and of their environment keeps the types.
LEMMA TypeInvStep == TypeInv /\ [Next]_vars => TypeInv'
<1> SUFFICES ASSUME TypeInv, [Next]_vars PROVE TypeInv'
  OBVIOUS
<1>1. ASSUME NEW c \in Proc, BeginPlan(c) PROVE TypeInv'
  BY <1>1, PlanParts DEF TypeInv, TypeOK, PlanChosen, Steps, UpdatePhases, ApplySteps,
     SourceSteps, PublishSteps, RunSteps, BeginPlan, Acquire, project, runtime,
     process, history
<1>2. ASSUME NEW c \in Proc, PreparePlan(c) PROVE TypeInv'
  BY <1>2, PlanParts DEF TypeInv, TypeOK, PlanChosen, Steps, UpdatePhases, ApplySteps,
     SourceSteps, PublishSteps, RunSteps, PreparePlan, Record, project, runtime,
     process, history
<1>3. ASSUME NEW c \in Proc, AbandonPlan(c) PROVE TypeInv'
  BY <1>3, PlanParts DEF TypeInv, TypeOK, PlanChosen, Steps, UpdatePhases, ApplySteps,
     SourceSteps, PublishSteps, RunSteps, AbandonPlan, Unlock, project, runtime,
     process, history
<1>4. ASSUME NEW c \in Proc, ActivatePlan(c) PROVE TypeInv'
  BY <1>4, PlanParts DEF TypeInv, TypeOK, PlanChosen, Steps, UpdatePhases, ApplySteps,
     SourceSteps, PublishSteps, RunSteps, ActivatePlan, Unlock, project, runtime,
     process, history
<1>5. ASSUME NEW c \in Proc, ActivateFails(c) PROVE TypeInv'
  BY <1>5, PlanParts DEF TypeInv, TypeOK, PlanChosen, Steps, UpdatePhases, ApplySteps,
     SourceSteps, PublishSteps, RunSteps, ActivateFails, Unlock, project, runtime,
     process, history
<1>6. ASSUME NEW c \in Proc, CheckSource(c) PROVE TypeInv'
  <2>1. pc[c] \in ApplySteps
    BY <1>6 DEF CheckSource, ApplySteps, SourceSteps, PublishSteps, RunSteps
  <2>2. CASE Goto(c, "pull")
    <3>1. ProcessType'
      BY <2>1, <2>2, GotoType DEF ApplySteps, SourceSteps, PublishSteps, RunSteps
    <3>. QED
      BY <1>6, <3>1 DEF CheckSource, ProcessType, TypeInv, TypeOK, runtime, project,
         history
  <2>3. CASE Unlock(c)
    <3>1. ProcessType'
      BY <2>3, UnlockType
    <3>. QED
      BY <1>6, <3>1 DEF CheckSource, ProcessType, TypeInv, TypeOK, runtime, project,
         history
  <2>. QED
    BY <1>6, <2>2, <2>3 DEF CheckSource
<1>7. ASSUME NEW c \in Proc, PullTarget(c) PROVE TypeInv'
  <2>1. pc[c] \in ApplySteps
    BY <1>7 DEF PullTarget, ApplySteps, SourceSteps, PublishSteps, RunSteps
  <2>2. CASE Goto(c, "stop")
    <3>1. ProcessType'
      BY <2>1, <2>2, GotoType DEF ApplySteps, SourceSteps, PublishSteps, RunSteps
    <3>. QED
      BY <1>7, <3>1 DEF PullTarget, ProcessType, TypeInv, TypeOK, runtime, project,
         history
  <2>3. CASE Unlock(c)
    <3>1. ProcessType'
      BY <2>3, UnlockType
    <3>. QED
      BY <1>7, <3>1 DEF PullTarget, ProcessType, TypeInv, TypeOK, runtime, project,
         history
  <2>. QED
    BY <1>7, <2>2, <2>3 DEF PullTarget
<1>8. ASSUME NEW c \in Proc, StopSource(c) PROVE TypeInv'
  BY <1>8, PlanParts DEF TypeInv, TypeOK, PlanChosen, Steps, UpdatePhases, ApplySteps,
     SourceSteps, PublishSteps, RunSteps, StopSource, Goto, project, runtime, process,
     history
<1>9. ASSUME NEW c \in Proc, StopSourceFails(c) PROVE TypeInv'
  BY <1>9, PlanParts DEF TypeInv, TypeOK, PlanChosen, Steps, UpdatePhases, ApplySteps,
     SourceSteps, PublishSteps, RunSteps, StopSourceFails, Unlock, project, runtime,
     process, history
<1>10. ASSUME NEW c \in Proc, RecordStopped(c) PROVE TypeInv'
  BY <1>10, PlanParts DEF TypeInv, TypeOK, PlanChosen, Steps, UpdatePhases, ApplySteps,
     SourceSteps, PublishSteps, RunSteps, RecordStopped, Record, Goto, project,
     runtime, process, history
<1>11. ASSUME NEW c \in Proc, PublishOrder(c) PROVE TypeInv'
  BY <1>11, PlanParts DEF TypeInv, TypeOK, PlanChosen, Steps, UpdatePhases, ApplySteps,
     SourceSteps, PublishSteps, RunSteps, PublishOrder, Goto, Goal, project, runtime,
     process, history
<1>12. ASSUME NEW c \in Proc, PublishLock(c) PROVE TypeInv'
  BY <1>12, PlanParts DEF TypeInv, TypeOK, PlanChosen, Steps, UpdatePhases, ApplySteps,
     SourceSteps, PublishSteps, RunSteps, PublishLock, Goto, Goal, project, runtime,
     process, history
<1>13. ASSUME NEW c \in Proc, PublishInputs(c) PROVE TypeInv'
  BY <1>13, PlanParts DEF TypeInv, TypeOK, PlanChosen, Steps, UpdatePhases, ApplySteps,
     SourceSteps, PublishSteps, RunSteps, PublishInputs, Goto, Goal, project, runtime,
     process, history
<1>14. ASSUME NEW c \in Proc, RenderOutput(c) PROVE TypeInv'
  BY <1>14, PlanParts DEF TypeInv, TypeOK, PlanChosen, Steps, UpdatePhases, ApplySteps,
     SourceSteps, PublishSteps, RunSteps, RenderOutput, Goto, AfterPublish, project,
     runtime, process, history
<1>15. ASSUME NEW c \in Proc, SwapOutput(c) PROVE TypeInv'
  BY <1>15, PlanParts DEF TypeInv, TypeOK, PlanChosen, Steps, UpdatePhases, ApplySteps,
     SourceSteps, PublishSteps, RunSteps, SwapOutput, Goto, AfterPublish, project,
     runtime, process, history
<1>16. ASSUME NEW c \in Proc, SwapOutputFails(c) PROVE TypeInv'
  <2>1. pc[c] \in ApplySteps /\ Fail(c)
    BY <1>16 DEF SwapOutputFails, ApplySteps, SourceSteps, PublishSteps, RunSteps
  <2>. QED
    BY <1>16, <2>1, FailType DEF SwapOutputFails, Fail, ProcessType, TypeInv, TypeOK,
       runtime, project, history
<1>17. ASSUME NEW c \in Proc, PublishFails(c) PROVE TypeInv'
  <2>1. pc[c] \in ApplySteps /\ Fail(c)
    BY <1>17 DEF PublishFails, ApplySteps, SourceSteps, PublishSteps, RunSteps
  <2>. QED
    BY <1>17, <2>1, FailType DEF PublishFails, Fail, ProcessType, TypeInv, TypeOK,
       runtime, project, history
<1>18. ASSUME NEW c \in Proc, RecordPublished(c) PROVE TypeInv'
  BY <1>18, PlanParts DEF TypeInv, TypeOK, PlanChosen, Steps, UpdatePhases, ApplySteps,
     SourceSteps, PublishSteps, RunSteps, RecordPublished, Record, Goto, project,
     runtime, process, history
<1>19. ASSUME NEW c \in Proc, StartProject(c) PROVE TypeInv'
  BY <1>19, PlanParts DEF TypeInv, TypeOK, PlanChosen, Steps, UpdatePhases, ApplySteps,
     SourceSteps, PublishSteps, RunSteps, StartProject, Goto, project, runtime,
     process, history
<1>20. ASSUME NEW c \in Proc, StartFails(c) PROVE TypeInv'
  <2>1. pc[c] \in ApplySteps /\ Fail(c)
    BY <1>20 DEF StartFails, ApplySteps, SourceSteps, PublishSteps, RunSteps
  <2>. QED
    BY <1>20, <2>1, FailType DEF StartFails, Fail, ProcessType, TypeInv, TypeOK,
       runtime, project, history
<1>21. ASSUME NEW c \in Proc, VerifyProject(c) PROVE TypeInv'
  BY <1>21, PlanParts DEF TypeInv, TypeOK, PlanChosen, Steps, UpdatePhases, ApplySteps,
     SourceSteps, PublishSteps, RunSteps, VerifyProject, Goto, project, runtime,
     process, history
<1>22. ASSUME NEW c \in Proc, VerifyFails(c) PROVE TypeInv'
  <2>1. pc[c] \in ApplySteps /\ Fail(c)
    BY <1>22 DEF VerifyFails, ApplySteps, SourceSteps, PublishSteps, RunSteps
  <2>. QED
    BY <1>22, <2>1, FailType DEF VerifyFails, Fail, ProcessType, TypeInv, TypeOK,
       runtime, project, history
<1>23. ASSUME NEW c \in Proc, RecordResult(c) PROVE TypeInv'
  BY <1>23, PlanParts DEF TypeInv, TypeOK, PlanChosen, Steps, UpdatePhases, ApplySteps,
     SourceSteps, PublishSteps, RunSteps, RecordResult, Record, Unlock, project,
     runtime, process, history
<1>24. ASSUME NEW c \in Proc, RecordFails(c) PROVE TypeInv'
  <2>1. pc[c] \in ApplySteps
    BY <1>24 DEF RecordFails, ApplySteps, SourceSteps, PublishSteps, RunSteps
  <2>2. cur[c] \in Plan /\ interrupted' \subseteq Plan
    BY <1>24, <2>1 DEF RecordFails, CutRollback, TypeInv, TypeOK, PlanChosen
  <2>3. ProcessType'
    <3>1. CASE pc[c] = "record-result"
      BY <1>24, <3>1, UnlockType DEF RecordFails
    <3>2. CASE pc[c] # "record-result"
      BY <1>24, <3>2, <2>1, RollBackType DEF RecordFails
    <3>. QED
      BY <3>1, <3>2
  <2>. QED
    BY <1>24, <2>2, <2>3 DEF RecordFails, ProcessType, TypeInv, TypeOK, runtime, project
<1>25. ASSUME NEW c \in Proc, Crash(c) PROVE TypeInv'
  <2>1. ProcessType'
    BY <1>25, UnlockType DEF Crash
  <2>2. cur[c] \in Plan \/ pc[c] \in {"plan", "idle"}
    BY DEF TypeInv, TypeOK, PlanChosen, Steps, ApplySteps, SourceSteps, PublishSteps,
       RunSteps
  <2>3. pc[c] # "idle"
    BY <1>25, DeploymentUpdateAssumption DEF Crash, DeploymentUpdateAssumption, Steps
  <2>4. interrupted' \subseteq Plan /\ orphans' \subseteq Plan
    BY <1>25, <2>2, <2>3 DEF Crash, CutRollback, TypeInv, TypeOK, PlanChosen,
       ApplySteps, SourceSteps, PublishSteps, RunSteps
  <2>5. health' \in {"healthy", "broken", "down"} /\ running' \in Lock \cup {NoLock}
    BY <1>25 DEF Crash, RuntimeAfterCrash, TypeInv, TypeOK, runtime
  <2>6. active' \in Plan \cup {NoPlan, Torn}
    BY <1>25 DEF Crash, TypeInv, TypeOK
  <2>7. stray' \in BOOLEAN
    BY <1>25 DEF Crash, TypeInv, TypeOK
  <2>8. crashes' \in Nat
    BY <1>25 DEF Crash, TypeInv, TypeOK
  <2>. QED
    BY <1>25, <2>1, <2>4, <2>5, <2>6, <2>7, <2>8 DEF Crash, ProcessType, TypeInv, TypeOK
<1>26. ASSUME NEW c \in Proc, NEW p \in Plan, BeginApply(c, p) PROVE TypeInv'
  <2>1. PICK step \in {"check", "order", "start"} : Acquire(c, step, p)
    BY <1>26 DEF BeginApply
  <2>2. ProcessType'
    BY <2>1 DEF Acquire, ProcessType, TypeInv, TypeOK, PlanChosen, Steps, ApplySteps,
       SourceSteps, PublishSteps, RunSteps
  <2>3. phase' \in [Plan -> UpdatePhases \cup {"none"}]
    BY <1>26 DEF BeginApply, Record, TypeInv, TypeOK, UpdatePhases
  <2>. QED
    BY <1>26, <2>2, <2>3 DEF BeginApply, ProcessType, TypeInv, TypeOK, runtime,
       project, history
<1>27. CASE OperatorEdit
  BY <1>27, PlanParts DEF TypeInv, TypeOK, PlanChosen, Steps, UpdatePhases, ApplySteps,
     SourceSteps, PublishSteps, RunSteps, OperatorEdit, MayEdit, EditOrder, EditInputs, Resolve, Render, project, runtime, process, history
<1>28. CASE UpgradeTool
  BY <1>28, PlanParts DEF TypeInv, TypeOK, PlanChosen, Steps, UpdatePhases, ApplySteps,
     SourceSteps, PublishSteps, RunSteps, UpgradeTool, project, runtime, process, history
<1>29. CASE UNCHANGED vars
  BY <1>29, PlanParts DEF TypeInv, TypeOK, PlanChosen, Steps, UpdatePhases, ApplySteps,
     SourceSteps, PublishSteps, RunSteps, vars, project, runtime, process, history
<1>. QED
  BY <1>1, <1>2, <1>3, <1>4, <1>5, <1>6, <1>7, <1>8, <1>9, <1>10, <1>11, <1>12, <1>13,
     <1>14, <1>15, <1>16, <1>17, <1>18, <1>19, <1>20, <1>21, <1>22, <1>23, <1>24,
     <1>25, <1>26, <1>27, <1>28, <1>29 DEF Next, PlanStep, ApplyStep

\* Type correctness of every reachable state.
THEOREM TypeCorrect == Spec => []TypeOK
<1>1. Init => TypeInv
  BY TypeInvInit
<1>2. TypeInv /\ [Next]_vars => TypeInv'
  BY TypeInvStep
<1>3. TypeInv => TypeOK
  BY DEF TypeInv
<1>. QED
  BY <1>1, <1>2, <1>3, PTL DEF Spec

(***************************************************************************)
(* transaction.lock                                                        *)
(***************************************************************************)
\* At first no command runs.
LEMMA MutexInit == Init => Mutex
  BY DEF Init, Mutex

\* At every step a process that works is the holder of transaction.lock.
LEMMA MutexStep == TypeInv /\ Mutex /\ [Next]_vars => Mutex'
<1> SUFFICES ASSUME TypeInv, Mutex, [Next]_vars PROVE Mutex'
  OBVIOUS
<1> USE DeploymentUpdateAssumption DEF TypeInv, TypeOK, Mutex
<1>1. ASSUME NEW c \in Proc, BeginPlan(c) PROVE Mutex'
  BY <1>1 DEF DeploymentUpdateAssumption, Steps, BeginPlan, Acquire, project, runtime,
     process, history
<1>2. ASSUME NEW c \in Proc, PreparePlan(c) PROVE Mutex'
  BY <1>2 DEF DeploymentUpdateAssumption, Steps, PreparePlan, Record, project, runtime,
     process, history
<1>3. ASSUME NEW c \in Proc, AbandonPlan(c) PROVE Mutex'
  BY <1>3 DEF DeploymentUpdateAssumption, Steps, AbandonPlan, Unlock, project, runtime,
     process, history
<1>4. ASSUME NEW c \in Proc, ActivatePlan(c) PROVE Mutex'
  BY <1>4 DEF DeploymentUpdateAssumption, Steps, ActivatePlan, Unlock, project,
     runtime, process, history
<1>5. ASSUME NEW c \in Proc, ActivateFails(c) PROVE Mutex'
  BY <1>5 DEF DeploymentUpdateAssumption, Steps, ActivateFails, Unlock, project,
     runtime, process, history
<1>6. ASSUME NEW c \in Proc, CheckSource(c) PROVE Mutex'
  BY <1>6 DEF DeploymentUpdateAssumption, Steps, CheckSource, Goto, Unlock, project,
     runtime, process, history
<1>7. ASSUME NEW c \in Proc, PullTarget(c) PROVE Mutex'
  BY <1>7 DEF DeploymentUpdateAssumption, Steps, PullTarget, Goto, Unlock, project,
     runtime, process, history
<1>8. ASSUME NEW c \in Proc, StopSource(c) PROVE Mutex'
  BY <1>8 DEF DeploymentUpdateAssumption, Steps, StopSource, Goto, project, runtime,
     process, history
<1>9. ASSUME NEW c \in Proc, StopSourceFails(c) PROVE Mutex'
  BY <1>9 DEF DeploymentUpdateAssumption, Steps, StopSourceFails, Unlock, project,
     runtime, process, history
<1>10. ASSUME NEW c \in Proc, RecordStopped(c) PROVE Mutex'
  BY <1>10 DEF DeploymentUpdateAssumption, Steps, RecordStopped, Record, Goto, project,
     runtime, process, history
<1>11. ASSUME NEW c \in Proc, PublishOrder(c) PROVE Mutex'
  BY <1>11 DEF DeploymentUpdateAssumption, Steps, PublishOrder, Goto, Goal, project,
     runtime, process, history
<1>12. ASSUME NEW c \in Proc, PublishLock(c) PROVE Mutex'
  BY <1>12 DEF DeploymentUpdateAssumption, Steps, PublishLock, Goto, Goal, project,
     runtime, process, history
<1>13. ASSUME NEW c \in Proc, PublishInputs(c) PROVE Mutex'
  BY <1>13 DEF DeploymentUpdateAssumption, Steps, PublishInputs, Goto, Goal, project,
     runtime, process, history
<1>14. ASSUME NEW c \in Proc, RenderOutput(c) PROVE Mutex'
  BY <1>14 DEF DeploymentUpdateAssumption, Steps, RenderOutput, Goto, AfterPublish,
     project, runtime, process, history
<1>15. ASSUME NEW c \in Proc, SwapOutput(c) PROVE Mutex'
  BY <1>15 DEF DeploymentUpdateAssumption, Steps, SwapOutput, Goto, AfterPublish,
     project, runtime, process, history
<1>16. ASSUME NEW c \in Proc, SwapOutputFails(c) PROVE Mutex'
  BY <1>16 DEF DeploymentUpdateAssumption, Steps, SwapOutputFails, Fail, Record,
     Unlock, project, runtime, process, history
<1>17. ASSUME NEW c \in Proc, PublishFails(c) PROVE Mutex'
  BY <1>17 DEF DeploymentUpdateAssumption, Steps, PublishFails, Fail, Record, Unlock,
     project, runtime, process, history
<1>18. ASSUME NEW c \in Proc, RecordPublished(c) PROVE Mutex'
  BY <1>18 DEF DeploymentUpdateAssumption, Steps, RecordPublished, Record, Goto,
     project, runtime, process, history
<1>19. ASSUME NEW c \in Proc, StartProject(c) PROVE Mutex'
  BY <1>19 DEF DeploymentUpdateAssumption, Steps, StartProject, Goto, project, runtime,
     process, history
<1>20. ASSUME NEW c \in Proc, StartFails(c) PROVE Mutex'
  BY <1>20 DEF DeploymentUpdateAssumption, Steps, StartFails, Fail, Record, Unlock,
     project, runtime, process, history
<1>21. ASSUME NEW c \in Proc, VerifyProject(c) PROVE Mutex'
  BY <1>21 DEF DeploymentUpdateAssumption, Steps, VerifyProject, Goto, project,
     runtime, process, history
<1>22. ASSUME NEW c \in Proc, VerifyFails(c) PROVE Mutex'
  BY <1>22 DEF DeploymentUpdateAssumption, Steps, VerifyFails, Fail, Record, Unlock,
     project, runtime, process, history
<1>23. ASSUME NEW c \in Proc, RecordResult(c) PROVE Mutex'
  BY <1>23 DEF DeploymentUpdateAssumption, Steps, RecordResult, Record, Unlock,
     project, runtime, process, history
<1>24. ASSUME NEW c \in Proc, RecordFails(c) PROVE Mutex'
  BY <1>24 DEF DeploymentUpdateAssumption, Steps, RecordFails, Unlock, CutRollback,
     project, runtime, process, history
<1>25. ASSUME NEW c \in Proc, Crash(c) PROVE Mutex'
  BY <1>25 DEF DeploymentUpdateAssumption, Steps, Crash, Unlock, RuntimeAfterCrash,
     CutRollback, project, runtime, process, history
<1>26. ASSUME NEW c \in Proc, NEW p \in Plan, BeginApply(c, p) PROVE Mutex'
  BY <1>26 DEF DeploymentUpdateAssumption, Steps, BeginApply, Acquire, Record, project,
     runtime, process, history
<1>27. CASE OperatorEdit
  BY <1>27 DEF DeploymentUpdateAssumption, Steps, OperatorEdit, MayEdit, EditOrder, EditInputs, Resolve, Render, project, runtime,
     process, history
<1>28. CASE UpgradeTool
  BY <1>28 DEF DeploymentUpdateAssumption, Steps, UpgradeTool, project, runtime,
     process, history
<1>29. CASE UNCHANGED vars
  BY <1>29 DEF DeploymentUpdateAssumption, Steps, vars, project, runtime, process, history
<1>. QED
  BY <1>1, <1>2, <1>3, <1>4, <1>5, <1>6, <1>7, <1>8, <1>9, <1>10, <1>11, <1>12, <1>13,
     <1>14, <1>15, <1>16, <1>17, <1>18, <1>19, <1>20, <1>21, <1>22, <1>23, <1>24,
     <1>25, <1>26, <1>27, <1>28, <1>29 DEF Next, PlanStep, ApplyStep

\* Only a publication and the operator replace the project's lock.
LEMMA LockChange ==
  [Next]_vars => (\E c \in Proc : PublishLock(c)) \/ OperatorEdit \/ UNCHANGED lock
<1> SUFFICES ASSUME [Next]_vars
             PROVE  (\E c \in Proc : PublishLock(c)) \/ OperatorEdit \/ UNCHANGED lock
  OBVIOUS
<1>1. CASE UNCHANGED vars
  BY <1>1 DEF vars, project
<1>2. CASE Next
  BY <1>2 DEF Next, PlanStep, ApplyStep, BeginPlan, PreparePlan, AbandonPlan,
     ActivatePlan,
     ActivateFails, BeginApply, CheckSource, PullTarget, StopSource, StopSourceFails,
     RecordStopped, PublishOrder, PublishInputs, RenderOutput, SwapOutput, SwapOutputFails,
     PublishFails, RecordPublished, StartProject, StartFails, VerifyProject, VerifyFails,
     RecordResult, RecordFails, Crash, UpgradeTool, project
<1>. QED
  BY <1>1, <1>2

(***************************************************************************)
(* The stateful identity                                                   *)
(***************************************************************************)
\* Every step keeps what the plans at work and the published project say of
\* the stateful identity.
LEMMA IdentityStep ==
  TypeInv /\ Mutex /\ IdentityInv /\ [Next]_vars => IdentityInv'
<1> SUFFICES ASSUME TypeInv, Mutex, IdentityInv, [Next]_vars PROVE IdentityInv'
  OBVIOUS
<1> USE PlanParts DEF TypeInv, TypeOK, Mutex, PlanChosen, IdentityInv, Engaged,
   ApplySteps, SourceSteps, PublishSteps, RunSteps
<1>1. ASSUME NEW c \in Proc, BeginPlan(c) PROVE IdentityInv'
  BY <1>1 DEF TypeInv, BeginPlan, Acquire, project, runtime, process, history
<1>2. ASSUME NEW c \in Proc, PreparePlan(c) PROVE IdentityInv'
  BY <1>2 DEF TypeInv, PreparePlan, Record, project, runtime, process, history
<1>3. ASSUME NEW c \in Proc, AbandonPlan(c) PROVE IdentityInv'
  BY <1>3 DEF TypeInv, AbandonPlan, Unlock, project, runtime, process, history
<1>4. ASSUME NEW c \in Proc, ActivatePlan(c) PROVE IdentityInv'
  BY <1>4 DEF TypeInv, ActivatePlan, Unlock, project, runtime, process, history
<1>5. ASSUME NEW c \in Proc, ActivateFails(c) PROVE IdentityInv'
  BY <1>5 DEF TypeInv, ActivateFails, Unlock, project, runtime, process, history
<1>6. ASSUME NEW c \in Proc, CheckSource(c) PROVE IdentityInv'
  BY <1>6 DEF TypeInv, CheckSource, Goto, Unlock, project, runtime, process, history
<1>7. ASSUME NEW c \in Proc, PullTarget(c) PROVE IdentityInv'
  BY <1>7 DEF TypeInv, PullTarget, Goto, Unlock, project, runtime, process, history
<1>8. ASSUME NEW c \in Proc, StopSource(c) PROVE IdentityInv'
  BY <1>8 DEF TypeInv, StopSource, Goto, project, runtime, process, history
<1>9. ASSUME NEW c \in Proc, StopSourceFails(c) PROVE IdentityInv'
  BY <1>9 DEF TypeInv, StopSourceFails, Unlock, project, runtime, process, history
<1>10. ASSUME NEW c \in Proc, RecordStopped(c) PROVE IdentityInv'
  BY <1>10 DEF TypeInv, RecordStopped, Record, Goto, project, runtime, process, history
<1>11. ASSUME NEW c \in Proc, PublishOrder(c) PROVE IdentityInv'
  BY <1>11 DEF TypeInv, PublishOrder, Goto, Goal, project, runtime, process, history
<1>12. ASSUME NEW c \in Proc, PublishLock(c) PROVE IdentityInv'
  BY <1>12 DEF TypeInv, PublishLock, Goto, Goal, project, runtime, process, history
<1>13. ASSUME NEW c \in Proc, PublishInputs(c) PROVE IdentityInv'
  BY <1>13 DEF TypeInv, PublishInputs, Goto, Goal, project, runtime, process, history
<1>14. ASSUME NEW c \in Proc, RenderOutput(c) PROVE IdentityInv'
  BY <1>14 DEF TypeInv, RenderOutput, Goto, AfterPublish, project, runtime, process,
     history
<1>15. ASSUME NEW c \in Proc, SwapOutput(c) PROVE IdentityInv'
  BY <1>15 DEF TypeInv, SwapOutput, Goto, AfterPublish, project, runtime, process, history
<1>16. ASSUME NEW c \in Proc, SwapOutputFails(c) PROVE IdentityInv'
  BY <1>16 DEF TypeInv, SwapOutputFails, Fail, Record, Unlock, project, runtime,
     process, history
<1>17. ASSUME NEW c \in Proc, PublishFails(c) PROVE IdentityInv'
  BY <1>17 DEF TypeInv, PublishFails, Fail, Record, Unlock, project, runtime, process,
     history
<1>18. ASSUME NEW c \in Proc, RecordPublished(c) PROVE IdentityInv'
  BY <1>18 DEF TypeInv, RecordPublished, Record, Goto, project, runtime, process, history
<1>19. ASSUME NEW c \in Proc, StartProject(c) PROVE IdentityInv'
  BY <1>19 DEF TypeInv, StartProject, Goto, project, runtime, process, history
<1>20. ASSUME NEW c \in Proc, StartFails(c) PROVE IdentityInv'
  BY <1>20 DEF TypeInv, StartFails, Fail, Record, Unlock, project, runtime, process,
     history
<1>21. ASSUME NEW c \in Proc, VerifyProject(c) PROVE IdentityInv'
  BY <1>21 DEF TypeInv, VerifyProject, Goto, project, runtime, process, history
<1>22. ASSUME NEW c \in Proc, VerifyFails(c) PROVE IdentityInv'
  BY <1>22 DEF TypeInv, VerifyFails, Fail, Record, Unlock, project, runtime, process,
     history
<1>23. ASSUME NEW c \in Proc, RecordResult(c) PROVE IdentityInv'
  BY <1>23 DEF TypeInv, RecordResult, Record, Unlock, project, runtime, process, history
<1>24. ASSUME NEW c \in Proc, RecordFails(c) PROVE IdentityInv'
  BY <1>24 DEF TypeInv, RecordFails, Unlock, CutRollback, project, runtime, process,
     history
<1>25. ASSUME NEW c \in Proc, Crash(c) PROVE IdentityInv'
  BY <1>25 DEF TypeInv, Crash, Unlock, RuntimeAfterCrash, CutRollback, project,
     runtime, process, history
<1>26. ASSUME NEW c \in Proc, NEW p \in Plan, BeginApply(c, p) PROVE IdentityInv'
  BY <1>26 DEF TypeInv, BeginApply, Acquire, Record, project, runtime, process, history
<1>27. CASE OperatorEdit
  <2>1. \A c \in Proc : pc[c] = "idle"
    BY <1>27, DeploymentUpdateAssumption DEF OperatorEdit, MayEdit, EditOrder, EditInputs, Resolve, Render, DeploymentUpdateAssumption
  <2>. QED
    BY <1>27, <2>1 DEF OperatorEdit, MayEdit, EditOrder, EditInputs, Resolve, Render, process
<1>28. CASE UpgradeTool
  BY <1>28 DEF TypeInv, UpgradeTool, project, runtime, process, history
<1>29. CASE UNCHANGED vars
  BY <1>29 DEF TypeInv, vars, project, runtime, process, history
<1>. QED
  BY <1>1, <1>2, <1>3, <1>4, <1>5, <1>6, <1>7, <1>8, <1>9, <1>10, <1>11, <1>12, <1>13,
     <1>14, <1>15, <1>16, <1>17, <1>18, <1>19, <1>20, <1>21, <1>22, <1>23, <1>24,
     <1>25, <1>26, <1>27, <1>28, <1>29 DEF Next, PlanStep, ApplyStep

\* No update command leads the deployment to another identity.
THEOREM IdentityKept == Spec => StatefulIdentityKept
<1>1. Init => TypeInv /\ Mutex /\ IdentityInv
  <2>1. Init => IdentityInv
    BY DEF Init, IdentityInv, Engaged, ApplySteps, SourceSteps, PublishSteps, RunSteps
  <2>. QED
    BY <2>1, TypeInvInit, MutexInit
<1>2. TypeInv /\ Mutex /\ IdentityInv /\ [Next]_vars => (TypeInv /\ Mutex /\ IdentityInv)'
  BY TypeInvStep, MutexStep, IdentityStep
<1>3. ASSUME TypeInv, Mutex, IdentityInv, [Next]_vars, flock # NoProc
      PROVE  lock'.identity = lock.identity
  <2>1. CASE \E c \in Proc : PublishLock(c)
    <3>1. PICK c \in Proc : PublishLock(c)
      BY <2>1
    <3>2. cur[c] \in Plan /\ Engaged(cur[c])
      BY <3>1, <1>3 DEF PublishLock, TypeInv, PlanChosen, Engaged, ApplySteps,
         SourceSteps,
         PublishSteps
    <3>. QED
      BY <3>1, <3>2, <1>3, PlanParts DEF PublishLock, Goal, IdentityInv
  <2>2. CASE UNCHANGED lock
    BY <2>2
  <2>3. CASE OperatorEdit
    BY <2>3, <1>3 DEF OperatorEdit, MayEdit, EditOrder, EditInputs, Resolve, Render
  <2>. QED
    BY <2>1, <2>2, <2>3, <1>3, LockChange
<1>. QED
  BY <1>1, <1>2, <1>3, PTL DEF Spec, StatefulIdentityKept

(***************************************************************************)
(* Steps and recorded phases                                               *)
(***************************************************************************)
\* The step a process is at and the phase in state.json go together: apply
\* advances one only after the other.
LEMMA PhaseStep == TypeInv /\ Mutex /\ PhaseInv /\ [Next]_vars => PhaseInv'
<1> SUFFICES ASSUME TypeInv, Mutex, PhaseInv, [Next]_vars PROVE PhaseInv'
  OBVIOUS
<1> USE DEF TypeInv, TypeOK, Mutex, PlanChosen, PhaseInv, Steps, ApplySteps,
   SourceSteps, PublishSteps, RunSteps
<1>1. ASSUME NEW c \in Proc, BeginPlan(c) PROVE PhaseInv'
  BY <1>1 DEF TypeInv, BeginPlan, Acquire, project, runtime, process, history
<1>2. ASSUME NEW c \in Proc, PreparePlan(c) PROVE PhaseInv'
  BY <1>2 DEF TypeInv, PreparePlan, Record, project, runtime, process, history
<1>3. ASSUME NEW c \in Proc, AbandonPlan(c) PROVE PhaseInv'
  BY <1>3 DEF TypeInv, AbandonPlan, Unlock, project, runtime, process, history
<1>4. ASSUME NEW c \in Proc, ActivatePlan(c) PROVE PhaseInv'
  BY <1>4 DEF TypeInv, ActivatePlan, Unlock, project, runtime, process, history
<1>5. ASSUME NEW c \in Proc, ActivateFails(c) PROVE PhaseInv'
  BY <1>5 DEF TypeInv, ActivateFails, Unlock, project, runtime, process, history
<1>6. ASSUME NEW c \in Proc, CheckSource(c) PROVE PhaseInv'
  BY <1>6 DEF TypeInv, CheckSource, Goto, Unlock, project, runtime, process, history
<1>7. ASSUME NEW c \in Proc, PullTarget(c) PROVE PhaseInv'
  BY <1>7 DEF TypeInv, PullTarget, Goto, Unlock, project, runtime, process, history
<1>8. ASSUME NEW c \in Proc, StopSource(c) PROVE PhaseInv'
  BY <1>8 DEF TypeInv, StopSource, Goto, project, runtime, process, history
<1>9. ASSUME NEW c \in Proc, StopSourceFails(c) PROVE PhaseInv'
  BY <1>9 DEF TypeInv, StopSourceFails, Unlock, project, runtime, process, history
<1>10. ASSUME NEW c \in Proc, RecordStopped(c) PROVE PhaseInv'
  BY <1>10 DEF TypeInv, RecordStopped, Record, Goto, project, runtime, process, history
<1>11. ASSUME NEW c \in Proc, PublishOrder(c) PROVE PhaseInv'
  BY <1>11 DEF TypeInv, PublishOrder, Goto, Goal, project, runtime, process, history
<1>12. ASSUME NEW c \in Proc, PublishLock(c) PROVE PhaseInv'
  BY <1>12 DEF TypeInv, PublishLock, Goto, Goal, project, runtime, process, history
<1>13. ASSUME NEW c \in Proc, PublishInputs(c) PROVE PhaseInv'
  BY <1>13 DEF TypeInv, PublishInputs, Goto, Goal, project, runtime, process, history
<1>14. ASSUME NEW c \in Proc, RenderOutput(c) PROVE PhaseInv'
  BY <1>14 DEF TypeInv, RenderOutput, Goto, AfterPublish, project, runtime, process,
     history
<1>15. ASSUME NEW c \in Proc, SwapOutput(c) PROVE PhaseInv'
  BY <1>15 DEF TypeInv, SwapOutput, Goto, AfterPublish, project, runtime, process, history
<1>16. ASSUME NEW c \in Proc, SwapOutputFails(c) PROVE PhaseInv'
  BY <1>16 DEF TypeInv, SwapOutputFails, Fail, Record, Unlock, project, runtime,
     process, history
<1>17. ASSUME NEW c \in Proc, PublishFails(c) PROVE PhaseInv'
  BY <1>17 DEF TypeInv, PublishFails, Fail, Record, Unlock, project, runtime, process,
     history
<1>18. ASSUME NEW c \in Proc, RecordPublished(c) PROVE PhaseInv'
  BY <1>18 DEF TypeInv, RecordPublished, Record, Goto, project, runtime, process, history
<1>19. ASSUME NEW c \in Proc, StartProject(c) PROVE PhaseInv'
  BY <1>19 DEF TypeInv, StartProject, Goto, project, runtime, process, history
<1>20. ASSUME NEW c \in Proc, StartFails(c) PROVE PhaseInv'
  BY <1>20 DEF TypeInv, StartFails, Fail, Record, Unlock, project, runtime, process,
     history
<1>21. ASSUME NEW c \in Proc, VerifyProject(c) PROVE PhaseInv'
  BY <1>21 DEF TypeInv, VerifyProject, Goto, project, runtime, process, history
<1>22. ASSUME NEW c \in Proc, VerifyFails(c) PROVE PhaseInv'
  BY <1>22 DEF TypeInv, VerifyFails, Fail, Record, Unlock, project, runtime, process,
     history
<1>23. ASSUME NEW c \in Proc, RecordResult(c) PROVE PhaseInv'
  BY <1>23 DEF TypeInv, RecordResult, Record, Unlock, project, runtime, process, history
<1>24. ASSUME NEW c \in Proc, RecordFails(c) PROVE PhaseInv'
  BY <1>24 DEF TypeInv, RecordFails, Unlock, CutRollback, project, runtime, process,
     history
<1>25. ASSUME NEW c \in Proc, Crash(c) PROVE PhaseInv'
  BY <1>25 DEF TypeInv, Crash, Unlock, RuntimeAfterCrash, CutRollback, project,
     runtime, process, history
<1>26. ASSUME NEW c \in Proc, NEW p \in Plan, BeginApply(c, p) PROVE PhaseInv'
  BY <1>26 DEF TypeInv, BeginApply, Acquire, Record, project, runtime, process, history
<1>27. CASE OperatorEdit
  BY <1>27 DEF TypeInv, OperatorEdit, MayEdit, EditOrder, EditInputs, Resolve, Render, project, runtime, process, history
<1>28. CASE UpgradeTool
  BY <1>28 DEF TypeInv, UpgradeTool, project, runtime, process, history
<1>29. CASE UNCHANGED vars
  BY <1>29 DEF TypeInv, vars, project, runtime, process, history
<1>. QED
  BY <1>1, <1>2, <1>3, <1>4, <1>5, <1>6, <1>7, <1>8, <1>9, <1>10, <1>11, <1>12, <1>13,
     <1>14, <1>15, <1>16, <1>17, <1>18, <1>19, <1>20, <1>21, <1>22, <1>23, <1>24,
     <1>25, <1>26, <1>27, <1>28, <1>29 DEF Next, PlanStep, ApplyStep

(***************************************************************************)
(* One open transaction                                                    *)
(***************************************************************************)
\* An open plan is the one active.json names, or it is an orphan.
LEMMA ActiveStep ==
  TypeInv /\ Mutex /\ PhaseInv /\ ActiveInv /\ [Next]_vars => ActiveInv'
<1> SUFFICES ASSUME TypeInv, Mutex, PhaseInv, ActiveInv, [Next]_vars PROVE ActiveInv'
  OBVIOUS
<1> USE DEF TypeInv, TypeOK, Mutex, PlanChosen, PhaseInv, ActiveInv, Open, Steps,
   ApplySteps, SourceSteps, PublishSteps, RunSteps
<1>1. ASSUME NEW c \in Proc, BeginPlan(c) PROVE ActiveInv'
  BY <1>1 DEF TypeInv, BeginPlan, Acquire, project, runtime, process, history
<1>2. ASSUME NEW c \in Proc, PreparePlan(c) PROVE ActiveInv'
  BY <1>2 DEF TypeInv, PreparePlan, Record, project, runtime, process, history
<1>3. ASSUME NEW c \in Proc, AbandonPlan(c) PROVE ActiveInv'
  BY <1>3 DEF TypeInv, AbandonPlan, Unlock, project, runtime, process, history
<1>4. ASSUME NEW c \in Proc, ActivatePlan(c) PROVE ActiveInv'
  <2>1. \A d \in Proc : pc'[d] = "idle"
    BY <1>4 DEF ActivatePlan, Unlock
  <2>2. active = NoPlan \/ (active \in Plan /\ ~Open(active))
    BY <1>4 DEF ActivatePlan
  <2>3. \A p \in Plan : Open(p) => p = cur[c] \/ p \in orphans
    BY <1>4, <2>2, DeploymentUpdateAssumption DEF ActivatePlan, DeploymentUpdateAssumption
  <2>. QED
    BY <1>4, <2>1, <2>3 DEF ActivatePlan, project, runtime, history
<1>5. ASSUME NEW c \in Proc, ActivateFails(c) PROVE ActiveInv'
  BY <1>5 DEF TypeInv, ActivateFails, Unlock, project, runtime, process, history
<1>6. ASSUME NEW c \in Proc, CheckSource(c) PROVE ActiveInv'
  BY <1>6 DEF TypeInv, CheckSource, Goto, Unlock, project, runtime, process, history
<1>7. ASSUME NEW c \in Proc, PullTarget(c) PROVE ActiveInv'
  BY <1>7 DEF TypeInv, PullTarget, Goto, Unlock, project, runtime, process, history
<1>8. ASSUME NEW c \in Proc, StopSource(c) PROVE ActiveInv'
  BY <1>8 DEF TypeInv, StopSource, Goto, project, runtime, process, history
<1>9. ASSUME NEW c \in Proc, StopSourceFails(c) PROVE ActiveInv'
  BY <1>9 DEF TypeInv, StopSourceFails, Unlock, project, runtime, process, history
<1>10. ASSUME NEW c \in Proc, RecordStopped(c) PROVE ActiveInv'
  BY <1>10 DEF TypeInv, RecordStopped, Record, Goto, project, runtime, process, history
<1>11. ASSUME NEW c \in Proc, PublishOrder(c) PROVE ActiveInv'
  BY <1>11 DEF TypeInv, PublishOrder, Goto, Goal, project, runtime, process, history
<1>12. ASSUME NEW c \in Proc, PublishLock(c) PROVE ActiveInv'
  BY <1>12 DEF TypeInv, PublishLock, Goto, Goal, project, runtime, process, history
<1>13. ASSUME NEW c \in Proc, PublishInputs(c) PROVE ActiveInv'
  BY <1>13 DEF TypeInv, PublishInputs, Goto, Goal, project, runtime, process, history
<1>14. ASSUME NEW c \in Proc, RenderOutput(c) PROVE ActiveInv'
  BY <1>14 DEF TypeInv, RenderOutput, Goto, AfterPublish, project, runtime, process,
     history
<1>15. ASSUME NEW c \in Proc, SwapOutput(c) PROVE ActiveInv'
  BY <1>15 DEF TypeInv, SwapOutput, Goto, AfterPublish, project, runtime, process, history
<1>16. ASSUME NEW c \in Proc, SwapOutputFails(c) PROVE ActiveInv'
  BY <1>16 DEF TypeInv, SwapOutputFails, Fail, Record, Unlock, project, runtime,
     process, history
<1>17. ASSUME NEW c \in Proc, PublishFails(c) PROVE ActiveInv'
  BY <1>17 DEF TypeInv, PublishFails, Fail, Record, Unlock, project, runtime, process,
     history
<1>18. ASSUME NEW c \in Proc, RecordPublished(c) PROVE ActiveInv'
  BY <1>18 DEF TypeInv, RecordPublished, Record, Goto, project, runtime, process, history
<1>19. ASSUME NEW c \in Proc, StartProject(c) PROVE ActiveInv'
  BY <1>19 DEF TypeInv, StartProject, Goto, project, runtime, process, history
<1>20. ASSUME NEW c \in Proc, StartFails(c) PROVE ActiveInv'
  BY <1>20 DEF TypeInv, StartFails, Fail, Record, Unlock, project, runtime, process,
     history
<1>21. ASSUME NEW c \in Proc, VerifyProject(c) PROVE ActiveInv'
  BY <1>21 DEF TypeInv, VerifyProject, Goto, project, runtime, process, history
<1>22. ASSUME NEW c \in Proc, VerifyFails(c) PROVE ActiveInv'
  BY <1>22 DEF TypeInv, VerifyFails, Fail, Record, Unlock, project, runtime, process,
     history
<1>23. ASSUME NEW c \in Proc, RecordResult(c) PROVE ActiveInv'
  BY <1>23 DEF TypeInv, RecordResult, Record, Unlock, project, runtime, process, history
<1>24. ASSUME NEW c \in Proc, RecordFails(c) PROVE ActiveInv'
  BY <1>24 DEF TypeInv, RecordFails, Unlock, CutRollback, project, runtime, process,
     history
<1>25. ASSUME NEW c \in Proc, Crash(c) PROVE ActiveInv'
  <2>1. pc[c] # "idle" /\ \A d \in Proc : pc'[d] = "idle"
    BY <1>25, DeploymentUpdateAssumption DEF Crash, Unlock, DeploymentUpdateAssumption
  <2>2. CASE pc[c] = "activate"
    <3>1. active = NoPlan \/ (active \in Plan /\ ~Open(active))
      BY <2>2
    <3>2. \A p \in Plan : Open(p) => p = cur[c] \/ p \in orphans
      BY <2>2, <3>1, DeploymentUpdateAssumption DEF DeploymentUpdateAssumption
    <3>3. orphans' = orphans \cup {cur[c]} /\ phase' = phase
      BY <1>25, <2>2 DEF Crash
    <3>. QED
      BY <2>1, <3>2, <3>3
  <2>3. CASE pc[c] # "activate"
    <3>1. active' = active /\ orphans' = orphans /\ phase' = phase
      BY <1>25, <2>3 DEF Crash
    <3>. QED
      BY <2>1, <2>3, <3>1
  <2>. QED
    BY <2>2, <2>3
<1>26. ASSUME NEW c \in Proc, NEW p \in Plan, BeginApply(c, p) PROVE ActiveInv'
  BY <1>26 DEF TypeInv, BeginApply, Acquire, Record, project, runtime, process, history
<1>27. CASE OperatorEdit
  BY <1>27 DEF TypeInv, OperatorEdit, MayEdit, EditOrder, EditInputs, Resolve, Render, project, runtime, process, history
<1>28. CASE UpgradeTool
  BY <1>28 DEF TypeInv, UpgradeTool, project, runtime, process, history
<1>29. CASE UNCHANGED vars
  BY <1>29 DEF TypeInv, vars, project, runtime, process, history
<1>. QED
  BY <1>1, <1>2, <1>3, <1>4, <1>5, <1>6, <1>7, <1>8, <1>9, <1>10, <1>11, <1>12, <1>13,
     <1>14, <1>15, <1>16, <1>17, <1>18, <1>19, <1>20, <1>21, <1>22, <1>23, <1>24,
     <1>25, <1>26, <1>27, <1>28, <1>29 DEF Next, PlanStep, ApplyStep

(***************************************************************************)
(* What the project holds                                                  *)
(***************************************************************************)
\* That makes two open plans impossible without an orphan.
LEMMA OneOpen == TypeInv /\ Mutex /\ ActiveInv => OneOpenTransaction
<1> SUFFICES ASSUME TypeInv, Mutex, ActiveInv, NEW p \in Plan, NEW q \in Plan,
                    Open(p), Open(q), p # q, p \notin orphans, q \notin orphans
             PROVE  FALSE
  BY DEF OneOpenTransaction
<1>1. CASE active = p
  <2>1. PICK c \in Proc : pc[c] = "activate" /\ cur[c] = q
    BY <1>1 DEF ActiveInv
  <2>. QED
    BY <1>1, <2>1, DeploymentUpdateAssumption
       DEF ActiveInv, Open, DeploymentUpdateAssumption
<1>2. CASE active # p
  <2>1. PICK c \in Proc : pc[c] = "activate" /\ cur[c] = p
    BY <1>2 DEF ActiveInv
  <2>2. CASE active = q
    BY <2>1, <2>2, DeploymentUpdateAssumption
       DEF ActiveInv, Open, DeploymentUpdateAssumption
  <2>3. CASE active # q
    <3>1. PICK d \in Proc : pc[d] = "activate" /\ cur[d] = q
      BY <2>3 DEF ActiveInv
    <3>. QED
      BY <2>1, <3>1 DEF Mutex
  <2>. QED
    BY <2>2, <2>3
<1>. QED
  BY <1>1, <1>2

\* Order, lock, inputs and render are those of the plan at work, as far as its
\* publication has come.
LEMMA ProjectStep ==
  TypeInv /\ Mutex /\ PhaseInv /\ ActiveInv /\ ProjectInv /\ [Next]_vars => ProjectInv'
<1> SUFFICES ASSUME TypeInv, Mutex, PhaseInv, ActiveInv, ProjectInv, [Next]_vars
             PROVE  ProjectInv'
  OBVIOUS
<1> USE DEF TypeInv, TypeOK, Mutex, PlanChosen, PhaseInv, ProjectInv, Engaged, Goal,
   Steps, ApplySteps, SourceSteps, PublishSteps, RunSteps
<1>1. ASSUME NEW c \in Proc, BeginPlan(c) PROVE ProjectInv'
  BY <1>1 DEF Serving, BeginPlan, Acquire, project, runtime, process, history
<1>2. ASSUME NEW c \in Proc, PreparePlan(c) PROVE ProjectInv'
  BY <1>2 DEF Serving, PreparePlan, Record, project, runtime, process, history
<1>3. ASSUME NEW c \in Proc, AbandonPlan(c) PROVE ProjectInv'
  BY <1>3 DEF Serving, AbandonPlan, Unlock, project, runtime, process, history
<1>4. ASSUME NEW c \in Proc, ActivatePlan(c) PROVE ProjectInv'
  BY <1>4 DEF Serving, ActivatePlan, Unlock, project, runtime, process, history
<1>5. ASSUME NEW c \in Proc, ActivateFails(c) PROVE ProjectInv'
  BY <1>5 DEF Serving, ActivateFails, Unlock, project, runtime, process, history
<1>6. ASSUME NEW c \in Proc, CheckSource(c) PROVE ProjectInv'
  BY <1>6 DEF Serving, CheckSource, Goto, Unlock, project, runtime, process, history
<1>7. ASSUME NEW c \in Proc, PullTarget(c) PROVE ProjectInv'
  BY <1>7 DEF Serving, PullTarget, Goto, Unlock, project, runtime, process, history
<1>8. ASSUME NEW c \in Proc, StopSource(c) PROVE ProjectInv'
  BY <1>8 DEF Serving, StopSource, Goto, project, runtime, process, history
<1>9. ASSUME NEW c \in Proc, StopSourceFails(c) PROVE ProjectInv'
  BY <1>9 DEF Serving, StopSourceFails, Unlock, project, runtime, process, history
<1>10. ASSUME NEW c \in Proc, RecordStopped(c) PROVE ProjectInv'
  BY <1>10 DEF Serving, RecordStopped, Record, Goto, project, runtime, process, history
<1>11. ASSUME NEW c \in Proc, PublishOrder(c) PROVE ProjectInv'
  BY <1>11 DEF Serving, PublishOrder, Goto, Goal, project, runtime, process, history
<1>12. ASSUME NEW c \in Proc, PublishLock(c) PROVE ProjectInv'
  <2>. DEFINE q == cur[c]
  <2>1. q \in Plan /\ Open(q)
    BY <1>12 DEF PublishLock, Open
  <2>2. /\ lock' = Goal(c)
        /\ pc' = [pc EXCEPT ![c] = "inputs"]
        /\ UNCHANGED <<phase, cur, back, orphans, interrupted>>
    BY <1>12 DEF PublishLock, Goto, history
  <2>3. \A d \in Proc : pc[d] # "idle" => d = c
    BY <1>12 DEF PublishLock
  <2>4. \A p \in Plan : p # q /\ phase[p] \in {"source-stopped", "target-published"} =>
          orphans # {}
    BY <2>1, OneOpen DEF OneOpenTransaction, Open
  <2>5. ASSUME NEW p \in Plan, Engaged(p)', orphans' = {}
        PROVE  lock' \in {Source(p), Target(p)}
    <3>1. p = q
      BY <2>2, <2>3, <2>4, <2>5
    <3>. QED
      BY <2>2, <3>1
  <2>6. ASSUME NEW p \in Plan, phase'[p] = "target-published", orphans' = {}
        PROVE  cur'[c] = p /\ back'[c]
    <3>1. p = q
      BY <2>2, <2>4, <2>6
    <3>. QED
      BY <1>12, <2>2, <2>6, <3>1 DEF PublishLock
  <2>7. \A d \in Proc : pc'[d] # "idle" => d = c
    BY <2>2, <2>3
  <2>. QED
    BY <2>2, <2>5, <2>6, <2>7
<1>13. ASSUME NEW c \in Proc, PublishInputs(c) PROVE ProjectInv'
  BY <1>13 DEF Serving, PublishInputs, Goto, Goal, project, runtime, process, history
<1>14. ASSUME NEW c \in Proc, RenderOutput(c) PROVE ProjectInv'
  BY <1>14 DEF Serving, RenderOutput, Goto, AfterPublish, project, runtime, process,
     history
<1>15. ASSUME NEW c \in Proc, SwapOutput(c) PROVE ProjectInv'
  BY <1>15 DEF Serving, SwapOutput, Goto, AfterPublish, project, runtime, process, history
<1>16. ASSUME NEW c \in Proc, SwapOutputFails(c) PROVE ProjectInv'
  BY <1>16 DEF Serving, SwapOutputFails, Fail, Record, Unlock, project, runtime,
     process, history
<1>17. ASSUME NEW c \in Proc, PublishFails(c) PROVE ProjectInv'
  BY <1>17 DEF Serving, PublishFails, Fail, Record, Unlock, project, runtime, process,
     history
<1>18. ASSUME NEW c \in Proc, RecordPublished(c) PROVE ProjectInv'
  BY <1>18 DEF Serving, RecordPublished, Record, Goto, project, runtime, process, history
<1>19. ASSUME NEW c \in Proc, StartProject(c) PROVE ProjectInv'
  BY <1>19 DEF Serving, StartProject, Goto, project, runtime, process, history
<1>20. ASSUME NEW c \in Proc, StartFails(c) PROVE ProjectInv'
  BY <1>20 DEF Serving, StartFails, Fail, Record, Unlock, project, runtime, process,
     history
<1>21. ASSUME NEW c \in Proc, VerifyProject(c) PROVE ProjectInv'
  <2>1. Serving(lock)'
    BY <1>21 DEF VerifyProject, DoctorPasses, Serving, project, runtime
  <2>. QED
    BY <1>21, <2>1 DEF VerifyProject, Goto, project, history
<1>22. ASSUME NEW c \in Proc, VerifyFails(c) PROVE ProjectInv'
  BY <1>22 DEF Serving, VerifyFails, Fail, Record, Unlock, project, runtime, process,
     history
<1>23. ASSUME NEW c \in Proc, RecordResult(c) PROVE ProjectInv'
  BY <1>23 DEF Serving, RecordResult, Record, Unlock, project, runtime, process, history
<1>24. ASSUME NEW c \in Proc, RecordFails(c) PROVE ProjectInv'
  BY <1>24 DEF Serving, RecordFails, Unlock, CutRollback, project, runtime, process,
     history
<1>25. ASSUME NEW c \in Proc, Crash(c) PROVE ProjectInv'
  BY <1>25 DEF Serving, Crash, Unlock, RuntimeAfterCrash, CutRollback, project,
     runtime, process, history
<1>26. ASSUME NEW c \in Proc, NEW p \in Plan, BeginApply(c, p) PROVE ProjectInv'
  BY <1>26 DEF Serving, BeginApply, Acquire, Record, project, runtime, process, history
<1>27. CASE OperatorEdit
  <2>1. \A c \in Proc : pc[c] = "idle"
    BY <1>27, DeploymentUpdateAssumption DEF OperatorEdit, MayEdit, EditOrder, EditInputs, Resolve, Render, DeploymentUpdateAssumption
  <2>. QED
    BY <1>27, <2>1 DEF OperatorEdit, MayEdit, EditOrder, EditInputs, Resolve, Render, process, history
<1>28. CASE UpgradeTool
  BY <1>28 DEF Serving, UpgradeTool, project, runtime, process, history
<1>29. CASE UNCHANGED vars
  BY <1>29 DEF Serving, vars, project, runtime, process, history
<1>. QED
  BY <1>1, <1>2, <1>3, <1>4, <1>5, <1>6, <1>7, <1>8, <1>9, <1>10, <1>11, <1>12, <1>13,
     <1>14, <1>15, <1>16, <1>17, <1>18, <1>19, <1>20, <1>21, <1>22, <1>23, <1>24,
     <1>25, <1>26, <1>27, <1>28, <1>29 DEF Next, PlanStep, ApplyStep

\* An apply at work, or a recorded phase, means an open plan.
LEMMA EngagedOpen == TypeInv /\ PhaseInv => \A p \in Plan : Engaged(p) => Open(p)
  BY DEF TypeInv, PlanChosen, PhaseInv, Engaged, Open, ApplySteps, SourceSteps, PublishSteps,
     RunSteps

\* Without an orphan two plans are never carried out side by side.
LEMMA OneEngaged ==
  ASSUME TypeInv, Mutex, PhaseInv, ActiveInv, orphans = {},
         NEW p \in Plan, Engaged(p), NEW q \in Plan, Engaged(q)
  PROVE  p = q
  BY EngagedOpen, OneOpen DEF OneOpenTransaction

\* Order and output stay those of the plan at work: it starts from a project
\* verified against its source, and publishes nothing but source and target.
LEMMA FilesStep ==
  TypeInv /\ Mutex /\ PhaseInv /\ ActiveInv /\ ProjectInv /\ FilesInv /\ [Next]_vars => FilesInv'
<1> SUFFICES ASSUME TypeInv, Mutex, PhaseInv, ActiveInv, ProjectInv, FilesInv, [Next]_vars
             PROVE  FilesInv'
  OBVIOUS
<1> USE DEF TypeInv, TypeOK, Mutex, PlanChosen, FilesInv, Engaged, Steps, ApplySteps,
   SourceSteps, PublishSteps, RunSteps
<1>1. ASSUME NEW c \in Proc, BeginPlan(c) PROVE FilesInv'
  BY <1>1 DEF BeginPlan, Acquire, project, runtime, process, history
<1>2. ASSUME NEW c \in Proc, PreparePlan(c) PROVE FilesInv'
  BY <1>2 DEF PreparePlan, Record, project, runtime, process, history
<1>3. ASSUME NEW c \in Proc, AbandonPlan(c) PROVE FilesInv'
  BY <1>3 DEF AbandonPlan, Unlock, project, runtime, process, history
<1>4. ASSUME NEW c \in Proc, ActivatePlan(c) PROVE FilesInv'
  BY <1>4 DEF ActivatePlan, Unlock, project, runtime, process, history
<1>5. ASSUME NEW c \in Proc, ActivateFails(c) PROVE FilesInv'
  BY <1>5 DEF ActivateFails, Unlock, project, runtime, process, history
<1>6. ASSUME NEW c \in Proc, CheckSource(c) PROVE FilesInv'
  <2>2. CASE RenderVerifies /\ lock = Source(cur[c]) /\ Goto(c, "pull")
    <3>1. order = Source(cur[c]) /\ output = Source(cur[c])
      BY <2>2 DEF RenderVerifies
    <3>2. Engaged(cur[c])'
      BY <1>6, <2>2 DEF CheckSource, Goto
    <3>3. \A p \in Plan : Engaged(p)' /\ orphans = {} => p = cur[c]
      <4> SUFFICES ASSUME NEW p \in Plan, Engaged(p)', orphans = {}, p # cur[c] PROVE FALSE
        OBVIOUS
      <4>1. Engaged(p) /\ cur[c] \in Plan /\ phase[cur[c]] = "prepared"
        BY <1>6, <2>2 DEF CheckSource, Goto, PhaseInv
      <4>2. Open(p) /\ Open(cur[c])
        BY <4>1, EngagedOpen DEF Open
      <4>. QED
        BY <4>1, <4>2, OneOpen DEF OneOpenTransaction
    <3>. QED
      BY <1>6, <2>2, <3>1, <3>3 DEF CheckSource, Goto, project, history
  <2>3. CASE Unlock(c)
    BY <1>6, <2>3 DEF CheckSource, Unlock, project, history
  <2>. QED
    BY <1>6, <2>2, <2>3 DEF CheckSource
<1>7. ASSUME NEW c \in Proc, PullTarget(c) PROVE FilesInv'
  BY <1>7 DEF PullTarget, Goto, Unlock, project, runtime, process, history
<1>8. ASSUME NEW c \in Proc, StopSource(c) PROVE FilesInv'
  BY <1>8 DEF StopSource, Goto, project, runtime, process, history
<1>9. ASSUME NEW c \in Proc, StopSourceFails(c) PROVE FilesInv'
  BY <1>9 DEF StopSourceFails, Unlock, project, runtime, process, history
<1>10. ASSUME NEW c \in Proc, RecordStopped(c) PROVE FilesInv'
  BY <1>10 DEF RecordStopped, Record, Goto, project, runtime, process, history
<1>11. ASSUME NEW c \in Proc, PublishOrder(c) PROVE FilesInv'
  <2>. DEFINE q == cur[c]
  <2>1. q \in Plan /\ Engaged(q)
    BY <1>11 DEF PublishOrder
  <2>2. \A p \in Plan : Engaged(p)' /\ orphans' = {} => p = q
    <3>1. \A p \in Plan : Engaged(p)' => Engaged(p)
      BY <1>11, <2>1 DEF PublishOrder, Goto, history
    <3>2. orphans' = orphans
      BY <1>11 DEF PublishOrder, Goto, history
    <3>. QED
      BY <2>1, <3>1, <3>2, OneEngaged
  <2>3. /\ order' \in {Source(q), Target(q)}
        /\ pc' = [pc EXCEPT ![c] = "lock"]
        /\ UNCHANGED <<cur, output, aside, orphans>>
    BY <1>11 DEF PublishOrder, Goal, Goto, history
  <2>4. orphans = {} => output \in {Source(q), Target(q), Missing}
    BY <2>1
  <2>. QED
    BY <2>2, <2>3, <2>4
<1>12. ASSUME NEW c \in Proc, PublishLock(c) PROVE FilesInv'
  BY <1>12 DEF PublishLock, Goto, Goal, project, runtime, process, history
<1>13. ASSUME NEW c \in Proc, PublishInputs(c) PROVE FilesInv'
  BY <1>13 DEF PublishInputs, Goto, Goal, project, runtime, process, history
<1>14. ASSUME NEW c \in Proc, RenderOutput(c) PROVE FilesInv'
  <2>. DEFINE q == cur[c]
  <2>1. q \in Plan /\ Engaged(q)
    BY <1>14 DEF RenderOutput
  <2>2. \A p \in Plan : Engaged(p)' /\ orphans' = {} => p = q
    <3>1. \A p \in Plan : Engaged(p)' => Engaged(p)
      BY <1>14, <2>1 DEF RenderOutput, Goto, AfterPublish, history
    <3>2. orphans' = orphans
      BY <1>14 DEF RenderOutput, Goto, AfterPublish, history
    <3>. QED
      BY <2>1, <3>1, <3>2, OneEngaged
  <2>3. lock \in {Source(q), Target(q)}
    BY <1>14 DEF RenderOutput, ProjectInv, Goal
  <2>4. orphans = {} =>
          order \in {Source(q), Target(q)} /\ output \in {Source(q), Target(q), Missing}
    BY <2>1
  <2>5. UNCHANGED <<order, cur, orphans>> /\ output' \in {output, lock, Missing}
    BY <1>14 DEF RenderOutput, Goto, history
  <2>6. /\ pc'[c] = "swap" => aside' = output
        /\ \A d \in Proc : pc'[d] = "swap" => d = c
    BY <1>14 DEF RenderOutput, Goto, AfterPublish
  <2>. QED
    BY <2>2, <2>3, <2>4, <2>5, <2>6
<1>15. ASSUME NEW c \in Proc, SwapOutput(c) PROVE FilesInv'
  <2>. DEFINE q == cur[c]
  <2>1. q \in Plan /\ Engaged(q)
    BY <1>15 DEF SwapOutput
  <2>2. \A p \in Plan : Engaged(p)' /\ orphans' = {} => p = q
    <3>1. \A p \in Plan : Engaged(p)' => Engaged(p)
      BY <1>15, <2>1 DEF SwapOutput, Goto, AfterPublish, history
    <3>2. orphans' = orphans
      BY <1>15 DEF SwapOutput, Goto, AfterPublish, history
    <3>. QED
      BY <2>1, <3>1, <3>2, OneEngaged
  <2>3. lock \in {Source(q), Target(q)}
    BY <1>15 DEF SwapOutput, ProjectInv, Goal
  <2>4. orphans = {} => order \in {Source(q), Target(q)}
    BY <2>1
  <2>5. UNCHANGED <<order, cur, orphans>> /\ output' = lock /\ aside' = Missing
    BY <1>15 DEF SwapOutput, Goto, history
  <2>. QED
    BY <2>2, <2>3, <2>4, <2>5
<1>16. ASSUME NEW c \in Proc, SwapOutputFails(c) PROVE FilesInv'
  <2>. DEFINE q == cur[c]
  <2>1. q \in Plan /\ Engaged(q)
    BY <1>16 DEF SwapOutputFails
  <2>2. \A p \in Plan : Engaged(p)' /\ orphans' = {} => p = q
    <3>1. \A p \in Plan : Engaged(p)' => Engaged(p)
      BY <1>16, <2>1 DEF SwapOutputFails, Fail, Record, Unlock, project, history
    <3>2. orphans' = orphans
      BY <1>16 DEF SwapOutputFails, Fail, Record, Unlock, project, history
    <3>. QED
      BY <2>1, <3>1, <3>2, OneEngaged
  <2>3. orphans = {} =>
          /\ order \in {Source(q), Target(q)}
          /\ {output, aside} \subseteq {Source(q), Target(q), Missing}
    BY <1>16, <2>1 DEF SwapOutputFails
  <2>4. UNCHANGED <<order, orphans>> /\ output' \in {output, aside}
    BY <1>16 DEF SwapOutputFails, Fail, history
  <2>5. \A d \in Proc : pc'[d] # "swap"
    BY <1>16 DEF SwapOutputFails, Fail, Unlock
  <2>. QED
    BY <2>2, <2>3, <2>4, <2>5
<1>17. ASSUME NEW c \in Proc, PublishFails(c) PROVE FilesInv'
  BY <1>17 DEF PublishFails, Fail, Record, Unlock, project, runtime, process, history
<1>18. ASSUME NEW c \in Proc, RecordPublished(c) PROVE FilesInv'
  BY <1>18 DEF RecordPublished, Record, Goto, project, runtime, process, history
<1>19. ASSUME NEW c \in Proc, StartProject(c) PROVE FilesInv'
  BY <1>19 DEF StartProject, Goto, project, runtime, process, history
<1>20. ASSUME NEW c \in Proc, StartFails(c) PROVE FilesInv'
  BY <1>20 DEF StartFails, Fail, Record, Unlock, project, runtime, process, history
<1>21. ASSUME NEW c \in Proc, VerifyProject(c) PROVE FilesInv'
  BY <1>21 DEF VerifyProject, Goto, project, runtime, process, history
<1>22. ASSUME NEW c \in Proc, VerifyFails(c) PROVE FilesInv'
  BY <1>22 DEF VerifyFails, Fail, Record, Unlock, project, runtime, process, history
<1>23. ASSUME NEW c \in Proc, RecordResult(c) PROVE FilesInv'
  BY <1>23 DEF RecordResult, Record, Unlock, project, runtime, process, history
<1>24. ASSUME NEW c \in Proc, RecordFails(c) PROVE FilesInv'
  BY <1>24 DEF RecordFails, Unlock, CutRollback, project, runtime, process, history
<1>25. ASSUME NEW c \in Proc, Crash(c) PROVE FilesInv'
  BY <1>25 DEF Crash, Unlock, RuntimeAfterCrash, CutRollback, project, runtime,
     process, history
<1>26. ASSUME NEW c \in Proc, NEW p \in Plan, BeginApply(c, p) PROVE FilesInv'
  BY <1>26 DEF BeginApply, Acquire, Record, project, runtime, process, history
<1>27. CASE OperatorEdit
  <2>1. \A c \in Proc : pc[c] = "idle"
    BY <1>27, DeploymentUpdateAssumption
       DEF OperatorEdit, MayEdit, EditOrder, EditInputs, Resolve, Render,
           DeploymentUpdateAssumption
  <2>. QED
    BY <1>27, <2>1 DEF OperatorEdit, MayEdit, EditOrder, EditInputs, Resolve, Render,
       process, history
<1>28. CASE UpgradeTool
  BY <1>28 DEF UpgradeTool, project, runtime, process, history
<1>29. CASE UNCHANGED vars
  BY <1>29 DEF vars, project, runtime, process, history
<1>. QED
  BY <1>1, <1>2, <1>3, <1>4, <1>5, <1>6, <1>7, <1>8, <1>9, <1>10, <1>11, <1>12, <1>13,
     <1>14, <1>15, <1>16, <1>17, <1>18, <1>19, <1>20, <1>21, <1>22, <1>23, <1>24,
     <1>25, <1>26, <1>27, <1>28, <1>29 DEF Next, PlanStep, ApplyStep

(***************************************************************************)
(* The safety theorems                                                     *)
(***************************************************************************)
\* The strengthened invariant holds at first.
LEMMA IInvInit == Init => IInv
<1>1. Init => PhaseInv
  BY DEF Init, PhaseInv, ApplySteps, SourceSteps, PublishSteps, RunSteps
<1>2. Init => ActiveInv
  BY DEF Init, ActiveInv, Open
<1>3. Init => IdentityInv /\ ProjectInv /\ FilesInv
  BY DEF Init, IdentityInv, ProjectInv, FilesInv, Engaged, ApplySteps, SourceSteps, PublishSteps,
     RunSteps
<1>. QED
  BY <1>1, <1>2, <1>3, TypeInvInit, MutexInit DEF IInv

\* Every step keeps the strengthened invariant.
LEMMA IInvStep == IInv /\ [Next]_vars => IInv'
  BY TypeInvStep, MutexStep, PhaseStep, ActiveStep, IdentityStep, ProjectStep, FilesStep DEF IInv

\* The strengthened invariant holds of every behaviour of plan and apply.
THEOREM Invariance == Spec => []IInv
  BY IInvInit, IInvStep, PTL DEF Spec

\* Updates exclude one another as wholes: a second plan can be open only if
\* one of the two lost its active.json.
THEOREM OneOpenTransactionHolds == Spec => []OneOpenTransaction
<1>1. IInv => OneOpenTransaction
  BY OneOpen DEF IInv
<1>. QED
  BY <1>1, Invariance, PTL

\* Only RecordResult writes a result.
LEMMA ResultWriters ==
  ASSUME TypeInv, [Next]_vars, NEW p \in Plan, phase'[p] # phase[p],
         phase'[p] \in {"complete", "rolled-back"}
  PROVE  \E c \in Proc : RecordResult(c) /\ cur[c] = p
<1> USE DEF TypeInv, TypeOK, PlanChosen, Record, ApplySteps, SourceSteps, PublishSteps,
   RunSteps
<1>1. CASE \E c \in Proc : RecordResult(c)
  BY <1>1 DEF RecordResult
<1>2. CASE \E c \in Proc : \/ SwapOutputFails(c) \/ PublishFails(c)
                           \/ StartFails(c) \/ VerifyFails(c)
  <2>1. PICK c \in Proc : pc[c] \in ApplySteps /\ Fail(c)
    BY <1>2 DEF SwapOutputFails, PublishFails, StartFails, VerifyFails
  <2>. QED
    BY <2>1 DEF Fail
<1>3. CASE \E c \in Proc : PreparePlan(c) \/ RecordStopped(c) \/ RecordPublished(c)
  BY <1>3 DEF PreparePlan, RecordStopped, RecordPublished
<1>4. CASE \E c \in Proc, q \in Plan : BeginApply(c, q)
  BY <1>4 DEF BeginApply
<1>5. CASE \/ OperatorEdit \/ UpgradeTool \/ UNCHANGED vars
           \/ \E c \in Proc : \/ BeginPlan(c) \/ AbandonPlan(c) \/ ActivatePlan(c)
                              \/ ActivateFails(c) \/ Crash(c)
  BY <1>5 DEF OperatorEdit, MayEdit, EditOrder, EditInputs, Resolve, Render, UpgradeTool, vars, BeginPlan, AbandonPlan, ActivatePlan,
     ActivateFails, Crash
<1>6. CASE \E c \in Proc : \/ CheckSource(c) \/ PullTarget(c) \/ StopSource(c)
                           \/ StopSourceFails(c) \/ PublishOrder(c) \/ PublishLock(c)
                           \/ PublishInputs(c) \/ RenderOutput(c) \/ SwapOutput(c)
                           \/ StartProject(c) \/ VerifyProject(c) \/ RecordFails(c)
  BY <1>6 DEF CheckSource, PullTarget, StopSource, StopSourceFails, PublishOrder,
     PublishLock, PublishInputs, RenderOutput, SwapOutput, StartProject, VerifyProject,
     RecordFails
<1>. QED
  BY <1>1, <1>2, <1>3, <1>4, <1>5, <1>6 DEF Next, PlanStep, ApplyStep

\* A recorded result says what the deployment serves.
THEOREM ResultsTrue == Spec => ResultsAreTrue
<1>1. ASSUME IInv, [Next]_vars, NEW p \in Plan, phase'[p] # phase[p],
             phase'[p] \in {"complete", "rolled-back"}
      PROVE  /\ phase'[p] = "complete" =>
                  Serving(Target(p)) \/ p \in interrupted \/ orphans # {}
             /\ phase'[p] = "rolled-back" => Serving(Source(p))
  <2>1. PICK c \in Proc : RecordResult(c) /\ cur[c] = p
    BY <1>1, ResultWriters DEF IInv
  <2>2. Serving(lock) /\ pc[c] = "record-result"
    BY <1>1, <2>1 DEF IInv, ProjectInv, RecordResult
  <2>3. phase'[p] = IF back[c] THEN "rolled-back" ELSE "complete"
    BY <1>1, <2>1 DEF IInv, TypeInv, TypeOK, RecordResult, Record
  <2>4. CASE back[c]
    BY <1>1, <2>1, <2>2, <2>3, <2>4 DEF IInv, ProjectInv, RunSteps
  <2>5. CASE ~back[c]
    <3>1. phase[p] = "target-published"
      BY <1>1, <2>1, <2>2, <2>5 DEF IInv, PhaseInv, RunSteps
    <3>2. \A d \in Proc : cur[d] = p => ~back[d]
      BY <1>1, <2>1, <2>2, <2>5
         DEF IInv, TypeInv, PlanChosen, Mutex, ApplySteps, SourceSteps, PublishSteps,
             RunSteps
    <3>3. lock = Target(p) \/ p \in interrupted \/ orphans # {}
      BY <1>1, <3>1, <3>2 DEF IInv, ProjectInv
    <3>. QED
      BY <2>2, <2>3, <2>5, <3>3
  <2>. QED
    BY <2>4, <2>5
<1>2. IInv /\ [Next]_vars =>
        \A p \in Plan :
          /\ phase[p] # "complete" /\ phase'[p] = "complete" =>
               Serving(Target(p)) \/ p \in interrupted \/ orphans # {}
          /\ phase[p] # "rolled-back" /\ phase'[p] = "rolled-back" => Serving(Source(p))
  BY <1>1
<1>. QED
  BY <1>2, Invariance, PTL DEF Spec, ResultsAreTrue

\* Only a publication and the operator replace order, lock and output.
LEMMA FilesChange ==
  ASSUME [Next]_vars, <<order, lock, output>>' # <<order, lock, output>>
  PROVE  OperatorEdit \/ \E c \in Proc : \/ PublishOrder(c) \/ PublishLock(c)
                                          \/ RenderOutput(c) \/ SwapOutput(c)
                                          \/ SwapOutputFails(c)
<1>1. ~UNCHANGED vars
  BY DEF vars, project
<1>. QED
  BY <1>1 DEF Next, PlanStep, ApplyStep, BeginPlan, PreparePlan, AbandonPlan, ActivatePlan,
     ActivateFails, BeginApply, CheckSource, PullTarget, StopSource, StopSourceFails,
     RecordStopped, PublishInputs, PublishFails, RecordPublished, StartProject,
     StartFails, VerifyProject, VerifyFails, RecordResult, RecordFails, Crash,
     UpgradeTool, project

\* An update command replaces order, lock and output only within its own plan.
THEOREM NoOverwrite == Spec => NoForeignOverwrite
<1>1. ASSUME IInv, [Next]_vars, <<order, lock, output>>' # <<order, lock, output>>,
             flock # NoProc, orphans = {}
      PROVE  \E p \in Plan :
               /\ Open(p)
               /\ {order, order', lock, lock'} \subseteq {Source(p), Target(p)}
               /\ {output, output'} \subseteq {Source(p), Target(p), Missing}
  <2>1. ~OperatorEdit
    BY <1>1 DEF OperatorEdit, MayEdit, EditOrder, EditInputs, Resolve, Render
  <2>2. PICK c \in Proc : \/ PublishOrder(c) \/ PublishLock(c) \/ RenderOutput(c)
                          \/ SwapOutput(c) \/ SwapOutputFails(c)
    BY <1>1, <2>1, FilesChange
  <2>. DEFINE p == cur[c]
  <2>3. p \in Plan /\ Engaged(p) /\ pc[c] \in PublishSteps
    BY <1>1, <2>2 DEF PublishOrder, PublishLock, RenderOutput, SwapOutput, SwapOutputFails,
       IInv, TypeInv, PlanChosen, Engaged, ApplySteps, SourceSteps, PublishSteps
  <2>4. Open(p)
    BY <1>1, <2>3, EngagedOpen DEF IInv
  <2>5. /\ {order, lock} \subseteq {Source(p), Target(p)}
        /\ output \in {Source(p), Target(p), Missing}
        /\ pc[c] = "swap" => aside \in {Source(p), Target(p), Missing}
    BY <1>1, <2>3 DEF IInv, ProjectInv, FilesInv
  <2>6. /\ {order', lock'} \subseteq {order, lock, Source(p), Target(p)}
        /\ output' \in {output, lock, Missing} \cup (IF pc[c] = "swap" THEN {aside} ELSE {})
    BY <2>2 DEF PublishOrder, PublishLock, RenderOutput, SwapOutput, SwapOutputFails, Goal
  <2>. QED
    BY <2>3, <2>4, <2>5, <2>6
<1>2. IInv /\ [Next]_vars =>
        (flock # NoProc /\ orphans = {} /\ <<order, lock, output>>' # <<order, lock, output>> =>
           \E p \in Plan :
             /\ Open(p)
             /\ {order, order', lock, lock'} \subseteq {Source(p), Target(p)}
             /\ {output, output'} \subseteq {Source(p), Target(p), Missing})
  BY <1>1
<1>. QED
  BY <1>2, Invariance, PTL DEF Spec, NoForeignOverwrite

(***************************************************************************)
(* No silent outage                                                        *)
(***************************************************************************)
Unresolved == {"prepared", "source-stopped", "target-published", "rollback-failed"}

\* Whatever apply does, short of recording a result, leaves its plan unresolved.
LEMMA ApplyUnresolved ==
  ASSUME IInv, NEW c \in Proc, pc[c] \in ApplySteps,
         (ApplyStep(c) /\ ~RecordResult(c)) \/ Crash(c)
  PROVE  cur[c] \in Plan /\ phase'[cur[c]] \in Unresolved
<1>1. cur[c] \in Plan
  BY DEF IInv, TypeInv, PlanChosen
<1>2. phase[cur[c]] \in {"prepared", "source-stopped", "target-published"}
  BY DEF IInv, PhaseInv, ApplySteps
<1>3. phase \in [Plan -> UpdatePhases \cup {"none"}]
  BY DEF IInv, TypeInv, TypeOK
<1>4. CASE UNCHANGED phase
  BY <1>1, <1>2, <1>4 DEF Unresolved
<1>5. CASE RecordStopped(c) \/ RecordPublished(c)
  BY <1>1, <1>3, <1>5 DEF RecordStopped, RecordPublished, Record, Unresolved
<1>6. CASE Fail(c)
  BY <1>1, <1>2, <1>3, <1>6 DEF Fail, Record, Unresolved
<1>7. UNCHANGED phase \/ RecordStopped(c) \/ RecordPublished(c) \/ Fail(c)
  BY DEF ApplyStep, Crash, CheckSource, PullTarget, StopSource, StopSourceFails,
     PublishOrder, PublishLock, PublishInputs, RenderOutput, SwapOutput,
     SwapOutputFails, PublishFails, StartProject, StartFails, VerifyProject,
     VerifyFails, RecordFails
<1>. QED
  BY <1>1, <1>4, <1>5, <1>6, <1>7

\* Nor does a step that leaves the deployment alone settle a plan.
LEMMA OutageStep ==
  "edit" \notin Disturbances /\ IInv /\ NoSilentOutage /\ [Next]_vars => NoSilentOutage'
<1> SUFFICES ASSUME "edit" \notin Disturbances, IInv, NoSilentOutage, [Next]_vars
             PROVE  NoSilentOutage'
  OBVIOUS
<1> USE DEF Unresolved
<1>1. phase \in [Plan -> UpdatePhases \cup {"none"}]
  BY DEF IInv, TypeInv, TypeOK
<1>2. ASSUME NEW c \in Proc, pc[c] \in ApplySteps,
             (ApplyStep(c) /\ ~RecordResult(c)) \/ Crash(c)
      PROVE  NoSilentOutage'
  BY <1>2, ApplyUnresolved DEF NoSilentOutage
<1>3. ASSUME NEW c \in Proc, RecordResult(c)
      PROVE  NoSilentOutage'
  <2>1. Serving(lock)
    BY <1>3 DEF IInv, ProjectInv, RecordResult
  <2>. QED
    BY <1>3, <2>1 DEF NoSilentOutage, Serving, RecordResult, project, runtime
<1>4. ASSUME UNCHANGED <<phase, output, health, running>>
      PROVE  NoSilentOutage'
  BY <1>4 DEF NoSilentOutage
<1>5. ASSUME NEW c \in Proc, PreparePlan(c)
      PROVE  NoSilentOutage'
  BY <1>1, <1>5 DEF NoSilentOutage, PreparePlan, Record
<1>6. ASSUME NEW c \in Proc, NEW p \in Plan, BeginApply(c, p)
      PROVE  NoSilentOutage'
  BY <1>1, <1>6 DEF NoSilentOutage, BeginApply, Record
<1>7. ASSUME NEW c \in Proc, Crash(c), pc[c] \notin ApplySteps
      PROVE  UNCHANGED <<phase, output, health, running>>
  BY <1>7 DEF Crash, RuntimeAfterCrash, runtime, ApplySteps, SourceSteps, RunSteps
<1>8. ASSUME NEW c \in Proc, ApplyStep(c)
      PROVE  pc[c] \in ApplySteps
  BY <1>8 DEF ApplyStep, CheckSource, PullTarget, StopSource, StopSourceFails,
     RecordStopped, PublishOrder, PublishLock, PublishInputs, RenderOutput, SwapOutput,
     SwapOutputFails, PublishFails, RecordPublished, StartProject, StartFails,
     VerifyProject, VerifyFails, RecordResult, RecordFails, ApplySteps, SourceSteps,
     PublishSteps, RunSteps
<1>9. ASSUME NEW c \in Proc, \/ BeginPlan(c) \/ AbandonPlan(c) \/ ActivatePlan(c)
                             \/ ActivateFails(c)
      PROVE  UNCHANGED <<phase, output, health, running>>
  BY <1>9 DEF BeginPlan, AbandonPlan, ActivatePlan, ActivateFails, project, runtime
<1>10. CASE UpgradeTool \/ UNCHANGED vars
  BY <1>4, <1>10 DEF UpgradeTool, vars, project, runtime
<1>11. ~OperatorEdit
  BY DEF OperatorEdit, MayEdit, EditOrder, EditInputs, Resolve, Render
<1>. QED
  BY <1>2, <1>3, <1>4, <1>5, <1>6, <1>7, <1>8, <1>9, <1>10, <1>11 DEF Next, PlanStep

\* However often the commands die or fail, and whatever is installed meanwhile,
\* a deployment that does not serve what it mounts is the subject of a plan
\* whose recorded phase says so.
THEOREM OutageIsRecorded ==
  ASSUME "edit" \notin Disturbances PROVE Spec => []NoSilentOutage
<1>1. Init => NoSilentOutage
  BY DEF Init, NoSilentOutage
<1>2. IInv /\ NoSilentOutage /\ [Next]_vars => NoSilentOutage'
  BY OutageStep
<1>. QED
  BY <1>1, <1>2, Invariance, PTL DEF Spec

(***************************************************************************)
(* An update is atomic                                                     *)
(***************************************************************************)
\* Nothing comes between a plan's directory and active.json, no rollback is
\* cut short and nobody edits the project.
Uncut ==
  /\ "edit" \notin Disturbances
  /\ "activate" \notin CrashAt \cup FaultAt
  /\ "rollback" \notin CrashAt
  /\ "record-result" \notin FaultAt

\* Then there are no orphans and no cut rollbacks, and apply works on the
\* source it checked until the stop of it is recorded.
Clean ==
  /\ orphans = {} /\ interrupted = {}
  /\ \A c \in Proc : pc[c] \in ApplySteps \ {"check"} /\ phase[cur[c]] = "prepared" =>
       lock = Source(cur[c])

\* The phases in which the project's lock does not tell what is deployed.
CutPhases == {"source-stopped", "target-published", "rollback-failed"}

\* The refinement mapping as functions of phases and lock.
DeployedOf(ph, l) ==
  IF \E p \in Plan : ph[p] \in CutPhases
  THEN Source(CHOOSE p \in Plan : ph[p] \in CutPhases)
  ELSE l

StatusOf(ph) ==
  [p \in Plan |-> CASE ph[p] = "rollback-failed" -> "manual"
                   [] ph[p] \in {"none", "complete"} -> ph[p]
                   [] OTHER -> "open"]

\* The refinement mapping, before and after a step.
LEMMA Mapping ==
  /\ Deployed = DeployedOf(phase, lock) /\ Deployed' = DeployedOf(phase', lock')
  /\ Status = StatusOf(phase) /\ Status' = StatusOf(phase')
  BY DEF Deployed, DeployedOf, Status, StatusOf, CutPhases

\* While one plan alone is cut, its source counts as deployed.
LEMMA CutDeploysSource ==
  ASSUME NEW ph, NEW l, NEW p \in Plan, ph[p] \in CutPhases,
         \A q \in Plan : ph[q] \in CutPhases => q = p
  PROVE  DeployedOf(ph, l) = Source(p)
<1>. DEFINE q == CHOOSE q \in Plan : ph[q] \in CutPhases
<1>1. q \in Plan /\ ph[q] \in CutPhases
  OBVIOUS
<1>2. q = p
  BY <1>1
<1>. QED
  BY <1>2 DEF DeployedOf

\* Otherwise the project's lock does.
LEMMA UncutDeploysLock ==
  ASSUME NEW ph, NEW l, \A q \in Plan : ph[q] \notin CutPhases
  PROVE  DeployedOf(ph, l) = l
  BY DEF DeployedOf

\* Every step keeps an uncut history clean.
LEMMA CleanStep ==
  ASSUME Uncut, IInv, Clean, [Next]_vars PROVE Clean'
<1> DEFINE Begun == ApplySteps \ {"check"}
<1>0. /\ pc \in [Proc -> Steps \cup {"idle"}]
      /\ cur \in [Proc -> Plan \cup {NoPlan}]
      /\ phase \in [Plan -> UpdatePhases \cup {"none"}]
      /\ \A c \in Proc : pc[c] \in ApplySteps => cur[c] \in Plan
      /\ \A c, d \in Proc : pc[c] # "idle" /\ pc[d] # "idle" => c = d
      /\ \A c \in Proc : pc[c] \in {"record-stopped", "record-published"} => ~back[c]
      /\ flock = NoProc => \A c \in Proc : pc[c] = "idle"
  BY DeploymentUpdateAssumption DEF DeploymentUpdateAssumption, IInv, TypeInv, TypeOK,
     PlanChosen, Mutex, PhaseInv, PublishSteps, RunSteps
<1>1. orphans' = {} /\ interrupted' = {}
  <2>1. CASE \E c \in Proc : ActivateFails(c) \/ Crash(c) \/ RecordFails(c) \/ RecordResult(c)
    BY <1>0, <2>1 DEF Uncut, Clean, ActivateFails, Crash, RecordFails, RecordResult, CutRollback
  <2>2. CASE UNCHANGED <<orphans, interrupted>>
    BY <2>2 DEF Clean
  <2>. QED
    BY <2>1, <2>2 DEF Next, PlanStep, ApplyStep, vars, history,
       BeginPlan, PreparePlan, AbandonPlan, ActivatePlan, BeginApply, CheckSource,
       PullTarget, StopSource, StopSourceFails, RecordStopped, PublishOrder, PublishLock,
       PublishInputs, RenderOutput, SwapOutput, SwapOutputFails, PublishFails, Fail,
       RecordPublished, StartProject, StartFails, VerifyProject, VerifyFails, OperatorEdit, MayEdit, EditOrder, EditInputs, Resolve, Render,
       UpgradeTool
<1>2. ASSUME lock' = lock,
             \A d \in Proc : pc'[d] \in Begun /\ phase'[cur'[d]] = "prepared" =>
                             pc[d] \in Begun /\ phase[cur[d]] = "prepared" /\ cur'[d] = cur[d]
      PROVE  Clean'
  BY <1>1, <1>2 DEF Clean
<1>3. ASSUME NEW c \in Proc, CheckSource(c) PROVE Clean'
  BY <1>0, <1>1, <1>3 DEF Clean, CheckSource, Goto, Unlock, ApplySteps, SourceSteps,
     PublishSteps, RunSteps, project
<1>4. ASSUME NEW c \in Proc, PublishLock(c) PROVE Clean'
  <2>1. phase[cur[c]] = "prepared" => back[c]
    BY <1>4 DEF IInv, PhaseInv, PublishLock, PublishSteps
  <2>. QED
    BY <1>0, <1>1, <1>4, <2>1 DEF Clean, PublishLock, Goal, Goto, ApplySteps, SourceSteps,
       PublishSteps, RunSteps
<1>5. ASSUME NEW c \in Proc, \/ BeginPlan(c) \/ AbandonPlan(c) \/ ActivatePlan(c)
                             \/ ActivateFails(c) \/ Crash(c)
      PROVE  Clean'
  <2>1. /\ lock' = lock /\ phase' = phase
        /\ Unlock(c) \/ Acquire(c, "plan", NoPlan)
    BY <1>5 DEF BeginPlan, AbandonPlan, ActivatePlan, ActivateFails, Crash, project
  <2>2. \A d \in Proc : pc'[d] \in Begun => pc[d] \in Begun /\ cur'[d] = cur[d]
    BY <1>0, <2>1 DEF Unlock, Acquire, ApplySteps, SourceSteps, PublishSteps, RunSteps
  <2>. QED
    BY <1>2, <2>1, <2>2
<1>6. ASSUME NEW c \in Proc, PreparePlan(c) PROVE Clean'
  <2>1. \A d \in Proc : pc'[d] \notin Begun
    BY <1>0, <1>6 DEF PreparePlan, ApplySteps, SourceSteps, PublishSteps, RunSteps
  <2>. QED
    BY <1>2, <1>6, <2>1 DEF PreparePlan, project
<1>7. ASSUME NEW c \in Proc, NEW p \in Plan, BeginApply(c, p) PROVE Clean'
  BY <1>0, <1>2, <1>7 DEF BeginApply, Acquire, Record, ApplySteps, SourceSteps,
     PublishSteps, RunSteps, project
<1>8. ASSUME NEW c \in Proc, \/ PullTarget(c) \/ StopSource(c) \/ StopSourceFails(c)
                             \/ PublishOrder(c) \/ PublishInputs(c) \/ RenderOutput(c)
                             \/ SwapOutput(c) \/ StartProject(c) \/ VerifyProject(c)
      PROVE  Clean'
  <2>1. pc[c] \in Begun /\ lock' = lock /\ phase' = phase
    BY <1>8 DEF PullTarget, StopSource, StopSourceFails, PublishOrder, PublishInputs,
       RenderOutput, SwapOutput, StartProject, VerifyProject, ApplySteps, SourceSteps,
       PublishSteps, RunSteps, project
  <2>2. Unlock(c) \/ \E step \in Begun : Goto(c, step)
    BY <1>8 DEF PullTarget, StopSource, StopSourceFails, PublishOrder, PublishInputs,
       RenderOutput, SwapOutput, StartProject, VerifyProject, AfterPublish, ApplySteps,
       SourceSteps, PublishSteps, RunSteps
  <2>3. \A d \in Proc : pc'[d] \in Begun => pc[d] \in Begun /\ cur'[d] = cur[d]
    BY <1>0, <2>1, <2>2 DEF Unlock, Goto, ApplySteps, SourceSteps, PublishSteps, RunSteps
  <2>. QED
    BY <1>2, <2>1, <2>3
<1>9. ASSUME NEW c \in Proc, \/ RecordStopped(c) \/ RecordPublished(c)
      PROVE  Clean'
  BY <1>0, <1>2, <1>9 DEF RecordStopped, RecordPublished, Record, Goto, ApplySteps,
     SourceSteps, PublishSteps, RunSteps, project
<1>10. ASSUME NEW c \in Proc, \/ SwapOutputFails(c) \/ PublishFails(c) \/ StartFails(c)
                              \/ VerifyFails(c)
      PROVE  Clean'
  <2>1. pc[c] \in Begun /\ lock' = lock /\ Fail(c)
    BY <1>10 DEF SwapOutputFails, PublishFails, StartFails, VerifyFails, ApplySteps,
       PublishSteps, RunSteps, SourceSteps, project
  <2>. QED
    BY <1>0, <1>2, <2>1 DEF Fail, Record, Unlock, ApplySteps, PublishSteps, RunSteps,
       SourceSteps
<1>11. ASSUME NEW c \in Proc, \/ RecordResult(c) \/ RecordFails(c)
       PROVE  Clean'
  BY <1>0, <1>2, <1>11 DEF RecordResult, RecordFails, Record, Unlock, ApplySteps,
     PublishSteps, RunSteps, SourceSteps, project
<1>12. CASE UpgradeTool \/ UNCHANGED vars
  BY <1>2, <1>12 DEF UpgradeTool, vars, project, process
<1>13. ~OperatorEdit
  BY DEF OperatorEdit, MayEdit, EditOrder, EditInputs, Resolve, Render, Uncut
<1>. QED
  BY <1>3, <1>4, <1>5, <1>7, <1>8, <1>9, <1>10, <1>11, <1>12, <1>13, <1>6
     DEF Next, PlanStep, ApplyStep

\* A step that records nothing and leaves the project's lock alone is invisible.
LEMMA Invisible ==
  ASSUME phase' = phase, lock' = lock PROVE UNCHANGED <<Deployed, Status>>
  BY Mapping

\* The plan a process applies is the only one that is open; until a result is
\* recorded its source counts as deployed.
LEMMA AtWork ==
  ASSUME IInv, Clean, NEW c \in Proc, pc[c] \in ApplySteps \ {"check"}
  PROVE  /\ cur[c] \in Plan
         /\ phase[cur[c]] \in {"prepared", "source-stopped", "target-published"}
         /\ \A q \in Plan : q # cur[c] => phase[q] \in {"none", "complete"}
         /\ Deployed = Source(cur[c])
<1>1. cur[c] \in Plan
  BY DEF IInv, TypeInv, PlanChosen
<1>2. phase[cur[c]] \in {"prepared", "source-stopped", "target-published"}
  BY DEF IInv, PhaseInv, ApplySteps
<1>3. \A q \in Plan : q # cur[c] => phase[q] \in {"none", "complete"}
  BY <1>1, <1>2, OneOpen DEF IInv, Clean, OneOpenTransaction, Open
<1>4. Deployed = Source(cur[c])
  <2>1. CASE phase[cur[c]] = "prepared"
    <3>1. \A q \in Plan : phase[q] \notin CutPhases
      BY <1>3, <2>1 DEF CutPhases
    <3>2. lock = Source(cur[c])
      BY <2>1 DEF Clean
    <3>. QED
      BY <3>1, <3>2, UncutDeploysLock, Mapping
  <2>2. CASE phase[cur[c]] # "prepared"
    <3>1. /\ phase[cur[c]] \in CutPhases
          /\ \A q \in Plan : phase[q] \in CutPhases => q = cur[c]
      BY <1>2, <1>3, <2>2 DEF CutPhases
    <3>. QED
      BY <1>1, <3>1, CutDeploysSource, Mapping
  <2>. QED
    BY <2>1, <2>2
<1>. QED
  BY <1>1, <1>2, <1>3, <1>4

\* What a record of apply does to the deployed release and the status of its
\* plan: the source stays deployed while the plan is cut, else the lock tells.
LEMMA Recorded ==
  ASSUME IInv, Clean, NEW c \in Proc, pc[c] \in ApplySteps \ {"check"},
         NEW value \in UpdatePhases, Record(cur[c], value), lock' = lock
  PROVE  /\ value \in CutPhases => Deployed' = Source(cur[c])
         /\ value \notin CutPhases => Deployed' = lock
         /\ Status' = [Status EXCEPT ![cur[c]] =
                         CASE value = "rollback-failed" -> "manual"
                           [] value = "complete" -> "complete"
                           [] OTHER -> "open"]
<1>. DEFINE p == cur[c]
<1>1. /\ p \in Plan
      /\ \A q \in Plan : q # p => phase[q] \in {"none", "complete"}
  BY AtWork
<1>2. phase' = [phase EXCEPT ![p] = value] /\ phase \in [Plan -> UpdatePhases \cup {"none"}]
  BY DEF Record, IInv, TypeInv, TypeOK
<1>3. phase'[p] = value /\ \A q \in Plan : q # p => phase'[q] = phase[q]
  BY <1>1, <1>2
<1>4. ASSUME value \in CutPhases PROVE Deployed' = Source(p)
  <2>1. \A q \in Plan : phase'[q] \in CutPhases => q = p
    BY <1>1, <1>3 DEF CutPhases
  <2>. QED
    BY <1>1, <1>3, <1>4, <2>1, CutDeploysSource, Mapping
<1>5. ASSUME value \notin CutPhases PROVE Deployed' = lock
  <2>1. \A q \in Plan : phase'[q] \notin CutPhases
    BY <1>1, <1>3, <1>5 DEF CutPhases
  <2>. QED
    BY <2>1, UncutDeploysLock, Mapping
<1>6. Status' = [Status EXCEPT ![p] = CASE value = "rollback-failed" -> "manual"
                                        [] value = "complete" -> "complete"
                                        [] OTHER -> "open"]
  <2>1. Status' = [q \in Plan |-> IF q = p THEN CASE value = "rollback-failed" -> "manual"
                                                  [] value = "complete" -> "complete"
                                                  [] OTHER -> "open"
                                  ELSE Status[q]]
    BY <1>1, <1>3, Mapping DEF StatusOf, UpdatePhases
  <2>. QED
    BY <1>1, <2>1, Mapping DEF StatusOf
<1>. QED
  BY <1>4, <1>5, <1>6

\* Every step is a proposal, a commit, a transaction left to the operator, or
\* changes neither the deployed release nor the status of an update.
LEMMA RefinementStep ==
  ASSUME Uncut, IInv, Clean, [Next]_vars
  PROVE  Transaction!Next \/ UNCHANGED <<Deployed, Status>>
<1>0. /\ phase \in [Plan -> UpdatePhases \cup {"none"}]
      /\ \A c \in Proc : pc[c] = "record-stopped" => ~back[c]
  BY DEF IInv, TypeInv, TypeOK, PhaseInv, PublishSteps, RunSteps
<1>1. CASE UNCHANGED <<phase, lock>>
  BY <1>1, Invisible
<1>2. ASSUME NEW c \in Proc, PreparePlan(c)
      PROVE  \E p \in Plan : Transaction!Propose(p)
  <2>1. \A q \in Plan : phase[q] \in {"none", "complete"}
    BY <1>0, <1>2, DeploymentUpdateAssumption
       DEF DeploymentUpdateAssumption, PreparePlan, IInv, ActiveInv, Mutex, Open, Clean
  <2>2. PICK p \in Plan : /\ Source(p) = lock
                          /\ phase' = [phase EXCEPT ![p] = "prepared"]
                          /\ phase[p] = "none"
    BY <1>2 DEF PreparePlan, Record
  <2>3. Deployed = lock /\ Deployed' = lock
    <3>1. \A q \in Plan : phase[q] \notin CutPhases /\ phase'[q] \notin CutPhases
      BY <1>0, <2>1, <2>2 DEF CutPhases
    <3>2. lock' = lock
      BY <1>2 DEF PreparePlan, project
    <3>. QED
      BY <3>1, <3>2, UncutDeploysLock, Mapping
  <2>4. /\ \A q \in Plan : Status[q] \in {"none", "complete"}
        /\ Status[p] = "none"
        /\ Status' = [Status EXCEPT ![p] = "open"]
    BY <1>0, <2>1, <2>2, Mapping DEF StatusOf
  <2>. QED
    BY <2>2, <2>3, <2>4 DEF Transaction!Propose, Source
<1>3. ASSUME NEW c \in Proc, NEW p \in Plan, BeginApply(c, p)
      PROVE  UNCHANGED <<Deployed, Status>>
  <2>1. \/ UNCHANGED phase
        \/ phase[p] \in {"prepared", "rolled-back"} /\ phase' = [phase EXCEPT ![p] = "prepared"]
    BY <1>3 DEF BeginApply, Record
  <2>2. lock' = lock
    BY <1>3 DEF BeginApply, project
  <2>3. CASE phase[p] \in {"prepared", "rolled-back"}
    <3>1. \A q \in Plan : phase[q] \notin CutPhases /\ phase'[q] \notin CutPhases
      BY <1>0, <2>1, <2>3, OneOpen
         DEF CutPhases, IInv, Clean, OneOpenTransaction, Open
    <3>2. UNCHANGED Deployed
      BY <2>2, <3>1, UncutDeploysLock, Mapping
    <3>3. \A q \in Plan : \/ phase'[q] = phase[q]
                          \/ {phase[q], phase'[q]} \subseteq {"prepared", "rolled-back"}
      BY <1>0, <2>1, <2>3
    <3>4. UNCHANGED Status
      BY <3>3, Mapping DEF StatusOf
    <3>. QED
      BY <3>2, <3>4
  <2>. QED
    BY <2>1, <2>2, <2>3, Invisible
<1>4. ASSUME NEW c \in Proc, RecordStopped(c) \/ RecordPublished(c)
      PROVE  UNCHANGED <<Deployed, Status>>
  <2>1. /\ pc[c] \in ApplySteps \ {"check"} /\ lock' = lock
        /\ \E value \in {"source-stopped", "target-published"} : Record(cur[c], value)
    BY <1>4 DEF RecordStopped, RecordPublished, ApplySteps, SourceSteps, project
  <2>2. Status[cur[c]] = "open"
    BY <2>1, AtWork, Mapping DEF StatusOf
  <2>3. Deployed' = Source(cur[c]) /\ Status' = [Status EXCEPT ![cur[c]] = "open"]
    BY <2>1, Recorded DEF CutPhases, UpdatePhases
  <2>4. [Status EXCEPT ![cur[c]] = "open"] = Status
    BY <2>2, Mapping DEF StatusOf
  <2>. QED
    BY <2>1, <2>3, <2>4, AtWork
<1>5. ASSUME NEW c \in Proc, PublishLock(c)
      PROVE  UNCHANGED <<Deployed, Status>>
  <2>1. pc[c] \in ApplySteps \ {"check"} /\ phase' = phase
    BY <1>5 DEF PublishLock, ApplySteps, PublishSteps
  <2>2. CASE phase[cur[c]] = "prepared"
    <3>1. back[c]
      BY <1>5, <2>2 DEF IInv, PhaseInv, PublishLock, PublishSteps
    <3>2. lock' = lock
      BY <1>5, <2>1, <2>2, <3>1 DEF PublishLock, Goal, Clean
    <3>. QED
      BY <2>1, <3>2, Invisible
  <2>3. CASE phase[cur[c]] # "prepared"
    <3>1. /\ cur[c] \in Plan
          /\ phase'[cur[c]] \in CutPhases
          /\ \A q \in Plan : phase'[q] \in CutPhases => q = cur[c]
      BY <2>1, <2>3, AtWork DEF CutPhases
    <3>2. Deployed' = Source(cur[c])
      BY <3>1, CutDeploysSource, Mapping
    <3>. QED
      BY <2>1, <3>2, AtWork, Mapping
  <2>. QED
    BY <2>2, <2>3
<1>6. ASSUME NEW c \in Proc, RecordResult(c)
      PROVE  Transaction!Next \/ UNCHANGED <<Deployed, Status>>
  <2>. DEFINE p == cur[c]
  <2>1. /\ pc[c] \in ApplySteps \ {"check"} /\ pc[c] = "record-result" /\ lock' = lock
        /\ Record(p, IF back[c] THEN "rolled-back" ELSE "complete")
    BY <1>6 DEF RecordResult, ApplySteps, RunSteps, project
  <2>2. /\ p \in Plan /\ Deployed = Source(p) /\ Status[p] = "open"
    BY <2>1, AtWork, Mapping DEF StatusOf
  <2>3. CASE back[c]
    <3>1. lock = Source(p)
      BY <2>1, <2>3 DEF IInv, ProjectInv, RunSteps
    <3>2. Deployed' = lock /\ Status' = [Status EXCEPT ![p] = "open"]
      BY <2>1, <2>3, Recorded DEF CutPhases, UpdatePhases
    <3>3. [Status EXCEPT ![p] = "open"] = Status
      BY <2>2, Mapping DEF StatusOf
    <3>. QED
      BY <2>2, <3>1, <3>2, <3>3
  <2>4. CASE ~back[c]
    <3>1. phase[p] = "target-published"
      BY <2>1, <2>4 DEF IInv, PhaseInv, RunSteps
    <3>2. \A d \in Proc : cur[d] = p => ~back[d]
      BY <2>1, <2>2, <2>4
         DEF IInv, TypeInv, PlanChosen, Mutex, ApplySteps, SourceSteps, PublishSteps,
             RunSteps
    <3>3. lock = Target(p)
      BY <2>2, <3>1, <3>2 DEF IInv, ProjectInv, Clean
    <3>4. Deployed' = lock /\ Status' = [Status EXCEPT ![p] = "complete"]
      BY <2>1, <2>4, Recorded DEF CutPhases, UpdatePhases
    <3>5. Transaction!Commit(p)
      BY <2>2, <3>3, <3>4 DEF Transaction!Commit, Source, Target
    <3>. QED
      BY <2>2, <3>5 DEF Transaction!Next
  <2>. QED
    BY <2>3, <2>4
<1>7. ASSUME NEW c \in Proc, \/ SwapOutputFails(c) \/ PublishFails(c) \/ StartFails(c)
                              \/ VerifyFails(c)
      PROVE  Transaction!Next \/ UNCHANGED <<Deployed, Status>>
  <2>. DEFINE p == cur[c]
  <2>1. pc[c] \in ApplySteps \ {"check"} /\ lock' = lock /\ Fail(c)
    BY <1>7 DEF SwapOutputFails, PublishFails, StartFails, VerifyFails, ApplySteps,
       PublishSteps, RunSteps, project
  <2>2. CASE ~back[c]
    BY <2>1, <2>2, Invisible DEF Fail
  <2>3. CASE back[c]
    <3>1. Record(p, "rollback-failed")
      BY <2>1, <2>3 DEF Fail
    <3>2. p \in Plan /\ Deployed = Source(p) /\ Status[p] = "open"
      BY <2>1, AtWork, Mapping DEF StatusOf
    <3>3. Deployed' = Source(p) /\ Status' = [Status EXCEPT ![p] = "manual"]
      BY <2>1, <3>1, Recorded DEF CutPhases, UpdatePhases
    <3>4. Transaction!LeaveToOperator(p)
      BY <3>2, <3>3 DEF Transaction!LeaveToOperator
    <3>. QED
      BY <3>2, <3>4 DEF Transaction!Next
  <2>. QED
    BY <2>2, <2>3
<1>8. ASSUME NEW c \in Proc, \/ BeginPlan(c) \/ AbandonPlan(c) \/ ActivatePlan(c)
                             \/ ActivateFails(c) \/ CheckSource(c) \/ PullTarget(c)
                             \/ StopSource(c) \/ StopSourceFails(c) \/ PublishOrder(c)
                             \/ PublishInputs(c) \/ RenderOutput(c) \/ SwapOutput(c)
                             \/ StartProject(c) \/ VerifyProject(c) \/ RecordFails(c)
                             \/ Crash(c)
      PROVE  UNCHANGED <<phase, lock>>
  BY <1>8 DEF BeginPlan, AbandonPlan, ActivatePlan, ActivateFails, CheckSource, PullTarget,
     StopSource, StopSourceFails, PublishOrder, PublishInputs, RenderOutput, SwapOutput,
     StartProject, VerifyProject, RecordFails, Crash, project
<1>9. CASE UpgradeTool \/ UNCHANGED vars
  BY <1>1, <1>9 DEF UpgradeTool, vars, project
<1>10. ~OperatorEdit
  BY DEF OperatorEdit, MayEdit, EditOrder, EditInputs, Resolve, Render, Uncut
<1>11. (\E p \in Plan : Transaction!Propose(p)) => Transaction!Next
  BY DEF Transaction!Next
<1>. QED
  BY <1>1, <1>2, <1>3, <1>4, <1>5, <1>6, <1>7, <1>8, <1>9, <1>10, <1>11
     DEF Next, PlanStep, ApplyStep

\* `deployment update` implements the abstract transaction: however its
\* commands interleave, die and fail, the deployed release changes in one step
\* from the source of an open plan to its target, or not at all.
THEOREM UpdateIsAtomic ==
  ASSUME Uncut PROVE Spec => AtomicUpdate
<1>1. Init => Transaction!Init
  <2> SUFFICES ASSUME Init PROVE Transaction!Init
    OBVIOUS
  <2>1. \A q \in Plan : phase[q] = "none"
    BY DEF Init
  <2>2. Deployed = InitialLock
    BY <2>1, UncutDeploysLock, Mapping DEF CutPhases, Init
  <2>3. Status = [p \in Plan |-> "none"]
    BY <2>1, Mapping DEF StatusOf
  <2>. QED
    BY <2>2, <2>3 DEF Transaction!Init
<1>2. Init => Clean
  BY DEF Init, Clean, ApplySteps, SourceSteps, PublishSteps, RunSteps
<1>3. IInv /\ Clean /\ [Next]_vars => Clean'
  BY CleanStep
<1>4. IInv /\ Clean /\ [Next]_vars => [Transaction!Next]_<<Deployed, Status>>
  BY RefinementStep
<1>. QED
  BY <1>1, <1>2, <1>3, <1>4, Invariance, PTL DEF Spec, AtomicUpdate, Transaction!Spec

=============================================================================
