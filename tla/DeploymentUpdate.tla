-------------------------- MODULE DeploymentUpdate --------------------------
(***************************************************************************)
(* The durable in-place update of one deployment:                          *)
(*   mcrctl deployment update plan / apply   (deployment_update.py).       *)
(*                                                                         *)
(* A plan is a directory under .mcrctl/updates holding the source project, *)
(* the target candidate and state.json with the plan's phase; active.json  *)
(* names the newest plan.  `apply` stops the running source, publishes the *)
(* candidate file by file, starts and doctors it, and on failure publishes *)
(* the source again.  Each command holds transaction.lock (flock, not      *)
(* blocking) and may die between any two of its effects; a later apply of  *)
(* the same plan resumes from the recorded phase.                          *)
(*                                                                         *)
(* A deployment order, its lock, the operator inputs, a rendered output    *)
(* and the running containers are each represented by the lock identity    *)
(* they belong to.  One CLI invocation is a process of Proc.               *)
(***************************************************************************)
EXTENDS Naturals

CONSTANTS
  Lock,         \* lock identities: records with identity, profile, preset, inputs
  InitialLock,  \* the lock of the deployment when it is first updated
  Proc,         \* CLI invocations that may run side by side
  NoProc, NoPlan, Torn, Missing, NoLock,
  CrashAt,      \* the steps a process may die in
  FaultAt,      \* the steps whose host operation may fail
  MaxCrashes,   \* bound on the crashes of one behaviour
  Disturbances  \* what happens outside the commands: "edit", "upgrade"

(***************************************************************************)
(* What _validate_in_place_transition admits.  `identity` stands for all   *)
(* that must stay (deployment, environment, world, network, volumes and    *)
(* families); profile and preset are revisions.                            *)
(***************************************************************************)
\* Mutant: the stateful identity is not compared.
InPlaceTransitionAnyIdentity(s, t) ==
  /\ t.profile >= s.profile
  /\ t.preset >= s.preset

InPlaceTransition(s, t) ==
  /\ s.identity = t.identity
  /\ t.profile >= s.profile
  /\ t.preset >= s.preset
  /\ t.profile = s.profile /\ t.preset = s.preset => t.inputs # s.inputs

\* A plan id is the hash of its source and target lock.
Plan == {p \in Lock \X Lock : InPlaceTransition(p[1], p[2])}
Source(p) == p[1]
Target(p) == p[2]

UpdatePhases == {"prepared", "source-stopped", "target-published",
                 "rolled-back", "rollback-failed", "complete"}

\* The points between two effects of a command that holds transaction.lock.
Steps == {"plan", "activate", "check", "pull", "stop", "record-stopped",
          "order", "lock", "inputs", "render", "swap", "record-published",
          "start", "doctor", "record-result"}

ASSUME DeploymentUpdateAssumption ==
  /\ Lock \subseteq [identity : Nat, profile : Nat, preset : Nat, inputs : Nat]
  /\ InitialLock \in Lock
  /\ NoProc \notin Proc
  /\ NoPlan \notin Plan /\ Torn \notin Plan /\ NoPlan # Torn
  /\ Missing \notin Lock /\ NoLock \notin Lock
  /\ CrashAt \subseteq Steps \cup {"rollback"}
  /\ FaultAt \subseteq Steps
  /\ MaxCrashes \in Nat
  /\ Disturbances \subseteq {"edit", "upgrade"}

VARIABLES
  phase,       \* state.json of each plan directory; "none" without a directory
  active,      \* active.json: a plan, NoPlan when absent, Torn when half written
  order,       \* mc-remote.toml of the live project
  lock,        \* mc-remote.lock.toml of the live project
  inputs,      \* the operator input files of the live project
  stray,       \* a temporary file was left behind under operator/
  output,      \* the managed render the containers mount
  aside,       \* the tree a publication moved out of the way of its render
  health,      \* "healthy", "broken" or "down"
  running,     \* the lock the containers were created from
  stale,       \* locks resolved by an older mcrctl than the installed one
  flock,       \* the process that holds transaction.lock
  pc,          \* the step each process is at; "idle" when it holds nothing
  cur,         \* the plan a process works on
  back,        \* the process is in apply's except branch: it rolls back
  crashes,     \* crashes so far
  orphans,     \* history: plans whose directory exists without active.json
  interrupted  \* history: plans whose rollback from target-published was cut

project == <<order, lock, inputs, stray, output, aside>>
runtime == <<health, running>>
process == <<flock, pc, cur, back>>
history == <<orphans, interrupted>>
vars == <<phase, active, project, runtime, stale, process, crashes, history>>

Init ==
  /\ phase = [p \in Plan |-> "none"]
  /\ active = NoPlan
  /\ order = InitialLock
  /\ lock = InitialLock
  /\ inputs = InitialLock
  /\ stray = FALSE
  /\ output = InitialLock
  /\ aside = Missing
  /\ health = "healthy"
  /\ running = InitialLock
  /\ stale = {}
  /\ flock = NoProc
  /\ pc = [c \in Proc |-> "idle"]
  /\ cur = [c \in Proc |-> NoPlan]
  /\ back = [c \in Proc |-> FALSE]
  /\ crashes = 0
  /\ orphans = {}
  /\ interrupted = {}

-----------------------------------------------------------------------------
(* Process bookkeeping *)

Goto(c, step) ==
  /\ pc[c] # "idle"
  /\ pc' = [pc EXCEPT ![c] = step]
  /\ UNCHANGED <<flock, cur, back>>

\* The finally clause of plan and apply: _release_transaction_lock.
Unlock(c) ==
  /\ flock' = NoProc
  /\ pc' = [pc EXCEPT ![c] = "idle"]
  /\ cur' = [cur EXCEPT ![c] = NoPlan]
  /\ back' = [back EXCEPT ![c] = FALSE]

Acquire(c, step, p) ==
  /\ flock = NoProc
  /\ pc[c] = "idle"
  /\ flock' = c
  /\ pc' = [pc EXCEPT ![c] = step]
  /\ cur' = [cur EXCEPT ![c] = p]
  /\ back' = [back EXCEPT ![c] = FALSE]

Record(p, value) == phase' = [phase EXCEPT ![p] = value]

\* Mutant: a rollback publishes the candidate once more.
GoalNeverSource(c) == Target(cur[c])

\* What the process is publishing: the candidate, or the saved source project.
Goal(c) == IF back[c] THEN Source(cur[c]) ELSE Target(cur[c])

-----------------------------------------------------------------------------
(* What the code inspects *)

\* load_order accepts no file under operator/ that the order does not name.
OrderLoads == ~stray

\* verify_toml_render_output with allow_historical_lock.
RenderVerifies == OrderLoads /\ order = lock /\ output = lock

\* inspect_lock: the lock is what resolving the project now would give.
LockCurrent == OrderLoads /\ order = lock /\ inputs = lock /\ lock \notin stale

\* The containers are up and carry the labels of the project's own lock.
Serving(l) ==
  /\ order = l /\ lock = l /\ inputs = l /\ output = l
  /\ health = "healthy" /\ running = l

\* Everything doctor_toml_project decides from this state.
DoctorPasses == OrderLoads /\ LockCurrent /\ Serving(lock)

-----------------------------------------------------------------------------
(* mcrctl deployment update plan *)

\* Mutant: an unfinished plan does not keep another one out.
BeginPlanUnchecked(c) ==
  /\ Acquire(c, "plan", NoPlan)
  /\ UNCHANGED <<phase, active, project, runtime, stale, crashes, history>>

\* _ensure_no_active_transaction, under the lock.
BeginPlan(c) ==
  /\ \/ active = NoPlan
     \/ active \in Plan /\ phase[active] = "complete"
  /\ Acquire(c, "plan", NoPlan)
  /\ UNCHANGED <<phase, active, project, runtime, stale, crashes, history>>

\* Verify, resolve and render the candidate, validate the transition, doctor
\* the live deployment, and move the finished directory into place.
PreparePlan(c) ==
  /\ pc[c] = "plan"
  /\ RenderVerifies
  /\ DoctorPasses
  /\ \E p \in Plan :
       /\ Source(p) = lock
       /\ Target(p) \notin stale
       /\ phase[p] = "none"
       /\ Record(p, "prepared")
       /\ cur' = [cur EXCEPT ![c] = p]
  /\ pc' = [pc EXCEPT ![c] = "activate"]
  /\ UNCHANGED <<active, project, runtime, stale, flock, back, crashes, history>>

\* Any refusal on the way: the temporary directory is removed.
AbandonPlan(c) ==
  /\ pc[c] = "plan"
  /\ Unlock(c)
  /\ UNCHANGED <<phase, active, project, runtime, stale, crashes, history>>

ActivatePlan(c) ==
  /\ pc[c] = "activate"
  /\ active' = cur[c]
  /\ Unlock(c)
  /\ UNCHANGED <<phase, project, runtime, stale, crashes, history>>

\* active.json cannot be written: the directory of the plan stays.
ActivateFails(c) ==
  /\ pc[c] = "activate"
  /\ "activate" \in FaultAt
  /\ orphans' = orphans \cup {cur[c]}
  /\ Unlock(c)
  /\ UNCHANGED <<phase, active, project, runtime, stale, crashes, interrupted>>

-----------------------------------------------------------------------------
(* mcrctl deployment update apply *)

\* Mutant: a plan cut short after the stop of its source is not resumed.
BeginApplyNoResume(c, p) ==
  /\ phase[p] \in {"prepared", "rolled-back", "target-published"}
  /\ Record(p, IF phase[p] = "rolled-back" THEN "prepared" ELSE phase[p])
  /\ Acquire(c, IF phase[p] = "target-published" THEN "start" ELSE "check", p)
  /\ UNCHANGED <<active, project, runtime, stale, crashes, history>>

\* A complete plan answers already-complete and a rollback-failed one is
\* refused, both without a change; rolled-back starts over as prepared.
BeginApply(c, p) ==
  /\ \/ /\ phase[p] \in {"prepared", "rolled-back"}
        /\ Record(p, "prepared")
        /\ Acquire(c, "check", p)
     \/ /\ phase[p] = "source-stopped"
        /\ UNCHANGED phase
        /\ Acquire(c, "order", p)
     \/ /\ phase[p] = "target-published"
        /\ UNCHANGED phase
        /\ Acquire(c, "start", p)
  /\ UNCHANGED <<active, project, runtime, stale, crashes, history>>

\* Mutant: the lock is compared, but the project is not verified against it.
CheckSourceLockOnly(c) ==
  /\ pc[c] = "check"
  /\ IF OrderLoads /\ lock = Source(cur[c]) THEN Goto(c, "pull") ELSE Unlock(c)
  /\ UNCHANGED <<phase, active, project, runtime, stale, crashes, history>>

CheckSource(c) ==
  /\ pc[c] = "check"
  /\ IF RenderVerifies /\ lock = Source(cur[c])
     THEN Goto(c, "pull")
     ELSE Unlock(c)
  /\ UNCHANGED <<phase, active, project, runtime, stale, crashes, history>>

PullTarget(c) ==
  /\ pc[c] = "pull"
  /\ \/ Goto(c, "stop")
     \/ "pull" \in FaultAt /\ Unlock(c)
  /\ UNCHANGED <<phase, active, project, runtime, stale, crashes, history>>

StopSource(c) ==
  /\ pc[c] = "stop"
  /\ health' = "down"
  /\ running' = NoLock
  /\ Goto(c, "record-stopped")
  /\ UNCHANGED <<phase, active, project, stale, crashes, history>>

\* compose down fails or times out: the phase is still prepared, so apply
\* does not roll back and what is left of the containers stays.
StopSourceFails(c) ==
  /\ pc[c] = "stop"
  /\ "stop" \in FaultAt
  /\ health' \in {health, "broken"}
  /\ Unlock(c)
  /\ UNCHANGED <<phase, active, project, running, stale, crashes, history>>

\* Mutant: the record names a phase that _load_state does not know.
RecordStoppedMisnamed(c) ==
  /\ pc[c] = "record-stopped"
  /\ Record(cur[c], "stopped")
  /\ Goto(c, "order")
  /\ UNCHANGED <<active, project, runtime, stale, crashes, history>>

RecordStopped(c) ==
  /\ pc[c] = "record-stopped"
  /\ Record(cur[c], "source-stopped")
  /\ Goto(c, "order")
  /\ UNCHANGED <<active, project, runtime, stale, crashes, history>>

\* Mutant: whatever the rollback met, it is recorded as done.
FailQuietly(c) ==
  /\ IF back[c]
     THEN Record(cur[c], "rolled-back") /\ Unlock(c)
     ELSE IF phase[cur[c]] \in {"source-stopped", "target-published"}
     THEN /\ UNCHANGED <<phase, flock, cur>>
          /\ pc' = [pc EXCEPT ![c] = "order"]
          /\ back' = [back EXCEPT ![c] = TRUE]
     ELSE UNCHANGED phase /\ Unlock(c)
  /\ UNCHANGED <<active, stale, crashes, history>>

(***************************************************************************)
(* An exception: while applying, roll back once the source was stopped,    *)
(* else give up; while rolling back, record rollback-failed.               *)
(***************************************************************************)
Fail(c) ==
  LET p == cur[c]
  IN  /\ IF back[c]
         THEN /\ Record(p, "rollback-failed")
              /\ Unlock(c)
         ELSE IF phase[p] \in {"source-stopped", "target-published"}
         THEN /\ UNCHANGED <<phase, flock, cur>>
              /\ pc' = [pc EXCEPT ![c] = "order"]
              /\ back' = [back EXCEPT ![c] = TRUE]
         ELSE /\ UNCHANGED phase
              /\ Unlock(c)
      /\ UNCHANGED <<active, stale, crashes, history>>

-----------------------------------------------------------------------------
(* _publish_project: order, lock and inputs, each replaced atomically, then *)
(* render_toml_project.                                                     *)

PublishOrder(c) ==
  /\ pc[c] = "order"
  /\ OrderLoads
  /\ order' = Goal(c)
  /\ Goto(c, "lock")
  /\ UNCHANGED <<phase, active, lock, inputs, stray, output, aside, runtime,
                 stale, crashes, history>>

PublishLock(c) ==
  /\ pc[c] = "lock"
  /\ lock' = Goal(c)
  /\ Goto(c, "inputs")
  /\ UNCHANGED <<phase, active, order, inputs, stray, output, aside, runtime,
                 stale, crashes, history>>

PublishInputs(c) ==
  /\ pc[c] = "inputs"
  /\ inputs' = Goal(c)
  /\ Goto(c, "render")
  /\ UNCHANGED <<phase, active, order, lock, stray, output, aside, runtime,
                 stale, crashes, history>>

AfterPublish(c) == IF back[c] THEN "start" ELSE "record-published"

\* _publish_staging: an equal tree is left alone, an absent one is moved in,
\* a managed one is first moved aside.
RenderOutput(c) ==
  /\ pc[c] = "render"
  /\ LockCurrent
  /\ \/ /\ output = lock
        /\ UNCHANGED <<output, aside>>
        /\ Goto(c, AfterPublish(c))
     \/ /\ output = Missing
        /\ output' = lock
        /\ UNCHANGED aside
        /\ Goto(c, AfterPublish(c))
     \/ /\ output \notin {lock, Missing}
        /\ aside' = output
        /\ output' = Missing
        /\ Goto(c, "swap")
  /\ UNCHANGED <<phase, active, order, lock, inputs, stray, runtime, stale,
                 crashes, history>>

SwapOutput(c) ==
  /\ pc[c] = "swap"
  /\ output' = lock
  /\ aside' = Missing
  /\ Goto(c, AfterPublish(c))
  /\ UNCHANGED <<phase, active, order, lock, inputs, stray, runtime, stale,
                 crashes, history>>

\* The move fails; the previous tree comes back, or that fails as well.
SwapOutputFails(c) ==
  /\ pc[c] = "swap"
  /\ "swap" \in FaultAt
  /\ \/ output' = aside /\ aside' = Missing
     \/ UNCHANGED <<output, aside>>
  /\ Fail(c)
  /\ UNCHANGED <<order, lock, inputs, stray, runtime>>

\* Unreadable orders, full disks, absent artifacts, a lock that is stale.
PublishFails(c) ==
  /\ \/ pc[c] = "order" /\ ~OrderLoads
     \/ pc[c] = "render" /\ ~LockCurrent
     \/ pc[c] \in {"order", "lock", "inputs", "render"} \cap FaultAt
  /\ Fail(c)
  /\ UNCHANGED <<project, runtime>>

RecordPublished(c) ==
  /\ pc[c] = "record-published"
  /\ Record(cur[c], "target-published")
  /\ Goto(c, "start")
  /\ UNCHANGED <<active, project, runtime, stale, crashes, history>>

-----------------------------------------------------------------------------
(* Start, doctor and the last record, for the target and for the source *)

\* compose up --wait returns; what it waited for may still not serve.
StartProject(c) ==
  /\ pc[c] = "start"
  /\ output # Missing
  /\ health' \in IF "doctor" \in FaultAt THEN {"healthy", "broken"} ELSE {"healthy"}
  /\ running' = output
  /\ Goto(c, "doctor")
  /\ UNCHANGED <<phase, active, project, stale, crashes, history>>

\* compose up fails: it found no output, or left some containers of it.
StartFails(c) ==
  /\ pc[c] = "start"
  /\ \/ output = Missing /\ UNCHANGED runtime
     \/ /\ output # Missing
        /\ "start" \in FaultAt
        /\ health' = "broken"
        /\ running' = output
  /\ Fail(c)
  /\ UNCHANGED project

\* Mutant: a start that returned is taken for a project that serves.
VerifyProjectUnchecked(c) ==
  /\ pc[c] = "doctor"
  /\ Goto(c, "record-result")
  /\ UNCHANGED <<phase, active, project, runtime, stale, crashes, history>>

VerifyProject(c) ==
  /\ pc[c] = "doctor"
  /\ DoctorPasses
  /\ Goto(c, "record-result")
  /\ UNCHANGED <<phase, active, project, runtime, stale, crashes, history>>

VerifyFails(c) ==
  /\ pc[c] = "doctor"
  /\ ~DoctorPasses \/ "doctor" \in FaultAt
  /\ Fail(c)
  /\ UNCHANGED <<project, runtime>>

RecordResult(c) ==
  /\ pc[c] = "record-result"
  /\ Record(cur[c], IF back[c] THEN "rolled-back" ELSE "complete")
  /\ interrupted' = IF back[c] THEN interrupted \ {cur[c]} ELSE interrupted
  /\ Unlock(c)
  /\ UNCHANGED <<active, project, runtime, stale, crashes, orphans>>

\* history: a rollback from target-published leaves that phase on disk.
CutRollback(c) ==
  interrupted' = IF back[c] /\ phase[cur[c]] = "target-published"
                 THEN interrupted \cup {cur[c]} ELSE interrupted

(***************************************************************************)
(* advance() sets the phase in memory before state.json is written.  When  *)
(* the write fails (a full disk) the except branch decides by the phase in *)
(* memory, so it rolls back from source-stopped and target-published, not  *)
(* from complete; a result of the rollback itself is just not recorded.    *)
(***************************************************************************)
RecordFails(c) ==
  /\ pc[c] \in {"record-stopped", "record-published", "record-result"} \cap FaultAt
  /\ IF pc[c] = "record-result"
     THEN Unlock(c)
     ELSE /\ pc' = [pc EXCEPT ![c] = "order"]
          /\ back' = [back EXCEPT ![c] = TRUE]
          /\ UNCHANGED <<flock, cur>>
  /\ CutRollback(c)
  /\ UNCHANGED <<phase, active, project, runtime, stale, crashes, orphans>>

-----------------------------------------------------------------------------
(* The environment *)

\* What a killed `compose down` or `compose up` can leave behind.
RuntimeAfterCrash(c) ==
  \/ UNCHANGED runtime
  \/ (pc[c] = "stop" /\ health' = "broken" /\ UNCHANGED running)
  \/ (pc[c] = "stop" /\ health' = "down" /\ running' = NoLock)
  \/ /\ pc[c] = "start"
     /\ output # Missing
     /\ health' \in {"broken", "healthy"}
     /\ running' = output

\* The process is killed; the kernel drops its flock.  Killed while
\* _atomic_replace writes an operator input it leaves the temporary file
\* there; killed in the first write of active.json it leaves half a file.
Crash(c) ==
  /\ crashes < MaxCrashes
  /\ pc[c] \in CrashAt
  /\ back[c] => "rollback" \in CrashAt
  /\ crashes' = crashes + 1
  /\ Unlock(c)
  /\ RuntimeAfterCrash(c)
  /\ stray' \in IF pc[c] = "inputs" THEN {stray, TRUE} ELSE {stray}
  /\ active' \in IF pc[c] = "activate" /\ active = NoPlan
                 THEN {NoPlan, Torn} ELSE {active}
  /\ orphans' = IF pc[c] = "activate" THEN orphans \cup {cur[c]} ELSE orphans
  /\ CutRollback(c)
  /\ UNCHANGED <<phase, order, lock, inputs, output, aside, stale>>

(***************************************************************************)
(* The operator works on the project outside the update commands, one file *)
(* or command at a time.  The guide forbids it while a transaction is      *)
(* under way, so it happens only where no plan has gone beyond `prepared`. *)
(***************************************************************************)
MayEdit ==
  /\ "edit" \in Disturbances
  /\ flock = NoProc
  /\ OrderLoads
  /\ \A p \in Plan : phase[p] \in {"none", "prepared", "rolled-back", "complete"}

\* mc-remote.toml names another release or identity.
EditOrder ==
  /\ MayEdit
  /\ \E l \in Lock : l.inputs = lock.inputs /\ order' = l
  /\ UNCHANGED <<phase, active, lock, inputs, stray, output, aside, runtime, stale,
                 process, crashes, history>>

\* A file under operator/ gets another content.
EditInputs ==
  /\ MayEdit
  /\ \E l \in Lock : l = [lock EXCEPT !.inputs = l.inputs] /\ inputs' = l
  /\ UNCHANGED <<phase, active, order, lock, stray, output, aside, runtime, stale,
                 process, crashes, history>>

\* mcrctl resolve: the lock of the order and the inputs as they are.
Resolve ==
  /\ MayEdit
  /\ \E l \in Lock \ stale :
       /\ l = [order EXCEPT !.inputs = inputs.inputs]
       /\ order' = l
       /\ lock' = l
       /\ inputs' = l
  /\ UNCHANGED <<phase, active, stray, output, aside, runtime, stale, process,
                 crashes, history>>

\* mcrctl render.
Render ==
  /\ MayEdit
  /\ LockCurrent
  /\ output' = lock
  /\ UNCHANGED <<phase, active, order, lock, inputs, stray, aside, runtime, stale,
                 process, crashes, history>>

OperatorEdit == EditOrder \/ EditInputs \/ Resolve \/ Render

\* A newer mcrctl is installed: every lock resolved before is historical.
UpgradeTool ==
  /\ "upgrade" \in Disturbances
  /\ flock = NoProc
  /\ stale = {}
  /\ stale' = {lock} \cup UNION {{Source(p), Target(p)} :
                                   p \in {q \in Plan : phase[q] # "none"}}
  /\ UNCHANGED <<phase, active, project, runtime, process, crashes, history>>

-----------------------------------------------------------------------------
PlanStep(c) ==
  PreparePlan(c) \/ AbandonPlan(c) \/ ActivatePlan(c) \/ ActivateFails(c)

ApplyStep(c) ==
  \/ CheckSource(c) \/ PullTarget(c) \/ StopSource(c) \/ StopSourceFails(c)
  \/ RecordStopped(c)
  \/ PublishOrder(c) \/ PublishLock(c) \/ PublishInputs(c)
  \/ RenderOutput(c) \/ SwapOutput(c) \/ SwapOutputFails(c) \/ PublishFails(c)
  \/ RecordPublished(c)
  \/ StartProject(c) \/ StartFails(c) \/ VerifyProject(c) \/ VerifyFails(c)
  \/ RecordResult(c) \/ RecordFails(c)

Next ==
  \/ \E c \in Proc : BeginPlan(c) \/ PlanStep(c) \/ ApplyStep(c) \/ Crash(c)
  \/ \E c \in Proc, p \in Plan : BeginApply(c, p)
  \/ OperatorEdit
  \/ UpgradeTool

Spec == Init /\ [][Next]_vars

-----------------------------------------------------------------------------
(* Fairness: a running command keeps going, and the operator retries a plan *)
(* until apply has nothing left to do for it.                               *)

Fairness ==
  /\ \A c \in Proc : WF_vars(PlanStep(c) \/ ApplyStep(c))
  /\ \A p \in Plan : SF_vars(\E c \in Proc : BeginApply(c, p))

FairSpec == Spec /\ Fairness

-----------------------------------------------------------------------------
(* Properties *)

TypeOK ==
  /\ phase \in [Plan -> UpdatePhases \cup {"none"}]
  /\ active \in Plan \cup {NoPlan, Torn}
  /\ order \in Lock
  /\ lock \in Lock
  /\ inputs \in Lock
  /\ stray \in BOOLEAN
  /\ output \in Lock \cup {Missing}
  /\ aside \in Lock \cup {Missing}
  /\ health \in {"healthy", "broken", "down"}
  /\ running \in Lock \cup {NoLock}
  /\ stale \subseteq Lock
  /\ flock \in Proc \cup {NoProc}
  /\ pc \in [Proc -> Steps \cup {"idle"}]
  /\ cur \in [Proc -> Plan \cup {NoPlan}]
  /\ back \in [Proc -> BOOLEAN]
  /\ crashes \in Nat
  /\ orphans \subseteq Plan
  /\ interrupted \subseteq Plan

Open(p) == phase[p] \notin {"none", "complete"}

\* Of two updates that are not complete, one lost its active.json to a crash:
\* _ensure_no_active_transaction serialises whole updates, not only commands.
OneOpenTransaction ==
  \A p, q \in Plan : Open(p) /\ Open(q) /\ p # q => {p, q} \cap orphans # {}

\* Whatever died or failed, a deployment that does not serve its own lock is
\* the subject of a transaction whose recorded phase says it is unfinished.
\* (Without the operator's edits, which replace the project, not the runtime.)
NoSilentOutage ==
  \/ \E p \in Plan : phase[p] \in {"prepared", "source-stopped",
                                    "target-published", "rollback-failed"}
  \/ health = "healthy" /\ output = running

\* `complete` is recorded only for a deployment that serves the target of
\* the plan, and `rolled-back` only for one that serves its source - unless a
\* rollback of that plan was cut short or a plan was orphaned.
ResultsAreTrue ==
  [][\A p \in Plan :
       /\ phase[p] # "complete" /\ phase'[p] = "complete" =>
            Serving(Target(p)) \/ p \in interrupted \/ orphans # {}
       /\ phase[p] # "rolled-back" /\ phase'[p] = "rolled-back" =>
            Serving(Source(p))]_vars

\* What an update command replaces of the order, the lock and the rendered
\* output is the source or the target of its own open plan: an order edited
\* after the plan was made, a project resolved or rendered anew is refused at
\* the check and never overwritten.  The operator inputs are not in it: an input
\* file edited and not yet resolved passes the check, and the publication of
\* either project replaces it.
NoForeignOverwrite ==
  [][flock # NoProc /\ orphans = {} /\ <<order, lock, output>>' # <<order, lock, output>> =>
       \E p \in Plan :
         /\ Open(p)
         /\ {order, order', lock, lock'} \subseteq {Source(p), Target(p)}
         /\ {output, output'} \subseteq {Source(p), Target(p), Missing}]_vars

\* No update command ever leads the deployment to other volumes, worlds or
\* families, orphaned plans and cut rollbacks included.
StatefulIdentityKept ==
  [][flock # NoProc => lock'.identity = lock.identity]_vars

\* A transaction that stopped the source reaches a recorded result.
UpdateSettles ==
  \A p \in Plan :
    phase[p] \in {"source-stopped", "target-published"} ~>
      phase[p] \in {"complete", "rolled-back", "rollback-failed"}

-----------------------------------------------------------------------------
(* The abstract transaction, and how this module implements it *)

\* From the moment the stop of the source is recorded until the result is, the
\* deployment counts as its source; the project's lock speaks otherwise.
Deployed ==
  IF \E p \in Plan : phase[p] \in {"source-stopped", "target-published", "rollback-failed"}
  THEN Source(CHOOSE p \in Plan :
                phase[p] \in {"source-stopped", "target-published", "rollback-failed"})
  ELSE lock

Status ==
  [p \in Plan |-> CASE phase[p] = "rollback-failed" -> "manual"
                   [] phase[p] \in {"none", "complete"} -> phase[p]
                   [] OTHER -> "open"]

Transaction == INSTANCE ReleaseTransaction
                 WITH Release <- Lock, First <- InitialLock, Change <- Plan,
                      deployed <- Deployed, status <- Status

\* An update is one atomic change of the deployed release, as long as no crash
\* or failed write comes between a plan's directory and active.json and no
\* crash comes inside a rollback.
AtomicUpdate == Transaction!Spec

-----------------------------------------------------------------------------
(* What the runbook says, checked as it stands *)

\* "target検証が完了すると status=complete を返す" (runbook): complete is recorded
\* of a deployment that serves the target of the plan, with no exception.
CompleteMeansTarget ==
  [][\A p \in Plan : phase[p] # "complete" /\ phase'[p] = "complete" =>
       Serving(Target(p))]_vars
=============================================================================
