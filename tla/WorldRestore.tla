---------------------------- MODULE WorldRestore ----------------------------
(***************************************************************************)
(* mcrctl world restore apply (restore.py): replace the world roots of the *)
(* live Minecraft volume by those of an archive, and put the prior roots   *)
(* back when the restored server does not pass the doctor.                 *)
(*                                                                         *)
(* The command runs four shell scripts, each in a helper container on the  *)
(* volume.  A script fails at its first failing step (sh -e); a command    *)
(* that times out or dies leaves its helper running.  Staging, rollback    *)
(* and failed directories are named after the archive, so a retry with the *)
(* same archive meets what an earlier attempt left.  No lock keeps two     *)
(* commands apart.                                                         *)
(***************************************************************************)
EXTENDS Naturals, Sequences

CONSTANTS
  Command,   \* invocations of restore apply, each used once
  Archive,   \* world archives; also the transaction ids
  Original,  \* the content of the live roots at first
  Roots,     \* the archive's world roots are 1 .. Roots, in mapping order
  Present,   \* the roots that exist in the volume at first
  NoDir, NoArchive,
  FaultAt,   \* what may fail: script stages, host operations, "timeout"
  Serial,    \* the operator lets one command and its helpers end before the next
  MaxCrashes \* bound on the deaths of commands and of the host

Root == 1 .. Roots
Content == Archive \cup {Original}

Scripts == {"prepare", "cutover", "rollback", "cleanup"}
Stages == {"mkdir", "unzip", "check", "out", "in", "chown", "rmdir",
           "aside", "return", "rm"}
HostOperations == {"inspect", "stop", "start", "doctor", "timeout"}

\* Where a command is: which helper it waits for, or its next host operation.
Steps == {"prepare", "cleanup", "inspect", "stop", "stop-cleanup", "stop-restart",
          "cutover", "rollback", "rollback-start",
          "start", "doctor", "verify-stop", "verify-rollback", "verify-start"}
Outcomes == {"refused", "restored", "rolled-back", "rollback-failed",
             "state-unknown", "died"}

ASSUME WorldRestoreAssumption ==
  /\ Original \notin Archive /\ NoArchive \notin Archive
  /\ NoDir \notin [Root -> Seq(Content)]
  /\ Roots \in Nat \ {0}
  /\ Present \subseteq Root
  /\ FaultAt \subseteq Stages \cup HostOperations
  /\ Serial \in BOOLEAN
  /\ MaxCrashes \in Nat

VARIABLES
  data,      \* the live roots: what a directory holds, then what is nested in it
  staging,   \* of each archive: NoDir, or the roots in it
  rollback,
  failed,
  minecraft, \* "running" or "stopped"
  helpers,   \* the helper containers at work
  pc,        \* the step of each command; "idle" before and after it
  exit,      \* exit status of the helper a command waits for
  archive,   \* the archive a command restores
  outcome,   \* what a command reported; "none" while it has not
  crashes,
  prior      \* history: the live roots when a command began

volume == <<data, staging, rollback, failed>>
command == <<pc, exit, archive, outcome>>
vars == <<volume, minecraft, helpers, command, crashes, prior>>

EmptyDir == [r \in Root |-> <<>>]

Init ==
  /\ data = [r \in Root |-> IF r \in Present THEN <<Original>> ELSE <<>>]
  /\ staging = [a \in Archive |-> NoDir]
  /\ rollback = [a \in Archive |-> NoDir]
  /\ failed = [a \in Archive |-> NoDir]
  /\ minecraft = "running"
  /\ helpers = {}
  /\ pc = [c \in Command |-> "idle"]
  /\ exit = [c \in Command |-> "none"]
  /\ archive = [c \in Command |-> NoArchive]
  /\ outcome = [c \in Command |-> "none"]
  /\ crashes = 0
  /\ prior = [c \in Command |-> EmptyDir]

-----------------------------------------------------------------------------
(* Helper containers *)

Helper == [by : Command, script : Scripts, stage : Stages, root : Root]

\* docker run of a script: _helper_command.
Launch(c, step, script) ==
  /\ pc' = [pc EXCEPT ![c] = step]
  /\ exit' = [exit EXCEPT ![c] = "none"]
  /\ helpers' = helpers \cup
       {[by |-> c, script |-> script, root |-> 1,
         stage |-> IF script = "cleanup" THEN "rm" ELSE "mkdir"]}

Waits(c, script) ==
  \/ script = pc[c]
  \/ script = "cleanup" /\ pc[c] = "stop-cleanup"
  \/ script = "rollback" /\ pc[c] = "verify-rollback"

Exit(h, status) ==
  /\ helpers' = helpers \ {h}
  /\ exit' = IF Waits(h.by, h.script) THEN [exit EXCEPT ![h.by] = status] ELSE exit

Proceed(h, stage, root) ==
  /\ helpers' = (helpers \ {h}) \cup {[h EXCEPT !.stage = stage, !.root = root]}
  /\ UNCHANGED exit

\* Mutant: the loop runs once too often.
LoopPastEnd(h, stage, after) ==
  IF h.root <= Roots THEN Proceed(h, stage, h.root + 1) ELSE Proceed(h, after, 1)

\* The next round of a script's loop, or what follows the loop.
Loop(h, stage, after) ==
  IF h.root < Roots THEN Proceed(h, stage, h.root + 1) ELSE Proceed(h, after, 1)

Exists(dir, r) == dir # NoDir /\ dir[r] # <<>>

\* mv of a directory into a place that is taken nests it there, once.
Room(place) == Len(place) < 2

(***************************************************************************)
(* What lets a script's next line succeed; without it the script exits.    *)
(***************************************************************************)
Ready(h) ==
  LET a == archive[h.by]
  IN  \/ h.stage \in {"unzip", "rm"}
      \/ /\ h.stage = "mkdir"
         /\ \/ h.script = "prepare" /\ staging[a] = NoDir /\ rollback[a] = NoDir
            \/ h.script = "cutover" /\ staging[a] # NoDir /\ rollback[a] = NoDir
            \/ h.script = "rollback" /\ rollback[a] # NoDir /\ failed[a] = NoDir
      \/ h.stage = "check" /\ \A r \in Root : Exists(staging[a], r) /\ ~Exists(rollback[a], r)
      \/ /\ h.stage = "out"
         /\ data[h.root] # <<>> => rollback[a] # NoDir /\ Room(rollback[a][h.root])
      \/ h.stage = "aside" /\ (data[h.root] # <<>> => Room(failed[a][h.root]))
      \/ h.stage = "in" /\ Exists(staging[a], h.root) /\ Room(data[h.root])
      \/ h.stage = "chown" /\ data[h.root] # <<>>
      \/ h.stage = "return" /\ (Exists(rollback[a], h.root) => Room(data[h.root]))
      \/ /\ h.stage = "rmdir"
         /\ IF h.script = "cutover" THEN staging[a] = EmptyDir ELSE rollback[a] = EmptyDir

Mkdir(h) ==
  LET a == archive[h.by]
  IN  /\ h.stage = "mkdir"
      /\ \/ /\ h.script = "prepare"
            /\ staging' = [staging EXCEPT ![a] = EmptyDir]
            /\ Proceed(h, "unzip", 1)
            /\ UNCHANGED <<rollback, failed>>
         \/ /\ h.script = "cutover"
            /\ rollback' = [rollback EXCEPT ![a] = EmptyDir]
            /\ Proceed(h, "check", 1)
            /\ UNCHANGED <<staging, failed>>
         \/ /\ h.script = "rollback"
            /\ failed' = [failed EXCEPT ![a] = EmptyDir]
            /\ Proceed(h, "aside", 1)
            /\ UNCHANGED <<staging, rollback>>
      /\ UNCHANGED data

\* unzip -d makes the staging directory again if it has gone.
Unzip(h) ==
  LET a == archive[h.by]
      dir == IF staging[a] = NoDir THEN EmptyDir ELSE staging[a]
  IN  /\ h.stage = "unzip"
      /\ staging' = [staging EXCEPT ![a] = [dir EXCEPT ![h.root] = <<a>>]]
      /\ IF h.root < Roots THEN Proceed(h, "unzip", h.root + 1) ELSE Exit(h, "ok")
      /\ UNCHANGED <<data, rollback, failed>>

\* cutover looks for every staged root before the first move.
Check(h) ==
  /\ h.stage = "check"
  /\ Proceed(h, "out", 1)
  /\ UNCHANGED volume

\* Mutant: the live root is not moved out of the way.
MoveOutNothing(h) ==
  /\ h.stage = "out"
  /\ Loop(h, "out", "in")
  /\ UNCHANGED volume

\* cutover, first loop: a live root moves to the rollback directory.
MoveOut(h) ==
  LET a == archive[h.by]
  IN  /\ h.stage = "out"
      /\ IF data[h.root] = <<>>
         THEN UNCHANGED <<data, rollback>>
         ELSE /\ rollback' = [rollback EXCEPT ![a][h.root] = @ \o data[h.root]]
              /\ data' = [data EXCEPT ![h.root] = <<>>]
      /\ Loop(h, "out", "in")
      /\ UNCHANGED <<staging, failed>>

\* cutover, second loop: a staged root becomes live, then chown.
MoveIn(h) ==
  LET a == archive[h.by]
  IN  /\ h.stage = "in"
      /\ data' = [data EXCEPT ![h.root] = @ \o staging[a][h.root]]
      /\ staging' = [staging EXCEPT ![a][h.root] = <<>>]
      /\ Proceed(h, "chown", h.root)
      /\ UNCHANGED <<rollback, failed>>

Chown(h) ==
  /\ h.stage = "chown"
  /\ Loop(h, "in", "rmdir")
  /\ UNCHANGED volume

\* Mutant: the restored root stays where it is.
MoveAsideNothing(h) ==
  /\ h.stage = "aside"
  /\ Proceed(h, "return", h.root)
  /\ UNCHANGED volume

\* Mutant: what is live is removed instead.
MoveAsideDeletes(h) ==
  /\ h.stage = "aside"
  /\ data' = [data EXCEPT ![h.root] = <<>>]
  /\ Proceed(h, "return", h.root)
  /\ UNCHANGED <<staging, rollback, failed>>

\* rollback, each round: what is live moves to the failed directory ...
MoveAside(h) ==
  LET a == archive[h.by]
  IN  /\ h.stage = "aside"
      /\ failed' = [failed EXCEPT ![a][h.root] = @ \o data[h.root]]
      /\ data' = [data EXCEPT ![h.root] = <<>>]
      /\ Proceed(h, "return", h.root)
      /\ UNCHANGED <<staging, rollback>>

\* ... and what the cutover moved out comes back.
MoveBack(h) ==
  LET a == archive[h.by]
  IN  /\ h.stage = "return"
      /\ IF Exists(rollback[a], h.root)
         THEN /\ data' = [data EXCEPT ![h.root] = @ \o rollback[a][h.root]]
              /\ rollback' = [rollback EXCEPT ![a][h.root] = <<>>]
         ELSE UNCHANGED <<data, rollback>>
      /\ Loop(h, "aside", "rmdir")
      /\ UNCHANGED <<staging, failed>>

\* The last line of cutover and of rollback removes only an empty directory.
Rmdir(h) ==
  LET a == archive[h.by]
  IN  /\ h.stage = "rmdir"
      /\ IF h.script = "cutover"
         THEN staging' = [staging EXCEPT ![a] = NoDir] /\ UNCHANGED rollback
         ELSE rollback' = [rollback EXCEPT ![a] = NoDir] /\ UNCHANGED staging
      /\ Exit(h, "ok")
      /\ UNCHANGED <<data, failed>>

\* Mutant: cleanup removes every directory of the transaction.
RemoveAll(h) ==
  LET a == archive[h.by]
  IN  /\ h.stage = "rm"
      /\ staging' = [staging EXCEPT ![a] = NoDir]
      /\ rollback' = [rollback EXCEPT ![a] = NoDir]
      /\ Exit(h, "ok")
      /\ UNCHANGED <<data, failed>>

\* cleanup: rm -rf of the staging directory.
Remove(h) ==
  /\ h.stage = "rm"
  /\ staging' = [staging EXCEPT ![archive[h.by]] = NoDir]
  /\ Exit(h, "ok")
  /\ UNCHANGED <<data, rollback, failed>>

ScriptStep(h) ==
  /\ Ready(h)
  /\ \/ Mkdir(h) \/ Unzip(h) \/ Check(h) \/ MoveOut(h) \/ MoveIn(h) \/ Chown(h)
     \/ MoveAside(h) \/ MoveBack(h) \/ Rmdir(h) \/ Remove(h)
  /\ UNCHANGED <<minecraft, pc, archive, outcome, crashes, prior>>

\* A line of the script fails: its test does, or a full disk, permissions.
ScriptFails(h) ==
  /\ ~Ready(h) \/ h.stage \in FaultAt
  /\ Exit(h, "failed")
  /\ UNCHANGED <<volume, minecraft, pc, archive, outcome, crashes, prior>>

-----------------------------------------------------------------------------
(* apply_world_restore *)

Goto(c, step) ==
  /\ pc' = [pc EXCEPT ![c] = step]
  /\ UNCHANGED <<helpers, exit, outcome>>

Call(c, step, script) ==
  /\ Launch(c, step, script)
  /\ UNCHANGED outcome

Report(c, result) ==
  /\ pc' = [pc EXCEPT ![c] = "idle"]
  /\ outcome' = [outcome EXCEPT ![c] = result]
  /\ UNCHANGED <<helpers, exit>>

\* docker run returned: the script went through, or it did not, or the
\* command stopped waiting for it.
Returned(c) == exit[c] = "ok"
Lost(c) == exit[c] = "failed" \/ (exit[c] = "none" /\ "timeout" \in FaultAt)

\* Plan and _preflight_runtime: the current Minecraft container is running.
Begin(c, a) ==
  /\ pc[c] = "idle" /\ outcome[c] = "none"
  /\ Serial => helpers = {} /\ \A d \in Command : pc[d] = "idle"
  /\ minecraft = "running"
  /\ archive' = [archive EXCEPT ![c] = a]
  /\ prior' = [prior EXCEPT ![c] = data]
  /\ Call(c, "prepare", "prepare")
  /\ UNCHANGED <<volume, minecraft, crashes>>

\* The archive is inspected again once it is unpacked.
Prepare(c) ==
  /\ \/ pc[c] = "prepare" /\ Returned(c) /\ Goto(c, "inspect")
     \/ pc[c] = "prepare" /\ Lost(c) /\ Call(c, "cleanup", "cleanup")
     \/ pc[c] = "inspect" /\ Goto(c, "stop")
     \/ pc[c] = "inspect" /\ "inspect" \in FaultAt /\ Call(c, "cleanup", "cleanup")
     \/ pc[c] = "cleanup" /\ (Returned(c) \/ Lost(c)) /\ Report(c, "refused")
  /\ UNCHANGED <<volume, minecraft, archive, crashes, prior>>

StopMinecraft(c) ==
  /\ pc[c] = "stop"
  /\ minecraft' = "stopped"
  /\ Call(c, "cutover", "cutover")
  /\ UNCHANGED <<volume, archive, crashes, prior>>

StopFails(c) ==
  /\ pc[c] = "stop"
  /\ "stop" \in FaultAt
  /\ minecraft' \in {minecraft, "stopped"}
  /\ Call(c, "stop-cleanup", "cleanup")
  /\ UNCHANGED <<volume, archive, crashes, prior>>

AfterStopFailed(c) ==
  /\ \/ pc[c] = "stop-cleanup" /\ Returned(c) /\ Goto(c, "stop-restart") /\ UNCHANGED minecraft
     \/ pc[c] = "stop-cleanup" /\ Lost(c) /\ Report(c, "state-unknown") /\ UNCHANGED minecraft
     \/ pc[c] = "stop-restart" /\ minecraft' = "running" /\ Report(c, "refused")
     \/ /\ pc[c] = "stop-restart"
        /\ "start" \in FaultAt
        /\ minecraft' \in {minecraft, "running"}
        /\ Report(c, "state-unknown")
  /\ UNCHANGED <<volume, archive, crashes, prior>>

Cutover(c) ==
  /\ pc[c] = "cutover"
  /\ \/ Returned(c) /\ Goto(c, "start")
     \/ Lost(c) /\ Call(c, "rollback", "rollback")
  /\ UNCHANGED <<volume, minecraft, archive, crashes, prior>>

StartMinecraft(c) ==
  /\ pc[c] = "start"
  /\ \/ minecraft' = "running" /\ Goto(c, "doctor")
     \/ /\ "start" \in FaultAt
        /\ minecraft' \in {minecraft, "running"}
        /\ Goto(c, "verify-stop")
  /\ UNCHANGED <<volume, archive, crashes, prior>>

Doctor(c) ==
  /\ pc[c] = "doctor"
  /\ \/ minecraft = "running" /\ Report(c, "restored")
     \/ minecraft = "stopped" /\ Goto(c, "verify-stop")
     \/ "doctor" \in FaultAt /\ Goto(c, "verify-stop")
  /\ UNCHANGED <<volume, minecraft, archive, crashes, prior>>

VerifyStop(c) ==
  /\ pc[c] = "verify-stop"
  /\ \/ minecraft' = "stopped" /\ Call(c, "verify-rollback", "rollback")
     \/ /\ "stop" \in FaultAt
        /\ minecraft' \in {minecraft, "stopped"}
        /\ Report(c, "rollback-failed")
  /\ UNCHANGED <<volume, archive, crashes, prior>>

\* Mutant: the server is started whatever the rollback did.
RollbackStartsAnyway(c) ==
  /\ \/ pc[c] = "rollback" /\ (Returned(c) \/ Lost(c)) /\ Goto(c, "rollback-start")
     \/ pc[c] = "verify-rollback" /\ (Returned(c) \/ Lost(c)) /\ Goto(c, "verify-start")
  /\ UNCHANGED <<volume, minecraft, archive, crashes, prior>>

\* Mutant: a second rollback, after the doctor, that fails is reported as done.
RollbackSilent(c) ==
  /\ \/ pc[c] = "rollback" /\ Returned(c) /\ Goto(c, "rollback-start")
     \/ pc[c] = "verify-rollback" /\ Returned(c) /\ Goto(c, "verify-start")
     \/ pc[c] = "rollback" /\ Lost(c) /\ Report(c, "rollback-failed")
     \/ pc[c] = "verify-rollback" /\ Lost(c) /\ Report(c, "rolled-back")
  /\ UNCHANGED <<volume, minecraft, archive, crashes, prior>>

Rollback(c) ==
  /\ \/ pc[c] = "rollback" /\ Returned(c) /\ Goto(c, "rollback-start")
     \/ pc[c] = "verify-rollback" /\ Returned(c) /\ Goto(c, "verify-start")
     \/ /\ pc[c] \in {"rollback", "verify-rollback"}
        /\ Lost(c)
        /\ Report(c, "rollback-failed")
  /\ UNCHANGED <<volume, minecraft, archive, crashes, prior>>

StartPrior(c) ==
  /\ pc[c] \in {"rollback-start", "verify-start"}
  /\ \/ minecraft' = "running" /\ Report(c, "rolled-back")
     \/ /\ "start" \in FaultAt
        /\ minecraft' \in {minecraft, "running"}
        /\ Report(c, "rollback-failed")
  /\ UNCHANGED <<volume, archive, crashes, prior>>

CommandStep(c) ==
  \/ Prepare(c) \/ StopMinecraft(c) \/ StopFails(c) \/ AfterStopFailed(c)
  \/ Cutover(c) \/ StartMinecraft(c) \/ Doctor(c)
  \/ VerifyStop(c) \/ Rollback(c) \/ StartPrior(c)

-----------------------------------------------------------------------------
(* The environment *)

\* mcrctl is killed; its helper container goes on.
Die(c) ==
  /\ crashes < MaxCrashes
  /\ pc[c] # "idle"
  /\ crashes' = crashes + 1
  /\ Report(c, "died")
  /\ UNCHANGED <<volume, minecraft, archive, prior>>

\* The host restarts: commands and helpers are gone, and a container that was
\* stopped stays so (restart: unless-stopped).
HostRestarts ==
  /\ crashes < MaxCrashes
  /\ \E c \in Command : pc[c] # "idle"
  /\ crashes' = crashes + 1
  /\ helpers' = {}
  /\ pc' = [c \in Command |-> "idle"]
  /\ outcome' = [c \in Command |-> IF pc[c] = "idle" THEN outcome[c] ELSE "died"]
  /\ UNCHANGED <<volume, minecraft, exit, archive, prior>>

Next ==
  \/ \E h \in helpers : ScriptStep(h) \/ ScriptFails(h)
  \/ \E c \in Command : CommandStep(c) \/ Die(c)
  \/ \E c \in Command, a \in Archive : Begin(c, a)
  \/ HostRestarts

Spec == Init /\ [][Next]_vars

\* A container at work and a command at work go on; nothing else is promised.
Fairness ==
  /\ WF_vars(\E h \in helpers : ScriptStep(h) \/ ScriptFails(h))
  /\ \A c \in Command : WF_vars(CommandStep(c))

FairSpec == Spec /\ Fairness

-----------------------------------------------------------------------------
(* Properties *)

TypeOK ==
  /\ data \in [Root -> Seq(Content)]
  /\ staging \in [Archive -> [Root -> Seq(Content)] \cup {NoDir}]
  /\ rollback \in [Archive -> [Root -> Seq(Content)] \cup {NoDir}]
  /\ failed \in [Archive -> [Root -> Seq(Content)] \cup {NoDir}]
  /\ minecraft \in {"running", "stopped"}
  /\ helpers \subseteq Helper
  /\ pc \in [Command -> Steps \cup {"idle"}]
  /\ exit \in [Command -> {"none", "ok", "failed"}]
  /\ archive \in [Command -> Archive \cup {NoArchive}]
  /\ outcome \in [Command -> Outcomes \cup {"none"}]
  /\ crashes \in Nat
  /\ prior \in [Command -> [Root -> Seq(Content)]]

Begun(c) == archive[c] # NoArchive

\* Whatever fails, dies or overlaps, the restore deletes no root of the first
\* world: it is live, kept, or nested in a root that is.
NothingDeleted ==
  \A r \in Present :
    \E place \in {data} \cup {rollback[a] : a \in Archive} \cup {failed[a] : a \in Archive} :
      Exists(place, r) /\ \E k \in DOMAIN place[r] : place[r][k] = Original

\* When the operator runs one command at a time, no fault, death or retry
\* costs a root of any world that was live: it is live, in a rollback or in a
\* failed directory.
PriorWorldKept ==
  \A c \in Command, r \in Root :
    archive[c] # NoArchive /\ prior[c][r] # <<>> =>
      \E place \in {data} \cup {rollback[a] : a \in Archive} \cup {failed[a] : a \in Archive} :
        place # NoDir /\ place[r] = prior[c][r]

\* The server never runs on the roots of two worlds, not even after a death in
\* mid-cutover, which leaves it stopped (one command at a time).
NeverRunsMixed ==
  minecraft = "running" =>
    \A r, s \in Root : data[r] # <<>> /\ data[s] # <<>> => data[r] = data[s]

\* "restored" is reported for a server that runs on every root of the archive,
\* with every prior root in the rollback directory (one command at a time).
RestoredIsComplete ==
  [][\A c \in Command :
       outcome[c] = "none" /\ outcome'[c] = "restored" =>
         /\ minecraft = "running"
         /\ \A r \in Root : data[r] = <<archive[c]>>
         /\ rollback[archive[c]] = prior[c]]_vars

\* After a complete cutover, "rolled-back" means exactly the prior world, and
\* running (one command at a time).
VerifiedRollback ==
  [][\A c \in Command :
       pc[c] = "verify-start" /\ outcome'[c] = "rolled-back" =>
         data = prior[c] /\ minecraft' = "running"]_vars

\* The steps of a command between a stop of the server it asked for and its
\* report: before the first start, and after the second stop.
TookDown(c) == pc[c] \in {"stop-cleanup", "stop-restart", "cutover", "rollback", "rollback-start",
                          "start", "verify-rollback", "verify-start"}

\* A command that took the server down - at the cutover, or again after a
\* restored server did not pass - ends with the server running or says in its
\* report that it could not bring it up.  A start before the second stop is not
\* enough: the command must have ended.
NoSilentStop ==
  \A c \in Command :
    TookDown(c) ~>
      \/ outcome[c] \in {"rollback-failed", "state-unknown", "died"}
      \/ outcome[c] \in {"refused", "restored", "rolled-back"} /\ minecraft = "running"
=============================================================================
