-------------------------- MODULE WorldRestore_proofs --------------------------
(***************************************************************************)
(* Proofs about WorldRestore, for every set of commands and archives,      *)
(* every number of roots and every choice of faults and deaths.            *)
(*                                                                         *)
(* NothingDeleted holds whatever overlaps.  What a command reports and     *)
(* what the server runs on is proved for an operator who lets one command  *)
(* and its helpers end before the next (OneAtATime).                       *)
(***************************************************************************)
EXTENDS WorldRestore, TLAPS, SequenceTheorems

(***************************************************************************)
(* Types                                                                   *)
(***************************************************************************)
Place == [Root -> Seq(Content)]

\* The lines that each script has.
ScriptStages(script) ==
  IF script = "prepare" THEN {"mkdir", "unzip"}
  ELSE IF script = "cutover" THEN {"mkdir", "check", "out", "in", "chown", "rmdir"}
  ELSE IF script = "rollback" THEN {"mkdir", "aside", "return", "rmdir"}
  ELSE {"rm"}

\* Commands and helpers at work have an archive, and a command that has not
\* begun has none; a command at work has reported nothing; a helper is at a
\* line of its script, and the failed directory is there once the rollback has
\* made it.
WorkInv ==
  /\ \A c \in Command :
       /\ pc[c] # "idle" => archive[c] \in Archive /\ outcome[c] = "none"
       /\ pc[c] = "idle" /\ outcome[c] = "none" => archive[c] = NoArchive
  /\ \A h \in helpers :
       /\ archive[h.by] \in Archive
       /\ h.stage \in ScriptStages(h.script)
       /\ h.script = "rollback" /\ h.stage # "mkdir" => failed[archive[h.by]] # NoDir

TypeInv == TypeOK /\ WorkInv

(***************************************************************************)
(* One command at a time                                                   *)
(***************************************************************************)
OneAtATime == Serial /\ "timeout" \notin FaultAt

\* Roots of one world only.
Unmixed(roots) ==
  \A r, s \in Root : roots[r] # <<>> /\ roots[s] # <<>> => roots[r] = roots[s]

\* Live roots and rollback directory after a complete cutover.
Restored(c) ==
  /\ data = [r \in Root |-> <<archive[c]>>]
  /\ rollback[archive[c]] = prior[c]

\* A rollback directory that holds nothing but prior roots of this command.
PartOfPrior(c) ==
  rollback[archive[c]] # NoDir =>
    \A r \in Root : rollback[archive[c]][r] \in {<<>>, prior[c][r]}

\* At most one command, and at most one helper, which it waits for.
AloneInv ==
  /\ \A c, d \in Command : pc[c] # "idle" /\ pc[d] # "idle" => c = d
  /\ \A g, h \in helpers : g = h
  /\ \A h \in helpers, c \in Command :
       pc[c] # "idle" => c = h.by /\ Waits(c, h.script) /\ exit[c] = "none"

\* A staging directory holds roots of its archive only.
StagingInv ==
  \A a \in Archive : staging[a] # NoDir => \A r \in Root : staging[a][r] \in {<<>>, <<a>>}

\* How far a cutover is: roots below k are done in the loop it is in.
CutoverAt(h) ==
  LET a == archive[h.by]
      p == prior[h.by]
      k == h.root
  IN  /\ h.stage = "mkdir" => data = p /\ rollback[a] = NoDir
      /\ h.stage = "check" => data = p /\ rollback[a] = EmptyDir
      /\ h.stage = "out" =>
           /\ rollback[a] # NoDir
           /\ \A r \in Root :
                /\ data[r] = IF r < k THEN <<>> ELSE p[r]
                /\ rollback[a][r] = IF r < k THEN p[r] ELSE <<>>
      /\ h.stage \in {"in", "chown"} =>
           /\ rollback[a] = p
           /\ \A r \in Root :
                data[r] = IF r < k \/ (r = k /\ h.stage = "chown") THEN <<a>> ELSE <<>>
      /\ h.stage = "rmdir" => Restored(h.by)

\* How far a rollback is.  What it finds in the rollback directory are prior
\* roots; roots below k are back, or were not moved out.
RollbackAt(h) ==
  LET a == archive[h.by]
      p == prior[h.by]
      k == h.root
  IN  /\ h.stage = "mkdir" => PartOfPrior(h.by)
      /\ h.stage \in {"aside", "return"} =>
           /\ rollback[a] # NoDir
           /\ \A r \in Root :
                /\ r >= k => rollback[a][r] \in {<<>>, p[r]}
                /\ r > k \/ (r = k /\ h.stage = "aside") => failed[a][r] = <<>>
                /\ r < k => data[r] \in {<<>>, p[r]}
      /\ h.stage = "return" => data[k] = <<>>
      /\ h.stage = "rmdir" => \A r \in Root : data[r] \in {<<>>, p[r]}

\* After a complete cutover the rollback brings back every prior root.
FullRollbackAt(h) ==
  LET a == archive[h.by]
      p == prior[h.by]
      k == h.root
  IN  /\ h.stage = "mkdir" => rollback[a] = p
      /\ h.stage \in {"aside", "return"} =>
           \A r \in Root : /\ r >= k => rollback[a][r] = p[r]
                           /\ r < k => data[r] = p[r]
      /\ h.stage = "rmdir" => data = p

\* What holds at the line a helper is at.
HelperInv ==
  \A h \in helpers :
    /\ h.script = "prepare" /\ h.stage = "unzip" => rollback[archive[h.by]] = NoDir
    /\ h.script = "cutover" => CutoverAt(h)
    /\ h.script = "rollback" => RollbackAt(h)
    /\ h.script = "rollback" /\ pc[h.by] = "verify-rollback" => FullRollbackAt(h)
    /\ h.script \in {"cutover", "rollback"} => minecraft = "stopped"

\* What a command knows of the volume at each step, the return of the helper
\* it waited for included.
Untouched == {"prepare", "cleanup", "inspect", "stop", "stop-cleanup", "stop-restart"}
Stopped == {"cutover", "rollback", "rollback-start", "verify-rollback", "verify-start"}

\* What the world is like when a command is at a step.
Knows(c) ==
  /\ pc[c] \in Untouched => data = prior[c]
  /\ pc[c] \in {"inspect", "stop"} \/ (pc[c] = "prepare" /\ exit[c] = "ok") =>
       rollback[archive[c]] = NoDir
  /\ pc[c] \in {"start", "doctor", "verify-stop"} \/ (pc[c] = "cutover" /\ exit[c] = "ok") =>
       Restored(c)
  /\ pc[c] = "cutover" /\ exit[c] = "failed" => PartOfPrior(c)
  /\ pc[c] = "rollback-start" \/ (pc[c] = "rollback" /\ exit[c] = "ok") =>
       \A r \in Root : data[r] \in {<<>>, prior[c][r]}
  /\ pc[c] = "verify-start" \/ (pc[c] = "verify-rollback" /\ exit[c] = "ok") =>
       data = prior[c]
  /\ pc[c] \in Stopped => minecraft = "stopped"

CommandInv == \A c \in Command : Knows(c) /\ Unmixed(prior[c])

\* The invariant of one command at a time.
SerialInv ==
  /\ AloneInv /\ StagingInv /\ HelperInv /\ CommandInv
  /\ PriorWorldKept /\ NeverRunsMixed

(***************************************************************************)
(* Lemmas about sequences and directories                                  *)
(***************************************************************************)

\* What is nested into a root is a root's content again.
LEMMA Nesting ==
  ASSUME NEW s \in Seq(Content), NEW t \in Seq(Content)
  PROVE  /\ s \o t \in Seq(Content)
         /\ <<>> \o t = t
         /\ <<>> \in Seq(Content)
         /\ \A a \in Archive : <<a>> \in Seq(Content) /\ <<a>> # <<>>
<1>1. s \o t \in Seq(Content)
  BY ConcatProperties
<1>2. <<>> \o t = t
  BY ConcatEmptySeq
<1>3. \A a \in Archive : <<a>> \in Seq(Content) /\ <<a>> # <<>>
  BY DEF Content
<1>4. <<>> \in Seq(Content)
  BY EmptySeq
<1>. QED
  BY <1>1, <1>2, <1>3, <1>4

\* A new directory, and one in which a root is exchanged.
LEMMA Directories ==
  /\ EmptyDir \in Place
  /\ NoDir \notin Place
  /\ \A dir \in Place, r \in Root, s \in Seq(Content) : [dir EXCEPT ![r] = s] \in Place
<1>1. EmptyDir \in Place
  BY EmptySeq DEF EmptyDir, Place
<1>2. NoDir \notin Place
  BY WorldRestoreAssumption DEF Place
<1>3. ASSUME NEW dir \in Place, NEW r \in Root, NEW s \in Seq(Content)
      PROVE  [dir EXCEPT ![r] = s] \in Place
  BY <1>3 DEF Place
<1>. QED
  BY <1>1, <1>2, <1>3

(***************************************************************************)
(* Type correctness                                                        *)
(***************************************************************************)
VolumeTypes ==
  /\ data \in Place
  /\ staging \in [Archive -> Place \cup {NoDir}]
  /\ rollback \in [Archive -> Place \cup {NoDir}]
  /\ failed \in [Archive -> Place \cup {NoDir}]

\* The types of commands and server, and what TypeInv says of helpers and of
\* commands at work.
ControlTypes ==
  /\ minecraft \in {"running", "stopped"}
  /\ pc \in [Command -> Steps \cup {"idle"}]
  /\ exit \in [Command -> {"none", "ok", "failed"}]
  /\ archive \in [Command -> Archive \cup {NoArchive}]
  /\ outcome \in [Command -> Outcomes \cup {"none"}]
  /\ crashes \in Nat
  /\ prior \in [Command -> Place]

HelpersOK ==
  \A h \in helpers :
    /\ h \in Helper
    /\ archive[h.by] \in Archive
    /\ h.stage \in ScriptStages(h.script)
    /\ h.script = "rollback" /\ h.stage # "mkdir" => failed[archive[h.by]] # NoDir

ActiveOK ==
  \A c \in Command :
    /\ pc[c] # "idle" => archive[c] \in Archive /\ outcome[c] = "none"
    /\ pc[c] = "idle" /\ outcome[c] = "none" => archive[c] = NoArchive

Parts == VolumeTypes /\ ControlTypes /\ HelpersOK /\ ActiveOK

\* TypeInv in its parts, before and after a step.
LEMMA TypeParts == TypeInv <=> Parts
<1>1. TypeInv => Parts
  BY DEF TypeInv, TypeOK, WorkInv, VolumeTypes, ControlTypes, HelpersOK, ActiveOK, Parts,
         Place
<1>2. Parts => TypeInv
  BY DEF TypeInv, TypeOK, WorkInv, VolumeTypes, ControlTypes, HelpersOK, ActiveOK, Parts,
         Place
<1>. QED
  BY <1>1, <1>2

LEMMA TypePartsNext == TypeInv' <=> Parts'
<1>1. TypeInv' => Parts'
  BY DEF TypeInv, TypeOK, WorkInv, VolumeTypes, ControlTypes, HelpersOK, ActiveOK, Parts,
         Place
<1>2. Parts' => TypeInv'
  BY DEF TypeInv, TypeOK, WorkInv, VolumeTypes, ControlTypes, HelpersOK, ActiveOK, Parts,
         Place
<1>. QED
  BY <1>1, <1>2

\* The helper of a step after it: gone, or at its next line.
Advanced(h) ==
  /\ exit' \in [Command -> {"none", "ok", "failed"}]
  /\ \/ helpers' = helpers \ {h}
     \/ \E stage \in ScriptStages(h.script), root \in Root :
          helpers' = (helpers \ {h}) \cup {[h EXCEPT !.stage = stage, !.root = root]}

\* A helper that goes on is at a line of its script.
LEMMA ProceedAdvances ==
  ASSUME Parts, NEW h \in helpers,
         NEW stage \in ScriptStages(h.script), NEW root \in Root,
         Proceed(h, stage, root)
  PROVE  Advanced(h)
  BY DEF Proceed, Advanced, Parts, ControlTypes

\* A helper that ends is gone.
LEMMA ExitAdvances ==
  ASSUME Parts, NEW h \in helpers, NEW status \in {"ok", "failed"}, Exit(h, status)
  PROVE  Advanced(h) /\ helpers' = helpers \ {h}
  BY DEF Exit, Advanced, Parts, ControlTypes

\* The first root and the next one are roots.
LEMMA Rounds ==
  ASSUME NEW k \in Root
  PROVE  /\ 1 \in Root
         /\ k < Roots => k + 1 \in Root
  BY WorldRestoreAssumption DEF Root

\* A loop goes to its next round or to the line after it.
LEMMA LoopAdvances ==
  ASSUME Parts, NEW h \in helpers,
         NEW stage \in ScriptStages(h.script), NEW after \in ScriptStages(h.script),
         Loop(h, stage, after)
  PROVE  Advanced(h)
<1>1. h.root \in Root
  BY DEF HelpersOK, Helper, Parts
<1>2. CASE h.root < Roots
  BY <1>1, <1>2, Rounds, ProceedAdvances DEF Loop
<1>3. CASE ~(h.root < Roots)
  BY <1>1, <1>3, Rounds, ProceedAdvances DEF Loop
<1>. QED
  BY <1>2, <1>3

\* A helper that advances keeps to its script.
LEMMA HelpersAdvance ==
  ASSUME Parts, NEW h \in helpers, Advanced(h), UNCHANGED archive,
         \A a \in Archive : failed[a] # NoDir => failed'[a] # NoDir,
         h.script = "rollback" => helpers' = helpers \ {h} \/ failed'[archive[h.by]] # NoDir
  PROVE  HelpersOK'
<1>1. \A g \in helpers \ {h} : /\ g \in Helper
                               /\ archive'[g.by] \in Archive
                               /\ g.stage \in ScriptStages(g.script)
                               /\ g.script = "rollback" /\ g.stage # "mkdir" =>
                                    failed'[archive'[g.by]] # NoDir
  BY DEF Parts, HelpersOK
<1>2. CASE helpers' = helpers \ {h}
  BY <1>1, <1>2 DEF HelpersOK
<1>3. ASSUME NEW stage \in ScriptStages(h.script), NEW root \in Root,
             helpers' = (helpers \ {h}) \cup {[h EXCEPT !.stage = stage, !.root = root]},
             h.script = "rollback" => failed'[archive[h.by]] # NoDir
      PROVE  HelpersOK'
  <2>. DEFINE g == [h EXCEPT !.stage = stage, !.root = root]
  <2>1. stage \in Stages
    BY DEF ScriptStages, Stages
  <2>2. h \in Helper /\ archive[h.by] \in Archive
    BY DEF Parts, HelpersOK
  <2>3. g \in Helper /\ g.by = h.by /\ g.script = h.script /\ g.stage = stage
    BY <2>1, <2>2 DEF Helper
  <2>. QED
    BY <1>1, <1>3, <2>2, <2>3 DEF HelpersOK
<1>4. CASE helpers' # helpers \ {h}
  BY <1>3, <1>4 DEF Advanced
<1>. QED
  BY <1>2, <1>4

\* What a helper works on.
LEMMA HelperFacts ==
  ASSUME Parts, NEW h \in helpers
  PROVE  /\ h.by \in Command /\ h.root \in Root /\ archive[h.by] \in Archive
         /\ h.stage \in ScriptStages(h.script) /\ h.script \in Scripts
         /\ h.script = "rollback" /\ h.stage # "mkdir" =>
              failed[archive[h.by]] \in Place /\ failed[archive[h.by]] # NoDir
         /\ data[h.root] \in Seq(Content)
         /\ \A dir \in {staging, rollback, failed} :
              dir[archive[h.by]] # NoDir =>
                dir[archive[h.by]] \in Place /\ dir[archive[h.by]][h.root] \in Seq(Content)
  BY DEF Parts, HelpersOK, Helper, VolumeTypes, Place

\* No line of a script breaks a type, and a helper keeps to its script.
LEMMA ScriptTypes ==
  ASSUME Parts, NEW h \in helpers, ScriptStep(h)
  PROVE  VolumeTypes' /\ Advanced(h) /\ HelpersOK'
<1>. DEFINE a == archive[h.by]
            Kept == \A b \in Archive : failed[b] # NoDir => failed'[b] # NoDir
            There == h.script = "rollback" =>
                       helpers' = helpers \ {h} \/ failed'[archive[h.by]] # NoDir
<1>0. /\ h.root \in Root /\ a \in Archive /\ 1 \in Root
      /\ h.stage \in ScriptStages(h.script) /\ h.script \in Scripts
      /\ VolumeTypes /\ EmptyDir \in Place /\ EmptyDir # NoDir
      /\ UNCHANGED archive
      /\ h.script = "rollback" /\ h.stage # "mkdir" => failed[a] \in Place /\ failed[a] # NoDir
  BY HelperFacts, Directories, Rounds DEF ScriptStep, Parts
<1>1. CASE Mkdir(h)
  <2>1. CASE h.script = "prepare"
    <3>1. Advanced(h)
      BY <1>0, <1>1, <2>1, ProceedAdvances DEF Mkdir, ScriptStages
    <3>2. VolumeTypes' /\ Kept /\ There
      BY <1>0, <1>1, <2>1 DEF Mkdir, VolumeTypes
    <3>. QED
      BY <1>0, <3>1, <3>2, HelpersAdvance
  <2>2. CASE h.script = "cutover"
    <3>1. Advanced(h)
      BY <1>0, <1>1, <2>2, ProceedAdvances DEF Mkdir, ScriptStages
    <3>2. VolumeTypes' /\ Kept /\ There
      BY <1>0, <1>1, <2>2 DEF Mkdir, VolumeTypes
    <3>. QED
      BY <1>0, <3>1, <3>2, HelpersAdvance
  <2>3. CASE h.script = "rollback"
    <3>1. Advanced(h)
      BY <1>0, <1>1, <2>3, ProceedAdvances DEF Mkdir, ScriptStages
    <3>2. VolumeTypes' /\ Kept /\ There
      BY <1>0, <1>1, <2>3 DEF Mkdir, VolumeTypes
    <3>. QED
      BY <1>0, <3>1, <3>2, HelpersAdvance
  <2>. QED
    BY <1>1, <2>1, <2>2, <2>3 DEF Mkdir
<1>2. CASE Unzip(h)
  <2>. DEFINE dir == IF staging[a] = NoDir THEN EmptyDir ELSE staging[a]
  <2>1. h.script = "prepare"
    BY <1>0, <1>2 DEF Unzip, ScriptStages, Scripts
  <2>2. Advanced(h)
    BY <1>0, <1>2, <2>1, ProceedAdvances, ExitAdvances, Rounds DEF Unzip, ScriptStages
  <2>3. dir \in Place
    BY <1>0 DEF VolumeTypes
  <2>4. [dir EXCEPT ![h.root] = <<a>>] \in Place
    <3>1. <<a>> \in Seq(Content)
      BY <1>0 DEF Content
    <3>. HIDE DEF dir
    <3>. QED
      BY <1>0, <2>3, <3>1, Directories
  <2>5. VolumeTypes' /\ Kept /\ There
    BY <1>0, <1>2, <2>1, <2>4 DEF Unzip, VolumeTypes
  <2>. QED
    BY <1>0, <2>2, <2>5, HelpersAdvance
<1>3. CASE Check(h)
  <2>1. h.script = "cutover"
    BY <1>0, <1>3 DEF Check, ScriptStages, Scripts
  <2>2. Advanced(h)
    BY <1>0, <1>3, <2>1, ProceedAdvances DEF Check, ScriptStages
  <2>3. VolumeTypes' /\ Kept /\ There
    BY <1>0, <1>3, <2>1 DEF Check, VolumeTypes, volume
  <2>. QED
    BY <1>0, <2>2, <2>3, HelpersAdvance
<1>4. CASE MoveOut(h)
  <2>1. h.script = "cutover" /\ h.stage = "out"
    BY <1>0, <1>4 DEF MoveOut, ScriptStages, Scripts
  <2>2. Advanced(h)
    BY <1>0, <1>4, <2>1, LoopAdvances DEF MoveOut, ScriptStages
  <2>3. CASE data[h.root] = <<>>
    BY <1>0, <1>4, <2>1, <2>2, <2>3, HelpersAdvance DEF MoveOut, VolumeTypes
  <2>4. CASE data[h.root] # <<>>
    <3>1. rollback[a] # NoDir
      BY <2>1, <2>4 DEF ScriptStep, Ready
    <3>2. rollback[a][h.root] \o data[h.root] \in Seq(Content)
      BY <3>1, HelperFacts, Nesting
    <3>3. [rollback[a] EXCEPT ![h.root] = rollback[a][h.root] \o data[h.root]] \in Place
      BY <1>0, <3>1, <3>2, Directories DEF VolumeTypes
    <3>4. [data EXCEPT ![h.root] = <<>>] \in Place
      BY <1>0, Directories, EmptySeq DEF VolumeTypes
    <3>5. VolumeTypes' /\ Kept /\ There
      BY <1>0, <1>4, <2>1, <2>4, <3>3, <3>4 DEF MoveOut, VolumeTypes
    <3>. QED
      BY <1>0, <2>2, <3>5, HelpersAdvance
  <2>. QED
    BY <2>3, <2>4
<1>5. CASE MoveIn(h)
  <2>1. h.script = "cutover" /\ h.stage = "in"
    BY <1>0, <1>5 DEF MoveIn, ScriptStages, Scripts
  <2>2. Advanced(h)
    BY <1>0, <1>5, <2>1, ProceedAdvances DEF MoveIn, ScriptStages
  <2>3. staging[a] # NoDir
    BY <2>1 DEF ScriptStep, Ready, Exists
  <2>4. data[h.root] \o staging[a][h.root] \in Seq(Content)
    BY <2>3, HelperFacts, Nesting
  <2>5. [data EXCEPT ![h.root] = data[h.root] \o staging[a][h.root]] \in Place
    BY <1>0, <2>4, Directories DEF VolumeTypes
  <2>6. [staging[a] EXCEPT ![h.root] = <<>>] \in Place
    BY <1>0, <2>3, Directories, EmptySeq DEF VolumeTypes
  <2>7. VolumeTypes' /\ Kept /\ There
    BY <1>0, <1>5, <2>1, <2>5, <2>6 DEF MoveIn, VolumeTypes
  <2>. QED
    BY <1>0, <2>2, <2>7, HelpersAdvance
<1>6. CASE Chown(h)
  <2>1. h.script = "cutover"
    BY <1>0, <1>6 DEF Chown, ScriptStages, Scripts
  <2>2. Advanced(h)
    BY <1>0, <1>6, <2>1, LoopAdvances DEF Chown, ScriptStages
  <2>3. VolumeTypes' /\ Kept /\ There
    BY <1>0, <1>6, <2>1 DEF Chown, VolumeTypes, volume
  <2>. QED
    BY <1>0, <2>2, <2>3, HelpersAdvance
<1>7. CASE MoveAside(h)
  <2>1. h.script = "rollback" /\ h.stage = "aside"
    BY <1>0, <1>7 DEF MoveAside, ScriptStages, Scripts
  <2>2. Advanced(h)
    BY <1>0, <1>7, <2>1, ProceedAdvances DEF MoveAside, ScriptStages
  <2>3. failed[a][h.root] \o data[h.root] \in Seq(Content)
    BY <1>0, <2>1, HelperFacts, Nesting
  <2>4. [failed[a] EXCEPT ![h.root] = failed[a][h.root] \o data[h.root]] \in Place
    BY <1>0, <2>1, <2>3, Directories
  <2>5. [data EXCEPT ![h.root] = <<>>] \in Place
    BY <1>0, Directories, EmptySeq DEF VolumeTypes
  <2>6. VolumeTypes' /\ Kept /\ There
    BY <1>0, <1>7, <2>1, <2>4, <2>5, Directories DEF MoveAside, VolumeTypes
  <2>. QED
    BY <1>0, <2>2, <2>6, HelpersAdvance
<1>8. CASE MoveBack(h)
  <2>1. h.script = "rollback" /\ h.stage = "return"
    BY <1>0, <1>8 DEF MoveBack, ScriptStages, Scripts
  <2>2. Advanced(h)
    BY <1>0, <1>8, <2>1, LoopAdvances DEF MoveBack, ScriptStages
  <2>3. CASE ~Exists(rollback[a], h.root)
    BY <1>0, <1>8, <2>1, <2>2, <2>3, HelpersAdvance DEF MoveBack, VolumeTypes
  <2>4. CASE Exists(rollback[a], h.root)
    <3>1. rollback[a] # NoDir
      BY <2>4 DEF Exists
    <3>2. data[h.root] \o rollback[a][h.root] \in Seq(Content)
      BY <3>1, HelperFacts, Nesting
    <3>3. [data EXCEPT ![h.root] = data[h.root] \o rollback[a][h.root]] \in Place
      BY <1>0, <3>2, Directories DEF VolumeTypes
    <3>4. [rollback[a] EXCEPT ![h.root] = <<>>] \in Place
      BY <1>0, <3>1, Directories, EmptySeq DEF VolumeTypes
    <3>5. VolumeTypes' /\ Kept /\ There
      BY <1>0, <1>8, <2>1, <2>4, <3>3, <3>4 DEF MoveBack, VolumeTypes
    <3>. QED
      BY <1>0, <2>2, <3>5, HelpersAdvance
  <2>. QED
    BY <2>3, <2>4
<1>9. CASE Rmdir(h)
  <2>1. Advanced(h) /\ helpers' = helpers \ {h}
    BY <1>9, ExitAdvances DEF Rmdir
  <2>2. VolumeTypes' /\ Kept /\ There
    BY <1>0, <1>9, <2>1 DEF Rmdir, VolumeTypes
  <2>. QED
    BY <1>0, <2>1, <2>2, HelpersAdvance
<1>10. CASE Remove(h)
  <2>1. Advanced(h) /\ helpers' = helpers \ {h}
    BY <1>10, ExitAdvances DEF Remove
  <2>2. VolumeTypes' /\ Kept /\ There
    BY <1>0, <1>10, <2>1 DEF Remove, VolumeTypes
  <2>. QED
    BY <1>0, <2>1, <2>2, HelpersAdvance
<1>. QED
  BY <1>1, <1>2, <1>3, <1>4, <1>5, <1>6, <1>7, <1>8, <1>9, <1>10 DEF ScriptStep

\* Steps of commands, deaths and restarts: the helpers at most gain one at the
\* first line of its script, or all end.
LEMMA LaunchKeeps ==
  ASSUME Parts, NEW c \in Command, archive'[c] \in Archive,
         NEW step \in Steps, NEW script \in Scripts,
         Launch(c, step, script),
         UNCHANGED failed, \A h \in helpers : archive'[h.by] = archive[h.by]
  PROVE  /\ HelpersOK'
         /\ pc' = [pc EXCEPT ![c] = step] /\ pc' \in [Command -> Steps \cup {"idle"}]
         /\ exit' \in [Command -> {"none", "ok", "failed"}]
<1>. DEFINE h == [by |-> c, script |-> script, root |-> 1,
                  stage |-> IF script = "cleanup" THEN "rm" ELSE "mkdir"]
<1>1. helpers' = helpers \cup {h} /\ pc' = [pc EXCEPT ![c] = step]
      /\ exit' = [exit EXCEPT ![c] = "none"]
  BY DEF Launch
<1>2. h \in Helper /\ h.by = c /\ h.script = script
      /\ h.stage \in ScriptStages(h.script)
      /\ (h.script = "rollback" => h.stage = "mkdir")
  BY WorldRestoreAssumption DEF Helper, Stages, Scripts, ScriptStages, Root
<1>. HIDE DEF h
<1>3. HelpersOK'
  BY <1>1, <1>2 DEF Parts, HelpersOK
<1>. QED
  BY <1>1, <1>3 DEF Parts, ControlTypes

\* At first no command has begun.
LEMMA InitTypes == Init => TypeInv
<1>. SUFFICES ASSUME Init PROVE Parts
  BY TypeParts
<1>1. VolumeTypes
  <2>1. data \in Place
    <3>1. <<Original>> \in Seq(Content) /\ <<>> \in Seq(Content)
      BY EmptySeq DEF Content
    <3>. QED
      BY <3>1 DEF Init, Place
  <2>. QED
    BY <2>1 DEF Init, VolumeTypes
<1>2. ControlTypes
  BY Directories DEF Init, ControlTypes
<1>. QED
  BY <1>1, <1>2 DEF Init, Parts, HelpersOK, ActiveOK

\* A command begins with an archive and a helper.
LEMMA BeginTypes ==
  ASSUME Parts, NEW c \in Command, NEW b \in Archive, Begin(c, b)
  PROVE  Parts'
<1>1. /\ pc[c] = "idle" /\ outcome[c] = "none"
      /\ archive' = [archive EXCEPT ![c] = b] /\ prior' = [prior EXCEPT ![c] = data]
      /\ Launch(c, "prepare", "prepare")
      /\ UNCHANGED <<outcome, data, staging, rollback, failed, minecraft, crashes>>
  BY DEF Begin, Call, volume
<1>2. \A h \in helpers : h.by # c
  BY <1>1, WorldRestoreAssumption DEF Parts, HelpersOK, ActiveOK
<1>3. archive'[c] = b /\ \A h \in helpers : archive'[h.by] = archive[h.by]
  BY <1>1, <1>2 DEF Parts, ControlTypes, HelpersOK, Helper
<1>4. /\ HelpersOK'
      /\ pc' = [pc EXCEPT ![c] = "prepare"] /\ pc' \in [Command -> Steps \cup {"idle"}]
      /\ exit' \in [Command -> {"none", "ok", "failed"}]
  BY <1>1, <1>3, LaunchKeeps DEF Steps, Scripts
<1>5. VolumeTypes' /\ ControlTypes'
  BY <1>1, <1>4 DEF Parts, VolumeTypes, ControlTypes
<1>6. ActiveOK'
  BY <1>1, <1>4 DEF Parts, ControlTypes, ActiveOK
<1>. QED
  BY <1>4, <1>5, <1>6 DEF Parts

\* What a step of a command does to its program counter and its helpers.
Called(c) ==
  \E step \in Steps, script \in Scripts : Launch(c, step, script) /\ UNCHANGED outcome
Went(c) ==
  \E step \in Steps : pc' = [pc EXCEPT ![c] = step] /\ UNCHANGED <<helpers, exit, outcome>>
Reported(c) ==
  \E result \in Outcomes :
    /\ pc' = [pc EXCEPT ![c] = "idle"]
    /\ outcome' = [outcome EXCEPT ![c] = result]
    /\ UNCHANGED <<helpers, exit>>

\* A step of a command starts a helper, goes on or reports, and changes
\* nothing on the volume.
LEMMA CommandShape ==
  ASSUME NEW c \in Command, Parts, CommandStep(c) \/ Die(c)
  PROVE  /\ pc[c] # "idle"
         /\ Called(c) \/ Went(c) \/ Reported(c)
         /\ UNCHANGED <<data, staging, rollback, failed, archive, prior>>
         /\ minecraft' \in {"running", "stopped"}
         /\ crashes' \in Nat
<1>1. ASSUME NEW step \in Steps, Goto(c, step) PROVE Went(c)
  BY <1>1 DEF Goto, Went
<1>2. ASSUME NEW step \in Steps, NEW script \in Scripts, Call(c, step, script) PROVE Called(c)
  BY <1>2 DEF Call, Called
<1>3. ASSUME NEW result \in Outcomes, Report(c, result) PROVE Reported(c)
  BY <1>3 DEF Report, Reported
<1>4. /\ "prepare" \in Steps /\ "cleanup" \in Steps /\ "inspect" \in Steps
      /\ "stop" \in Steps /\ "stop-cleanup" \in Steps /\ "stop-restart" \in Steps
      /\ "cutover" \in Steps /\ "rollback" \in Steps /\ "rollback-start" \in Steps
      /\ "start" \in Steps /\ "doctor" \in Steps /\ "verify-stop" \in Steps
      /\ "verify-rollback" \in Steps /\ "verify-start" \in Steps
      /\ "cleanup" \in Scripts /\ "cutover" \in Scripts /\ "rollback" \in Scripts
      /\ "refused" \in Outcomes /\ "restored" \in Outcomes /\ "rolled-back" \in Outcomes
      /\ "rollback-failed" \in Outcomes /\ "state-unknown" \in Outcomes
      /\ "died" \in Outcomes
  BY DEF Steps, Scripts, Outcomes
<1>5. minecraft \in {"running", "stopped"} /\ crashes \in Nat
  BY DEF Parts, ControlTypes
<1>6. CASE Prepare(c)
  BY <1>1, <1>2, <1>3, <1>4, <1>5, <1>6 DEF Prepare, volume
<1>7. CASE StopMinecraft(c) \/ StopFails(c)
  BY <1>2, <1>4, <1>5, <1>7 DEF StopMinecraft, StopFails, volume
<1>8. CASE AfterStopFailed(c)
  BY <1>1, <1>3, <1>4, <1>5, <1>8 DEF AfterStopFailed, volume
<1>9. CASE Cutover(c)
  BY <1>1, <1>2, <1>4, <1>5, <1>9 DEF Cutover, volume
<1>10. CASE StartMinecraft(c) \/ Doctor(c)
  BY <1>1, <1>3, <1>4, <1>5, <1>10 DEF StartMinecraft, Doctor, volume
<1>11. CASE VerifyStop(c)
  BY <1>2, <1>3, <1>4, <1>5, <1>11 DEF VerifyStop, volume
<1>12. CASE Rollback(c) \/ StartPrior(c)
  BY <1>1, <1>3, <1>4, <1>5, <1>12 DEF Rollback, StartPrior, volume
<1>13. CASE Die(c)
  BY <1>3, <1>4, <1>5, <1>13 DEF Die, volume
<1>. QED
  BY <1>6, <1>7, <1>8, <1>9, <1>10, <1>11, <1>12, <1>13 DEF CommandStep

\* So it keeps the types.
LEMMA CommandTypes ==
  ASSUME Parts, NEW c \in Command, CommandStep(c) \/ Die(c)
  PROVE  Parts'
<1>0. /\ pc[c] # "idle" /\ archive[c] \in Archive
      /\ UNCHANGED <<data, staging, rollback, failed, archive, prior>>
      /\ minecraft' \in {"running", "stopped"} /\ crashes' \in Nat
      /\ Called(c) \/ Went(c) \/ Reported(c)
  BY CommandShape DEF Parts, ActiveOK
<1>1. VolumeTypes'
  BY <1>0 DEF Parts, VolumeTypes
<1>2. CASE Called(c)
  <2>1. PICK step \in Steps, script \in Scripts : Launch(c, step, script) /\ UNCHANGED outcome
    BY <1>2 DEF Called
  <2>2. /\ HelpersOK'
        /\ pc' = [pc EXCEPT ![c] = step] /\ pc' \in [Command -> Steps \cup {"idle"}]
        /\ exit' \in [Command -> {"none", "ok", "failed"}]
    BY <1>0, <2>1, LaunchKeeps
  <2>3. step # "idle"
    BY DEF Steps
  <2>4. ControlTypes' /\ ActiveOK'
    BY <1>0, <2>1, <2>2, <2>3 DEF Parts, ControlTypes, ActiveOK
  <2>. QED
    BY <1>1, <2>2, <2>4 DEF Parts
<1>3. CASE Went(c)
  <2>1. "idle" \notin Steps
    BY DEF Steps
  <2>2. ControlTypes' /\ ActiveOK' /\ HelpersOK'
    BY <1>0, <1>3, <2>1 DEF Went, Parts, ControlTypes, ActiveOK, HelpersOK
  <2>. QED
    BY <1>1, <2>2 DEF Parts
<1>4. CASE Reported(c)
  <2>1. "none" \notin Outcomes
    BY DEF Outcomes
  <2>2. ControlTypes' /\ ActiveOK' /\ HelpersOK'
    BY <1>0, <1>4, <2>1 DEF Reported, Parts, ControlTypes, ActiveOK, HelpersOK
  <2>. QED
    BY <1>1, <2>2 DEF Parts
<1>. QED
  BY <1>0, <1>2, <1>3, <1>4

\* Every step keeps the types.
LEMMA TypeStep == TypeInv /\ [Next]_vars => TypeInv'
<1>. SUFFICES ASSUME Parts, [Next]_vars PROVE Parts'
  BY TypeParts, TypePartsNext
<1>1. ASSUME NEW h \in helpers, ScriptStep(h) PROVE Parts'
  <2>1. VolumeTypes' /\ Advanced(h) /\ HelpersOK'
    BY <1>1, ScriptTypes
  <2>2. UNCHANGED <<minecraft, pc, archive, outcome, crashes, prior>>
    BY <1>1 DEF ScriptStep
  <2>3. ControlTypes' /\ ActiveOK'
    BY <2>1, <2>2 DEF Advanced, Parts, ControlTypes, ActiveOK
  <2>. QED
    BY <2>1, <2>3 DEF Parts
<1>2. ASSUME NEW h \in helpers, ScriptFails(h) PROVE Parts'
  <2>1. /\ Exit(h, "failed")
        /\ UNCHANGED <<data, staging, rollback, failed, minecraft, pc, archive, outcome,
                       crashes, prior>>
    BY <1>2 DEF ScriptFails, volume
  <2>2. Advanced(h) /\ helpers' = helpers \ {h}
    BY <2>1, ExitAdvances
  <2>3. HelpersOK'
    BY <2>1, <2>2 DEF Parts, HelpersOK
  <2>4. VolumeTypes' /\ ControlTypes' /\ ActiveOK'
    BY <2>1, <2>2 DEF Advanced, Parts, VolumeTypes, ControlTypes, ActiveOK
  <2>. QED
    BY <2>3, <2>4 DEF Parts
<1>3. CASE HostRestarts
  <2>1. /\ pc' = [c \in Command |-> "idle"] /\ helpers' = {}
        /\ outcome' = [c \in Command |-> IF pc[c] = "idle" THEN outcome[c] ELSE "died"]
        /\ crashes' = crashes + 1
        /\ UNCHANGED <<data, staging, rollback, failed, minecraft, exit, archive, prior>>
    BY <1>3 DEF HostRestarts, volume
  <2>2. HelpersOK' /\ VolumeTypes' /\ ActiveOK'
    BY <2>1 DEF HelpersOK, VolumeTypes, ActiveOK, Parts
  <2>3. "died" \in Outcomes
    BY DEF Outcomes
  <2>4. ControlTypes'
    BY <2>1, <2>3 DEF Parts, ControlTypes
  <2>. QED
    BY <2>2, <2>4 DEF Parts
<1>4. CASE UNCHANGED vars
  BY <1>4 DEF vars, volume, command, Parts, VolumeTypes, ControlTypes, HelpersOK, ActiveOK
<1>. QED
  BY <1>1, <1>2, <1>3, <1>4, BeginTypes, CommandTypes DEF Next

\* Types and the facts about who works on what, whatever overlaps.
THEOREM RestoreTypeInvariance == Spec => []TypeInv
  BY InitTypes, TypeStep, PTL DEF Spec

\* Every variable of the restore keeps its type (restore.py).
THEOREM RestoreTypeCorrect == Spec => []TypeOK
<1>1. TypeInv => TypeOK
  BY DEF TypeInv
<1>. QED
  BY <1>1, RestoreTypeInvariance, PTL

(***************************************************************************)
(* Nothing is deleted                                                      *)
(***************************************************************************)

\* The first world's root is there, live or nested.
Holds(s) == \E k \in DOMAIN s : s[k] = Original

\* ... or is in one of the rollback or failed directories.
HeldIn(dir, r) == \E a \in Archive : dir[a] # NoDir /\ Holds(dir[a][r])
Held(r) == Holds(data[r]) \/ HeldIn(rollback, r) \/ HeldIn(failed, r)

\* What is nested, and what it is nested in, both stay.
LEMMA NestingHolds ==
  ASSUME NEW s \in Seq(Content), NEW t \in Seq(Content), Holds(s) \/ Holds(t)
  PROVE  Holds(s \o t)
<1>1. CASE Holds(s)
  <2>1. PICK k \in DOMAIN s : s[k] = Original
    BY <1>1 DEF Holds
  <2>2. k \in 1 .. Len(s) /\ Len(s) \in Nat /\ Len(t) \in Nat
    BY <2>1, LenProperties
  <2>3. k \in DOMAIN (s \o t) /\ (s \o t)[k] = s[k]
    BY <2>2, ConcatProperties, LenProperties
  <2>. QED
    BY <2>1, <2>3 DEF Holds
<1>2. CASE Holds(t)
  <2>1. PICK k \in DOMAIN t : t[k] = Original
    BY <1>2 DEF Holds
  <2>2. k \in 1 .. Len(t) /\ Len(s) \in Nat /\ Len(t) \in Nat
    BY <2>1, LenProperties
  <2>3. Len(s) + k \in DOMAIN (s \o t) /\ (s \o t)[Len(s) + k] = t[k]
    BY <2>2, ConcatProperties, LenProperties
  <2>. QED
    BY <2>1, <2>3 DEF Holds
<1>. QED
  BY <1>1, <1>2

\* NothingDeleted in these terms, before and after a step.
LEMMA HeldIsKept ==
  ASSUME Parts
  PROVE  NothingDeleted <=> (\A r \in Present : Held(r))
<1>1. Present \subseteq Root /\ data # NoDir
  BY WorldRestoreAssumption, Directories DEF Parts, VolumeTypes
<1>2. \A s : Holds(s) => s # <<>>
  BY DEF Holds
<1>3. \A r \in Present : Held(r) <=>
        \E place \in {data} \cup {rollback[a] : a \in Archive} \cup {failed[a] : a \in Archive} :
          Exists(place, r) /\ Holds(place[r])
  BY <1>1, <1>2 DEF Held, HeldIn, Exists
<1>. QED
  BY <1>3 DEF NothingDeleted, Holds

LEMMA HeldIsKeptNext ==
  ASSUME Parts'
  PROVE  NothingDeleted' <=> (\A r \in Present : Held(r)')
<1>1. Present \subseteq Root /\ data' # NoDir
  BY WorldRestoreAssumption, Directories DEF Parts, VolumeTypes
<1>2. \A s : Holds(s) => s # <<>>
  BY DEF Holds
<1>3. \A r \in Present : Held(r)' <=>
        \E place \in {data'} \cup {rollback'[a] : a \in Archive} \cup {failed'[a] : a \in Archive} :
          Exists(place, r) /\ Holds(place[r])
  BY <1>1, <1>2 DEF Held, HeldIn, Exists
<1>. QED
  BY <1>3 DEF NothingDeleted, Holds

\* A root that moves into another directory takes what it holds along.
LEMMA MovedIn ==
  ASSUME NEW dir \in [Archive -> Place \cup {NoDir}], NEW a \in Archive, NEW k \in Root,
         dir[a] # NoDir, NEW t \in Seq(Content), NEW r \in Root
  PROVE  LET moved == [dir EXCEPT ![a] = [dir[a] EXCEPT ![k] = dir[a][k] \o t]]
         IN  /\ HeldIn(dir, r) => HeldIn(moved, r)
             /\ r = k /\ Holds(t) => HeldIn(moved, r)
<1>. DEFINE new == [dir[a] EXCEPT ![k] = dir[a][k] \o t]
            moved == [dir EXCEPT ![a] = new]
<1>1. dir[a] \in Place /\ dir[a][k] \in Seq(Content)
  BY DEF Place
<1>2. new \in Place /\ new # NoDir /\ new[k] = dir[a][k] \o t
      /\ \A s \in Root \ {k} : new[s] = dir[a][s]
  <2>1. dir[a][k] \o t \in Seq(Content)
    BY <1>1, Nesting
  <2>2. new \in Place
    BY <1>1, <2>1 DEF Place
  <2>3. new # NoDir
    BY <2>2, Directories
  <2>. QED
    BY <1>1, <2>2, <2>3 DEF Place
<1>. HIDE DEF new
<1>3. moved[a] = new /\ \A b \in Archive \ {a} : moved[b] = dir[b]
  OBVIOUS
<1>4. Holds(dir[a][r]) => Holds(new[r])
  BY <1>1, <1>2, NestingHolds
<1>5. r = k /\ Holds(t) => Holds(new[r])
  BY <1>1, <1>2, NestingHolds
<1>. HIDE DEF moved
<1>6. HeldIn(dir, r) => HeldIn(moved, r)
  BY <1>2, <1>3, <1>4 DEF HeldIn
<1>7. r = k /\ Holds(t) => HeldIn(moved, r)
  BY <1>2, <1>3, <1>5 DEF HeldIn
<1>. QED
  BY <1>6, <1>7 DEF moved, new

\* No line of a script loses a root of the first world.
LEMMA ScriptKeeps ==
  ASSUME Parts, NEW h \in helpers, ScriptStep(h), NEW r \in Root, Held(r)
  PROVE  Held(r)'
<1>. DEFINE a == archive[h.by]
            k == h.root
<1>0. /\ k \in Root /\ a \in Archive /\ VolumeTypes /\ EmptyDir # NoDir
      /\ h.stage \in ScriptStages(h.script) /\ h.script \in Scripts
      /\ h.script = "rollback" /\ h.stage # "mkdir" => failed[a] \in Place /\ failed[a] # NoDir
      /\ data[k] \in Seq(Content) /\ Ready(h)
      /\ data \in Place /\ rollback \in [Archive -> Place \cup {NoDir}]
      /\ failed \in [Archive -> Place \cup {NoDir}]
  BY HelperFacts, Directories DEF ScriptStep, Parts, VolumeTypes
<1>. HIDE DEF a, k
<1>1. CASE UNCHANGED <<data, rollback, failed>>
  BY <1>1 DEF Held
<1>2. CASE Mkdir(h)
  <2>1. h.script = "cutover" => rollback[a] = NoDir
    BY <1>0, <1>2 DEF Mkdir, Ready, a
  <2>2. h.script = "rollback" => failed[a] = NoDir
    BY <1>0, <1>2 DEF Mkdir, Ready, a
  <2>3. CASE UNCHANGED rollback
    <3>1. \A b \in Archive : failed[b] # NoDir => failed'[b] = failed[b]
      BY <1>0, <1>2, <2>2 DEF Mkdir, a
    <3>2. HeldIn(failed, r) => HeldIn(failed', r)
      BY <3>1 DEF HeldIn
    <3>. QED
      BY <1>2, <2>3, <3>2 DEF Held, Mkdir
  <2>4. CASE h.script = "cutover" /\ UNCHANGED failed
    <3>1. \A b \in Archive : rollback[b] # NoDir => rollback'[b] = rollback[b]
      BY <1>0, <1>2, <2>1, <2>4 DEF Mkdir, a
    <3>2. HeldIn(rollback, r) => HeldIn(rollback', r)
      BY <3>1 DEF HeldIn
    <3>. QED
      BY <1>2, <2>4, <3>2 DEF Held, Mkdir
  <2>. QED
    BY <1>2, <2>3, <2>4 DEF Mkdir
<1>3. CASE MoveOut(h)
  <2>1. CASE data[k] = <<>>
    BY <1>1, <1>3, <2>1 DEF MoveOut, k
  <2>2. CASE data[k] # <<>>
    <3>1. rollback[a] # NoDir
      BY <1>0, <1>3, <2>2 DEF MoveOut, Ready, a, k
    <3>2. /\ rollback' = [rollback EXCEPT ![a] = [rollback[a] EXCEPT ![k] = rollback[a][k] \o data[k]]]
          /\ data' = [data EXCEPT ![k] = <<>>] /\ UNCHANGED failed
      BY <1>3, <2>2 DEF MoveOut, a, k
    <3>3. /\ HeldIn(rollback, r) => HeldIn(rollback', r)
          /\ r = k /\ Holds(data[k]) => HeldIn(rollback', r)
      BY <1>0, <3>1, <3>2, MovedIn
    <3>4. r # k => data'[r] = data[r]
      BY <1>0, <3>2 DEF Place
    <3>. QED
      BY <3>2, <3>3, <3>4 DEF Held
  <2>. QED
    BY <2>1, <2>2
<1>4. CASE MoveIn(h)
  <2>1. staging[a] # NoDir /\ staging[a][k] \in Seq(Content)
    BY <1>0, <1>4, HelperFacts DEF MoveIn, Ready, Exists, a, k
  <2>2. data' = [data EXCEPT ![k] = data[k] \o staging[a][k]] /\ UNCHANGED <<rollback, failed>>
    BY <1>4 DEF MoveIn, a, k
  <2>3. Holds(data[r]) => Holds(data'[r])
    BY <1>0, <2>1, <2>2, NestingHolds DEF Place
  <2>. QED
    BY <2>2, <2>3 DEF Held
<1>5. CASE MoveAside(h)
  <2>1. failed[a] # NoDir
    BY <1>0, <1>5 DEF MoveAside, ScriptStages, Scripts
  <2>2. /\ failed' = [failed EXCEPT ![a] = [failed[a] EXCEPT ![k] = failed[a][k] \o data[k]]]
        /\ data' = [data EXCEPT ![k] = <<>>] /\ UNCHANGED rollback
    BY <1>5 DEF MoveAside, a, k
  <2>3. /\ HeldIn(failed, r) => HeldIn(failed', r)
        /\ r = k /\ Holds(data[k]) => HeldIn(failed', r)
    BY <1>0, <2>1, <2>2, MovedIn
  <2>4. r # k => data'[r] = data[r]
    BY <1>0, <2>2 DEF Place
  <2>. QED
    BY <2>2, <2>3, <2>4 DEF Held
<1>6. CASE MoveBack(h)
  <2>1. CASE ~Exists(rollback[a], k)
    BY <1>1, <1>6, <2>1 DEF MoveBack, a, k
  <2>2. CASE Exists(rollback[a], k)
    <3>1. rollback[a] # NoDir /\ rollback[a] \in Place /\ rollback[a][k] \in Seq(Content)
      BY <1>0, <2>2 DEF Exists, Place
    <3>2. /\ data' = [data EXCEPT ![k] = data[k] \o rollback[a][k]]
          /\ rollback' = [rollback EXCEPT ![a] = [rollback[a] EXCEPT ![k] = <<>>]]
          /\ UNCHANGED failed
      BY <1>6, <2>2 DEF MoveBack, a, k
    <3>3. /\ Holds(data[r]) => Holds(data'[r])
          /\ r = k /\ Holds(rollback[a][k]) => Holds(data'[r])
      BY <1>0, <3>1, <3>2, NestingHolds DEF Place
    <3>4. \A b \in Archive : rollback[b] # NoDir /\ (b # a \/ r # k) =>
            rollback'[b] # NoDir /\ rollback'[b][r] = rollback[b][r]
      <4>1. [rollback[a] EXCEPT ![k] = <<>>] \in Place
        BY <1>0, <3>1, Directories, EmptySeq
      <4>2. r # k => [rollback[a] EXCEPT ![k] = <<>>][r] = rollback[a][r]
        BY <3>1 DEF Place
      <4>. QED
        BY <1>0, <3>2, <4>1, <4>2, Directories
    <3>5. HeldIn(rollback, r) => HeldIn(rollback', r) \/ (r = k /\ Holds(rollback[a][k]))
      BY <3>4 DEF HeldIn
    <3>. QED
      BY <3>2, <3>3, <3>5 DEF Held
  <2>. QED
    BY <2>1, <2>2
<1>7. CASE Rmdir(h)
  <2>1. CASE h.script = "cutover"
    BY <1>1, <1>7, <2>1 DEF Rmdir
  <2>2. CASE h.script # "cutover"
    <3>1. rollback[a] = EmptyDir
      BY <1>0, <1>7, <2>2 DEF Rmdir, Ready, a
    <3>2. ~Holds(rollback[a][r])
      BY <3>1 DEF EmptyDir, Holds
    <3>3. \A b \in Archive \ {a} : rollback'[b] = rollback[b]
      BY <1>0, <1>7, <2>2 DEF Rmdir, a
    <3>4. HeldIn(rollback, r) => HeldIn(rollback', r)
      BY <3>2, <3>3 DEF HeldIn
    <3>. QED
      BY <1>7, <3>4 DEF Rmdir, Held
  <2>. QED
    BY <2>1, <2>2
<1>8. CASE Unzip(h) \/ Check(h) \/ Chown(h) \/ Remove(h)
  BY <1>1, <1>8 DEF Unzip, Check, Chown, Remove, volume
<1>. QED
  BY <1>2, <1>3, <1>4, <1>5, <1>6, <1>7, <1>8 DEF ScriptStep

\* At first the first world is live.
LEMMA InitKeeps == Init => NothingDeleted
<1>. SUFFICES ASSUME Init PROVE NothingDeleted
  OBVIOUS
<1>1. Parts
  BY InitTypes, TypeParts
<1>2. \A r \in Present : Holds(data[r])
  BY WorldRestoreAssumption DEF Init, Holds
<1>. QED
  BY <1>1, <1>2, HeldIsKept DEF Held

\* Every step keeps the roots of the first world.
LEMMA KeepStep == TypeInv /\ NothingDeleted /\ [Next]_vars => NothingDeleted'
<1>. SUFFICES ASSUME Parts, NothingDeleted, [Next]_vars PROVE NothingDeleted'
  BY TypeParts
<1>0. Parts'
  BY TypeParts, TypePartsNext, TypeStep
<1>1. \A r \in Present : Held(r)
  BY HeldIsKept
<1>. SUFFICES ASSUME NEW r \in Present, r \in Root, Held(r) PROVE Held(r)'
  BY <1>0, <1>1, HeldIsKeptNext, WorldRestoreAssumption
<1>2. CASE UNCHANGED <<data, rollback, failed>>
  BY <1>2 DEF Held
<1>3. ASSUME NEW h \in helpers, ScriptStep(h) PROVE Held(r)'
  BY <1>3, ScriptKeeps
<1>4. ASSUME NEW h \in helpers, ScriptFails(h) PROVE Held(r)'
  BY <1>2, <1>4 DEF ScriptFails, volume
<1>5. ASSUME NEW c \in Command, CommandStep(c) \/ Die(c) PROVE Held(r)'
  BY <1>2, <1>5, CommandShape
<1>6. ASSUME NEW c \in Command, NEW b \in Archive, Begin(c, b) PROVE Held(r)'
  BY <1>2, <1>6 DEF Begin, volume
<1>7. CASE HostRestarts
  BY <1>2, <1>7 DEF HostRestarts, volume
<1>8. CASE UNCHANGED vars
  BY <1>2, <1>8 DEF vars, volume
<1>. QED
  BY <1>3, <1>4, <1>5, <1>6, <1>7, <1>8 DEF Next

\* Whatever fails, dies, times out or overlaps, no root of the first world is
\* deleted: every script of restore.py moves directories and removes only
\* staging directories and empty ones.
THEOREM RestoreDeletesNothing == Spec => []NothingDeleted
  BY InitKeeps, KeepStep, RestoreTypeInvariance, PTL DEF Spec

(***************************************************************************)
(* One command at a time: who is at work                                   *)
(***************************************************************************)

\* A command takes a step when no helper is at work, and no other command is.
LEMMA CommandIsAlone ==
  ASSUME OneAtATime, Parts, AloneInv, NEW c \in Command, CommandStep(c)
  PROVE  helpers = {} /\ pc[c] # "idle" /\ \A d \in Command \ {c} : pc[d] = "idle"
<1>1. pc[c] # "idle" /\ \A d \in Command \ {c} : pc[d] = "idle"
  BY CommandShape DEF AloneInv
<1>2. \A h \in helpers : Waits(c, h.script) /\ exit[c] = "none" /\ h.script \in Scripts
  BY <1>1 DEF AloneInv, Parts, HelpersOK, Helper
<1>3. CASE exit[c] = "ok" \/ exit[c] = "failed"
  BY <1>1, <1>2, <1>3
<1>4. CASE pc[c] \in {"inspect", "stop", "stop-restart", "start", "doctor", "verify-stop",
                      "rollback-start", "verify-start"}
  BY <1>1, <1>2, <1>4 DEF Waits, Scripts
<1>5. (exit[c] = "ok" \/ exit[c] = "failed")
      \/ pc[c] \in {"inspect", "stop", "stop-restart", "start", "doctor", "verify-stop",
                    "rollback-start", "verify-start"}
  BY DEF CommandStep, Prepare, StopMinecraft, StopFails, AfterStopFailed, Cutover,
         StartMinecraft, Doctor, VerifyStop, Rollback, StartPrior, OneAtATime, Returned, Lost
<1>. QED
  BY <1>1, <1>3, <1>4, <1>5

\* What a helper works on when it is the only one.
LEMMA AloneFacts ==
  ASSUME Parts, AloneInv, NEW h \in helpers
  PROVE  /\ h \in Helper /\ h.by \in Command /\ archive[h.by] \in Archive /\ h.root \in Root
         /\ h.script \in Scripts /\ h.stage \in ScriptStages(h.script)
         /\ helpers = {h}
         /\ data \in Place /\ prior[h.by] \in Place
         /\ \A c \in Command : pc[c] # "idle" => c = h.by /\ Waits(c, h.script) /\ exit[c] = "none"
  BY DEF Parts, HelpersOK, Helper, AloneInv, VolumeTypes, ControlTypes

\* The helper at its next line, and it is still the only one.
AtLine(h, stage, root) ==
  /\ UNCHANGED exit
  /\ \E g \in Helper :
       /\ helpers' = {g}
       /\ g.by = h.by /\ g.script = h.script /\ g.stage = stage /\ g.root = root

\* A helper at its next line is still the only one,
LEMMA ProceedsAlone ==
  ASSUME Parts, AloneInv, NEW h \in helpers, NEW stage \in Stages, NEW root \in Root,
         Proceed(h, stage, root), UNCHANGED pc
  PROVE  AtLine(h, stage, root) /\ AloneInv'
<1>. DEFINE g == [h EXCEPT !.stage = stage, !.root = root]
<1>1. h \in Helper /\ helpers = {h}
      /\ \A c \in Command : pc[c] # "idle" => c = h.by /\ Waits(c, h.script) /\ exit[c] = "none"
  BY AloneFacts
<1>2. g \in Helper /\ g.by = h.by /\ g.script = h.script /\ g.stage = stage /\ g.root = root
  BY <1>1 DEF Helper
<1>. HIDE DEF g
<1>3. helpers' = {g} /\ UNCHANGED exit
  BY <1>1 DEF Proceed, g
<1>4. AtLine(h, stage, root)
  BY <1>2, <1>3 DEF AtLine
<1>5. AloneInv'
  BY <1>1, <1>2, <1>3 DEF AloneInv, Waits
<1>. QED
  BY <1>4, <1>5

\* also after a round of a loop,
LEMMA LoopsAlone ==
  ASSUME Parts, AloneInv, NEW h \in helpers, NEW stage \in Stages, NEW after \in Stages,
         Loop(h, stage, after), UNCHANGED pc
  PROVE  /\ AloneInv' /\ UNCHANGED exit
         /\ \/ h.root < Roots /\ h.root + 1 \in Root /\ AtLine(h, stage, h.root + 1)
            \/ h.root = Roots /\ AtLine(h, after, 1)
<1>1. h.root \in Root
  BY AloneFacts
<1>2. CASE h.root < Roots
  BY <1>1, <1>2, Rounds, ProceedsAlone DEF Loop, AtLine
<1>3. CASE ~(h.root < Roots)
  <2>1. h.root = Roots
    BY <1>1, <1>3, WorldRestoreAssumption DEF Root
  <2>. QED
    BY <1>1, <1>3, <2>1, Rounds, ProceedsAlone DEF Loop, AtLine
<1>. QED
  BY <1>2, <1>3

\* and when it ends there is none.
LEMMA ExitsAlone ==
  ASSUME Parts, AloneInv, NEW h \in helpers, NEW status \in {"ok", "failed"}, Exit(h, status),
         UNCHANGED pc
  PROVE  /\ helpers' = {} /\ AloneInv'
         /\ \A c \in Command : pc[c] # "idle" => exit'[c] = status
<1>1. helpers = {h}
      /\ \A c \in Command : pc[c] # "idle" => c = h.by /\ Waits(c, h.script)
  BY AloneFacts
<1>2. helpers' = {}
  BY <1>1 DEF Exit
<1>3. AloneInv'
  BY <1>2 DEF AloneInv
<1>4. \A c \in Command : pc[c] # "idle" => exit'[c] = status
  BY <1>1 DEF Exit, Parts, ControlTypes
<1>. QED
  BY <1>2, <1>3, <1>4

\* A command knows nothing new while its helper goes on.
LEMMA WaitingKnows ==
  ASSUME Parts, AloneInv, CommandInv, NEW h \in helpers,
         UNCHANGED <<pc, exit, archive, prior, minecraft>>,
         h.script \in {"prepare", "cleanup"} => UNCHANGED data
  PROVE  CommandInv'
<1>1. /\ h.script \in Scripts
      /\ \A c \in Command : pc[c] # "idle" => Waits(c, h.script) /\ exit[c] = "none"
  BY AloneFacts
<1>2. \A c \in Command : pc[c] # "idle" =>
        /\ pc[c] \in {"prepare", "cleanup", "stop-cleanup"} => UNCHANGED data
        /\ pc[c] \in {"prepare", "cleanup", "stop-cleanup", "cutover", "rollback", "verify-rollback"}
  BY <1>1 DEF Waits, Scripts
<1>. QED
  BY <1>1, <1>2 DEF CommandInv, Knows, Untouched, Stopped, Unmixed

\* What a command knows when its helper ends.
LEMMA ReturnKnows ==
  ASSUME Parts, AloneInv, CommandInv, NEW h \in helpers, NEW status \in {"ok", "failed"},
         Exit(h, status), UNCHANGED <<pc, archive, prior, minecraft>>,
         h.script \in {"prepare", "cleanup"} => UNCHANGED data,
         h.script = "prepare" /\ status = "ok" => rollback'[archive[h.by]] = NoDir,
         h.script = "cutover" /\ status = "ok" => Restored(h.by)',
         h.script = "cutover" /\ status = "failed" => PartOfPrior(h.by)',
         h.script = "rollback" /\ status = "ok" =>
           \A r \in Root : data'[r] \in {<<>>, prior[h.by][r]},
         h.script = "rollback" /\ status = "ok" /\ pc[h.by] = "verify-rollback" =>
           data' = prior[h.by]
  PROVE  CommandInv'
<1>1. /\ h.script \in Scripts
      /\ \A c \in Command : pc[c] # "idle" => c = h.by /\ Waits(c, h.script) /\ exit'[c] = status
  BY AloneFacts, ExitsAlone
<1>2. \A c \in Command : pc[c] # "idle" =>
        /\ c = h.by
        /\ pc[c] \in {"prepare", "cleanup", "stop-cleanup"} => UNCHANGED data
        /\ pc[c] \in {"prepare", "cleanup", "stop-cleanup", "cutover", "rollback", "verify-rollback"}
        /\ pc[c] = "prepare" => h.script = "prepare"
        /\ pc[c] = "cutover" => h.script = "cutover"
        /\ pc[c] \in {"rollback", "verify-rollback"} => h.script = "rollback"
  BY <1>1 DEF Waits, Scripts
<1>3. ASSUME NEW c \in Command, pc[c] # "idle" PROVE Knows(c)'
  BY <1>1, <1>2, <1>3 DEF CommandInv, Knows, Untouched, Stopped
<1>4. ASSUME NEW c \in Command, pc[c] = "idle" PROVE Knows(c)'
  BY <1>4 DEF Knows, Untouched, Stopped
<1>. QED
  BY <1>3, <1>4 DEF CommandInv, Unmixed

(***************************************************************************)
(* One command at a time: the lines of the scripts                         *)
(***************************************************************************)
LineInv == AloneInv /\ StagingInv /\ HelperInv /\ CommandInv

\* The line that makes a directory.
LEMMA MkdirKeepsLine ==
  ASSUME Parts, LineInv, NEW h \in helpers, ScriptStep(h), Mkdir(h)
  PROVE  LineInv'
<1>. DEFINE a == archive[h.by]
            p == prior[h.by]
<1>0. /\ h \in Helper /\ h.by \in Command /\ a \in Archive /\ h.script \in Scripts
      /\ helpers = {h} /\ h.stage = "mkdir" /\ p \in Place
      /\ UNCHANGED <<pc, archive, outcome, prior, minecraft, data>>
      /\ 1 \in Root /\ Ready(h) /\ VolumeTypes
      /\ \A r \in Root : EmptyDir[r] = <<>>
      /\ EmptyDir # NoDir
  BY AloneFacts, Rounds, Directories DEF ScriptStep, Mkdir, LineInv, EmptyDir, Parts
<1>1. CASE h.script = "prepare"
  <2>1. AtLine(h, "unzip", 1) /\ AloneInv' /\ UNCHANGED exit
    BY <1>0, <1>1, ProceedsAlone DEF Mkdir, LineInv, Stages, AtLine
  <2>2. staging' = [staging EXCEPT ![a] = EmptyDir] /\ UNCHANGED <<rollback, failed>>
    BY <1>0, <1>1 DEF Mkdir
  <2>3. StagingInv'
    BY <1>0, <2>2 DEF StagingInv, LineInv, VolumeTypes
  <2>4. rollback[a] = NoDir
    BY <1>0, <1>1 DEF Ready
  <2>5. HelperInv'
    BY <1>0, <1>1, <2>1, <2>2, <2>4 DEF HelperInv, AtLine
  <2>6. CommandInv'
    BY <1>0, <2>1, WaitingKnows DEF LineInv
  <2>. QED
    BY <2>1, <2>3, <2>5, <2>6 DEF LineInv
<1>2. CASE h.script = "cutover"
  <2>1. AtLine(h, "check", 1) /\ AloneInv' /\ UNCHANGED exit
    BY <1>0, <1>2, ProceedsAlone DEF Mkdir, LineInv, Stages, AtLine
  <2>2. rollback' = [rollback EXCEPT ![a] = EmptyDir] /\ UNCHANGED <<staging, failed>>
    BY <1>0, <1>2 DEF Mkdir
  <2>3. StagingInv'
    BY <2>2 DEF StagingInv, LineInv
  <2>4. data = p /\ minecraft = "stopped"
    BY <1>0, <1>2 DEF LineInv, HelperInv, CutoverAt
  <2>5. HelperInv'
    BY <1>0, <1>2, <2>1, <2>2, <2>4 DEF HelperInv, AtLine, CutoverAt, VolumeTypes
  <2>6. CommandInv'
    BY <1>0, <2>1, WaitingKnows DEF LineInv
  <2>. QED
    BY <2>1, <2>3, <2>5, <2>6 DEF LineInv
<1>3. CASE h.script = "rollback"
  <2>1. AtLine(h, "aside", 1) /\ AloneInv' /\ UNCHANGED exit
    BY <1>0, <1>3, ProceedsAlone DEF Mkdir, LineInv, Stages, AtLine
  <2>2. failed' = [failed EXCEPT ![a] = EmptyDir] /\ UNCHANGED <<staging, rollback>>
    BY <1>0, <1>3 DEF Mkdir
  <2>3. StagingInv'
    BY <2>2 DEF StagingInv, LineInv
  <2>4. rollback[a] # NoDir /\ PartOfPrior(h.by) /\ minecraft = "stopped"
        /\ (pc[h.by] = "verify-rollback" => rollback[a] = p)
    BY <1>0, <1>3 DEF LineInv, HelperInv, RollbackAt, FullRollbackAt, Ready
  <2>5. \A r \in Root : ~(r < 1)
    BY DEF Root
  <2>6. \A g \in helpers' : RollbackAt(g)' /\ (pc'[g.by] = "verify-rollback" => FullRollbackAt(g)')
    BY <1>0, <2>1, <2>2, <2>4, <2>5
       DEF AtLine, RollbackAt, FullRollbackAt, PartOfPrior, VolumeTypes
  <2>7. HelperInv'
    BY <1>0, <1>3, <2>1, <2>4, <2>6 DEF HelperInv, AtLine
  <2>8. CommandInv'
    BY <1>0, <1>3, <2>1, WaitingKnows DEF LineInv
  <2>. QED
    BY <2>1, <2>3, <2>7, <2>8 DEF LineInv
<1>. QED
  BY <1>1, <1>2, <1>3 DEF Mkdir

\* The line that unpacks the archive, or fails with a part of it.
LEMMA UnzipKeepsLine ==
  ASSUME Parts, LineInv, NEW h \in helpers, ScriptStep(h), Unzip(h)
  PROVE  LineInv'
<1>. DEFINE a == archive[h.by]
            dir == IF staging[a] = NoDir THEN EmptyDir ELSE staging[a]
<1>0. /\ h \in Helper /\ h.by \in Command /\ a \in Archive /\ h.root \in Root
      /\ helpers = {h} /\ h.script = "prepare" /\ h.stage = "unzip"
      /\ UNCHANGED <<pc, archive, outcome, prior, minecraft, data, rollback, failed>>
      /\ VolumeTypes
  BY AloneFacts DEF ScriptStep, Unzip, LineInv, ScriptStages, Scripts, Parts
<1>1. rollback[a] = NoDir
  BY <1>0 DEF LineInv, HelperInv
<1>2. StagingInv'
  <2>1. staging' = [staging EXCEPT ![a] = [dir EXCEPT ![h.root] = <<a>>]]
    BY DEF Unzip
  <2>2. dir \in Place /\ \A r \in Root : dir[r] \in {<<>>, <<a>>}
    BY <1>0, Directories DEF VolumeTypes, LineInv, StagingInv, EmptyDir
  <2>. HIDE DEF dir
  <2>3. \A r \in Root : [dir EXCEPT ![h.root] = <<a>>][r] \in {<<>>, <<a>>}
    BY <2>2 DEF Place
  <2>. QED
    BY <1>0, <2>1, <2>3 DEF VolumeTypes, LineInv, StagingInv
<1>3. CASE h.root < Roots
  <2>1. AtLine(h, "unzip", h.root + 1) /\ AloneInv' /\ UNCHANGED exit
    BY <1>0, <1>3, Rounds, ProceedsAlone DEF Unzip, LineInv, Stages, AtLine
  <2>2. HelperInv'
    BY <1>0, <1>1, <2>1 DEF HelperInv, AtLine
  <2>3. CommandInv'
    BY <1>0, <2>1, WaitingKnows DEF LineInv
  <2>. QED
    BY <1>2, <2>1, <2>2, <2>3 DEF LineInv
<1>4. CASE ~(h.root < Roots)
  <2>1. Exit(h, "ok")
    BY <1>4 DEF Unzip
  <2>2. helpers' = {} /\ AloneInv'
    BY <1>0, <2>1, ExitsAlone DEF LineInv
  <2>3. CommandInv'
    BY <1>0, <1>1, <2>1, ReturnKnows DEF LineInv
  <2>. QED
    BY <1>2, <2>2, <2>3 DEF LineInv, HelperInv
<1>. QED
  BY <1>3, <1>4

\* The test that every root is staged and none is in the way.
LEMMA CheckKeepsLine ==
  ASSUME Parts, LineInv, NEW h \in helpers, ScriptStep(h), Check(h)
  PROVE  LineInv'
<1>0. /\ h \in Helper /\ h.by \in Command /\ archive[h.by] \in Archive
      /\ helpers = {h} /\ h.script = "cutover" /\ h.stage = "check" /\ 1 \in Root
      /\ UNCHANGED <<pc, archive, outcome, prior, minecraft, data, staging, rollback, failed>>
      /\ prior[h.by] \in Place /\ EmptyDir # NoDir
  BY AloneFacts, Rounds, Directories DEF ScriptStep, Check, LineInv, ScriptStages, Scripts, volume
<1>1. AtLine(h, "out", 1) /\ AloneInv' /\ UNCHANGED exit
  BY <1>0, ProceedsAlone DEF Check, LineInv, Stages, AtLine
<1>2. data = prior[h.by] /\ rollback[archive[h.by]] = EmptyDir /\ minecraft = "stopped"
  BY <1>0 DEF LineInv, HelperInv, CutoverAt
<1>3. \A r \in Root : ~(r < 1) /\ EmptyDir[r] = <<>>
  BY DEF Root, EmptyDir
<1>4. HelperInv'
  BY <1>0, <1>1, <1>2, <1>3 DEF HelperInv, AtLine, CutoverAt
<1>5. CommandInv'
  BY <1>0, <1>1, WaitingKnows DEF LineInv
<1>. QED
  BY <1>0, <1>1, <1>4, <1>5 DEF LineInv, StagingInv

\* A round of the loop that moves the live roots out.
LEMMA MoveOutKeepsLine ==
  ASSUME Parts, LineInv, NEW h \in helpers, ScriptStep(h), MoveOut(h)
  PROVE  LineInv'
<1>. DEFINE a == archive[h.by]
            p == prior[h.by]
            k == h.root
<1>0. /\ h \in Helper /\ h.by \in Command /\ a \in Archive /\ k \in Root
      /\ helpers = {h} /\ h.script = "cutover" /\ h.stage = "out" /\ 1 \in Root
      /\ UNCHANGED <<pc, archive, outcome, prior, minecraft, staging, failed>>
      /\ p \in Place /\ data \in Place /\ rollback \in [Archive -> Place \cup {NoDir}]
  BY AloneFacts, Rounds
     DEF ScriptStep, MoveOut, LineInv, ScriptStages, Scripts, Parts, VolumeTypes
<1>1. /\ AloneInv' /\ UNCHANGED exit
      /\ \/ k < Roots /\ AtLine(h, "out", k + 1)
         \/ k = Roots /\ AtLine(h, "in", 1)
  BY <1>0, LoopsAlone DEF MoveOut, LineInv, Stages
<1>2. /\ minecraft = "stopped" /\ rollback[a] # NoDir /\ rollback[a] \in Place
      /\ \A r \in Root : /\ data[r] = IF r < k THEN <<>> ELSE p[r]
                         /\ rollback[a][r] = IF r < k THEN p[r] ELSE <<>>
  BY <1>0 DEF LineInv, HelperInv, CutoverAt
<1>3. /\ rollback'[a] \in Place
      /\ \A r \in Root : /\ data'[r] = IF r < k + 1 THEN <<>> ELSE p[r]
                         /\ rollback'[a][r] = IF r < k + 1 THEN p[r] ELSE <<>>
  <2>1. data[k] = p[k] /\ rollback[a][k] = <<>> /\ p[k] \in Seq(Content)
        /\ \A r \in Root : r < k + 1 <=> r < k \/ r = k
    BY <1>0, <1>2 DEF Root, Place
  <2>2. CASE data[k] = <<>>
    BY <1>0, <1>2, <2>1, <2>2 DEF MoveOut
  <2>3. CASE data[k] # <<>>
    <3>1. rollback[a][k] \o data[k] = p[k]
      BY <2>1, Nesting
    <3>2. rollback' = [rollback EXCEPT ![a] = [rollback[a] EXCEPT ![k] = p[k]]]
          /\ data' = [data EXCEPT ![k] = <<>>]
      BY <1>0, <2>3, <3>1 DEF MoveOut
    <3>3. rollback'[a] = [rollback[a] EXCEPT ![k] = p[k]]
      BY <1>0, <3>2
    <3>4. /\ rollback'[a] \in Place
          /\ rollback'[a][k] = p[k] /\ \A r \in Root \ {k} : rollback'[a][r] = rollback[a][r]
          /\ data'[k] = <<>> /\ \A r \in Root \ {k} : data'[r] = data[r]
      BY <1>0, <1>2, <2>1, <3>2, <3>3 DEF Place
    <3>. QED
      BY <1>2, <2>1, <3>4
  <2>. QED
    BY <2>2, <2>3
<1>4. \A r \in Root : ~(r < 1) /\ (k = Roots => r < k + 1)
  BY <1>0, WorldRestoreAssumption DEF Root
<1>5. CASE k < Roots /\ AtLine(h, "out", k + 1)
  <2>1. \A g \in helpers' : CutoverAt(g)'
    BY <1>0, <1>3, <1>5, Directories DEF CutoverAt, AtLine
  <2>. QED
    BY <1>0, <1>1, <1>2, <1>5, <2>1, WaitingKnows DEF HelperInv, AtLine, LineInv, StagingInv
<1>6. CASE k = Roots /\ AtLine(h, "in", 1)
  <2>1. rollback'[a] = p
    BY <1>0, <1>3, <1>4, <1>6 DEF Place
  <2>2. \A g \in helpers' : CutoverAt(g)'
    BY <1>0, <1>3, <1>4, <1>6, <2>1 DEF CutoverAt, AtLine
  <2>. QED
    BY <1>0, <1>1, <1>2, <1>6, <2>2, WaitingKnows DEF HelperInv, AtLine, LineInv, StagingInv
<1>. QED
  BY <1>1, <1>5, <1>6

\* A round of the loop that moves the staged roots in.
LEMMA MoveInKeepsLine ==
  ASSUME Parts, LineInv, NEW h \in helpers, ScriptStep(h), MoveIn(h)
  PROVE  LineInv'
<1>. DEFINE a == archive[h.by]
            p == prior[h.by]
            k == h.root
<1>0. /\ h \in Helper /\ h.by \in Command /\ a \in Archive /\ k \in Root
      /\ helpers = {h} /\ h.script = "cutover" /\ h.stage = "in"
      /\ UNCHANGED <<pc, archive, outcome, prior, minecraft, rollback, failed>>
      /\ p \in Place /\ data \in Place /\ staging \in [Archive -> Place \cup {NoDir}]
  BY AloneFacts
     DEF ScriptStep, MoveIn, LineInv, ScriptStages, Scripts, Parts, VolumeTypes
<1>1. AtLine(h, "chown", k) /\ AloneInv' /\ UNCHANGED exit
  BY <1>0, ProceedsAlone DEF MoveIn, LineInv, Stages, AtLine
<1>2. /\ minecraft = "stopped" /\ rollback[a] = p
      /\ \A r \in Root : data[r] = IF r < k THEN <<a>> ELSE <<>>
  BY <1>0 DEF LineInv, HelperInv, CutoverAt
<1>3. staging[a] \in Place /\ staging[a] # NoDir /\ staging[a][k] = <<a>>
  BY <1>0 DEF ScriptStep, Ready, Exists, LineInv, StagingInv
<1>4. data[k] \o staging[a][k] = <<a>> /\ <<a>> \in Seq(Content)
  <2>1. data[k] = <<>> /\ <<>> \in Seq(Content)
    BY <1>0, <1>2, EmptySeq DEF Root
  <2>2. <<a>> \in Seq(Content)
    BY <1>0 DEF Content
  <2>3. <<>> \o <<a>> = <<a>>
    BY <2>1, <2>2, Nesting
  <2>. QED
    BY <1>3, <2>1, <2>2, <2>3
<1>5. data' = [data EXCEPT ![k] = <<a>>]
      /\ staging' = [staging EXCEPT ![a] = [staging[a] EXCEPT ![k] = <<>>]]
  BY <1>0, <1>4 DEF MoveIn
<1>6. \A r \in Root : data'[r] = IF r < k \/ r = k THEN <<a>> ELSE <<>>
  BY <1>0, <1>2, <1>5 DEF Place
<1>7. StagingInv'
  <2>1. [staging[a] EXCEPT ![k] = <<>>] \in Place
    BY <1>0, <1>3, Directories, EmptySeq
  <2>2. \A r \in Root : [staging[a] EXCEPT ![k] = <<>>][r] \in {<<>>, <<a>>}
    BY <1>0, <1>3 DEF Place, LineInv, StagingInv
  <2>. QED
    BY <1>0, <1>5, <2>1, <2>2 DEF LineInv, StagingInv
<1>8. \A g \in helpers' : CutoverAt(g)'
  BY <1>0, <1>1, <1>2, <1>6 DEF CutoverAt, AtLine
<1>. QED
  BY <1>0, <1>1, <1>2, <1>7, <1>8, WaitingKnows DEF HelperInv, AtLine, LineInv

\* The change of owner, after which the restored world is complete.
LEMMA ChownKeepsLine ==
  ASSUME Parts, LineInv, NEW h \in helpers, ScriptStep(h), Chown(h)
  PROVE  LineInv'
<1>. DEFINE a == archive[h.by]
            k == h.root
<1>0. /\ h \in Helper /\ h.by \in Command /\ a \in Archive /\ k \in Root
      /\ helpers = {h} /\ h.script = "cutover" /\ h.stage = "chown" /\ data \in Place
      /\ UNCHANGED <<pc, archive, outcome, prior, minecraft, data, staging, rollback, failed>>
  BY AloneFacts DEF ScriptStep, Chown, LineInv, ScriptStages, Scripts, volume
<1>1. /\ AloneInv' /\ UNCHANGED exit
      /\ \/ k < Roots /\ AtLine(h, "in", k + 1)
         \/ k = Roots /\ AtLine(h, "rmdir", 1)
  BY <1>0, LoopsAlone DEF Chown, LineInv, Stages
<1>2. /\ minecraft = "stopped" /\ rollback[a] = prior[h.by]
      /\ \A r \in Root : data[r] = IF r < k \/ r = k THEN <<a>> ELSE <<>>
  BY <1>0 DEF LineInv, HelperInv, CutoverAt
<1>3. \A r \in Root :
        /\ r < k + 1 <=> r < k \/ r = k
        /\ k = Roots => r < k \/ r = k
  BY <1>0, WorldRestoreAssumption DEF Root
<1>4. CASE k < Roots /\ AtLine(h, "in", k + 1)
  <2>1. \A r \in Root : data[r] = IF r < k + 1 THEN <<a>> ELSE <<>>
    BY <1>0, <1>2, <1>3 DEF Root
  <2>2. \A g \in helpers' : CutoverAt(g)'
    BY <1>0, <1>2, <1>4, <2>1 DEF CutoverAt, AtLine
  <2>. QED
    BY <1>0, <1>1, <1>2, <1>4, <2>2, WaitingKnows DEF HelperInv, AtLine, LineInv, StagingInv
<1>5. CASE k = Roots /\ AtLine(h, "rmdir", 1)
  <2>1. data = [r \in Root |-> <<a>>]
    BY <1>0, <1>2, <1>3, <1>5 DEF Place
  <2>2. \A g \in helpers' : CutoverAt(g)'
    BY <1>0, <1>2, <1>5, <2>1 DEF CutoverAt, AtLine, Restored
  <2>. QED
    BY <1>0, <1>1, <1>2, <1>5, <2>2, WaitingKnows DEF HelperInv, AtLine, LineInv, StagingInv
<1>. QED
  BY <1>1, <1>4, <1>5

\* The first half of a round of the rollback: a live root goes aside.
LEMMA MoveAsideKeepsLine ==
  ASSUME Parts, LineInv, NEW h \in helpers, ScriptStep(h), MoveAside(h)
  PROVE  LineInv'
<1>. DEFINE a == archive[h.by]
            p == prior[h.by]
            k == h.root
<1>0. /\ h \in Helper /\ h.by \in Command /\ a \in Archive /\ k \in Root
      /\ helpers = {h} /\ h.script = "rollback" /\ h.stage = "aside"
      /\ UNCHANGED <<pc, archive, outcome, prior, minecraft, staging, rollback>>
      /\ data \in Place /\ failed \in [Archive -> Place \cup {NoDir}]
      /\ failed[a] \in Place
  BY AloneFacts, HelperFacts
     DEF ScriptStep, MoveAside, LineInv, ScriptStages, Scripts, Parts, VolumeTypes
<1>1. AtLine(h, "return", k) /\ AloneInv' /\ UNCHANGED exit
  BY <1>0, ProceedsAlone DEF MoveAside, LineInv, Stages, AtLine
<1>2. RollbackAt(h) /\ minecraft = "stopped"
      /\ (pc[h.by] = "verify-rollback" => FullRollbackAt(h))
  BY <1>0 DEF LineInv, HelperInv
<1>3. /\ data'[k] = <<>> /\ \A r \in Root \ {k} : data'[r] = data[r]
      /\ \A r \in Root \ {k} : failed'[a][r] = failed[a][r]
  BY <1>0 DEF MoveAside, Place
<1>4. \A r \in Root : (r < k => r # k) /\ (r > k => r # k)
  BY <1>0 DEF Root
<1>5. \A g \in helpers' : RollbackAt(g)'
  BY <1>0, <1>1, <1>2, <1>3, <1>4 DEF RollbackAt, AtLine
<1>6. \A g \in helpers' : pc'[g.by] = "verify-rollback" => FullRollbackAt(g)'
  BY <1>0, <1>1, <1>2, <1>3, <1>4 DEF FullRollbackAt, AtLine
<1>. QED
  BY <1>0, <1>1, <1>2, <1>5, <1>6, WaitingKnows DEF HelperInv, AtLine, LineInv, StagingInv

\* The second half: the prior root comes back.
LEMMA MoveBackKeepsLine ==
  ASSUME Parts, LineInv, NEW h \in helpers, ScriptStep(h), MoveBack(h)
  PROVE  LineInv'
<1>. DEFINE a == archive[h.by]
            p == prior[h.by]
            k == h.root
<1>0. /\ h \in Helper /\ h.by \in Command /\ a \in Archive /\ k \in Root
      /\ helpers = {h} /\ h.script = "rollback" /\ h.stage = "return"
      /\ UNCHANGED <<pc, archive, outcome, prior, minecraft, staging, failed>>
      /\ data \in Place /\ p \in Place /\ rollback \in [Archive -> Place \cup {NoDir}]
  BY AloneFacts
     DEF ScriptStep, MoveBack, LineInv, ScriptStages, Scripts, Parts, VolumeTypes
<1>1. /\ AloneInv' /\ UNCHANGED exit
      /\ \/ k < Roots /\ AtLine(h, "aside", k + 1)
         \/ k = Roots /\ AtLine(h, "rmdir", 1)
  BY <1>0, LoopsAlone DEF MoveBack, LineInv, Stages
<1>2. RollbackAt(h) /\ minecraft = "stopped"
      /\ (pc[h.by] = "verify-rollback" => FullRollbackAt(h))
  BY <1>0 DEF LineInv, HelperInv
<1>3. /\ rollback[a] # NoDir /\ rollback[a] \in Place /\ data[k] = <<>>
      /\ rollback[a][k] \in {<<>>, p[k]}
      /\ \A r \in Root : /\ r > k => failed[a][r] = <<>> /\ rollback[a][r] \in {<<>>, p[r]}
                         /\ r < k => data[r] \in {<<>>, p[r]}
  BY <1>0, <1>2 DEF RollbackAt, Root
<1>4. /\ rollback'[a] \in Place /\ data'[k] = rollback[a][k] /\ data' \in Place
      /\ \A r \in Root \ {k} : data'[r] = data[r] /\ rollback'[a][r] = rollback[a][r]
  <2>1. CASE ~Exists(rollback[a], k)
    BY <1>0, <1>3, <2>1 DEF MoveBack, Exists
  <2>2. CASE Exists(rollback[a], k)
    <3>1. rollback[a][k] \in Seq(Content) /\ data[k] \o rollback[a][k] = rollback[a][k]
      BY <1>0, <1>3, Nesting DEF Place
    <3>2. data' = [data EXCEPT ![k] = rollback[a][k]]
          /\ rollback' = [rollback EXCEPT ![a] = [rollback[a] EXCEPT ![k] = <<>>]]
      BY <1>0, <2>2, <3>1 DEF MoveBack
    <3>3. [rollback[a] EXCEPT ![k] = <<>>] \in Place /\ data' \in Place
      BY <1>0, <1>3, <3>1, <3>2, Directories, EmptySeq
    <3>4. rollback'[a] = [rollback[a] EXCEPT ![k] = <<>>]
      BY <1>0, <3>2
    <3>. QED
      BY <1>0, <1>3, <3>2, <3>3, <3>4 DEF Place
  <2>. QED
    BY <2>1, <2>2
<1>5. \A r \in Root :
        /\ r < k + 1 <=> r < k \/ r = k
        /\ r >= k + 1 <=> r > k
        /\ r > k => r # k /\ r >= k
        /\ r < k => r # k
        /\ k = Roots => r < k + 1
        /\ r > k + 1 => r > k
        /\ k >= k
  BY <1>0, WorldRestoreAssumption DEF Root
<1>6. \A r \in Root : r < k + 1 => data'[r] \in {<<>>, p[r]}
  BY <1>0, <1>3, <1>4, <1>5
<1>7. pc[h.by] = "verify-rollback" =>
        \A r \in Root :
          /\ r < k + 1 => data'[r] = p[r]
          /\ r >= k + 1 => rollback'[a][r] = p[r]
  BY <1>0, <1>2, <1>4, <1>5 DEF FullRollbackAt
<1>8. CASE k < Roots /\ AtLine(h, "aside", k + 1)
  <2>1. \A g \in helpers' : RollbackAt(g)'
    BY <1>0, <1>3, <1>4, <1>5, <1>6, <1>8, Directories DEF RollbackAt, AtLine
  <2>2. \A g \in helpers' : pc'[g.by] = "verify-rollback" => FullRollbackAt(g)'
    BY <1>0, <1>7, <1>8 DEF FullRollbackAt, AtLine
  <2>. QED
    BY <1>0, <1>1, <1>2, <1>8, <2>1, <2>2, WaitingKnows DEF HelperInv, AtLine, LineInv, StagingInv
<1>9. CASE k = Roots /\ AtLine(h, "rmdir", 1)
  <2>1. \A g \in helpers' : RollbackAt(g)'
    BY <1>0, <1>5, <1>6, <1>9 DEF RollbackAt, AtLine
  <2>2. pc[h.by] = "verify-rollback" => data' = p
    <3>1. pc[h.by] = "verify-rollback" => \A r \in Root : data'[r] = p[r]
      BY <1>5, <1>7, <1>9
    <3>. QED
      BY <1>0, <1>4, <3>1 DEF Place
  <2>3. \A g \in helpers' : pc'[g.by] = "verify-rollback" => FullRollbackAt(g)'
    BY <1>0, <1>9, <2>2 DEF FullRollbackAt, AtLine
  <2>. QED
    BY <1>0, <1>1, <1>2, <1>9, <2>1, <2>3, WaitingKnows DEF HelperInv, AtLine, LineInv, StagingInv
<1>. QED
  BY <1>1, <1>8, <1>9

\* The last lines, which remove what is empty or staged.
LEMMA EndKeepsLine ==
  ASSUME Parts, LineInv, NEW h \in helpers, ScriptStep(h), Rmdir(h) \/ Remove(h)
  PROVE  LineInv'
<1>. DEFINE a == archive[h.by]
<1>0. /\ h \in Helper /\ h.by \in Command /\ a \in Archive
      /\ UNCHANGED <<pc, archive, outcome, prior, minecraft, data>>
      /\ staging \in [Archive -> Place \cup {NoDir}]
      /\ h.stage \in ScriptStages(h.script) /\ h.script \in Scripts
  BY AloneFacts DEF ScriptStep, Rmdir, Remove, LineInv, Parts, VolumeTypes
<1>1. helpers' = {} /\ AloneInv' /\ Exit(h, "ok")
  BY <1>0, ExitsAlone DEF Rmdir, Remove, LineInv
<1>2. HelperInv'
  BY <1>1 DEF HelperInv
<1>3. CASE Rmdir(h)
  <2>1. h.script = "cutover" \/ h.script = "rollback"
    BY <1>0, <1>3 DEF Rmdir, ScriptStages, Scripts
  <2>2. StagingInv'
    BY <1>0, <1>3 DEF Rmdir, LineInv, StagingInv
  <2>3. h.script = "cutover" => Restored(h.by)'
    BY <1>0, <1>3 DEF Rmdir, LineInv, HelperInv, CutoverAt, Restored
  <2>4. h.script = "rollback" =>
          /\ \A r \in Root : data'[r] \in {<<>>, prior[h.by][r]}
          /\ pc[h.by] = "verify-rollback" => data' = prior[h.by]
    BY <1>0, <1>3 DEF Rmdir, LineInv, HelperInv, RollbackAt, FullRollbackAt
  <2>5. CommandInv'
    BY <1>0, <1>1, <2>1, <2>3, <2>4, ReturnKnows DEF LineInv
  <2>. QED
    BY <1>1, <1>2, <2>2, <2>5 DEF LineInv
<1>4. CASE Remove(h)
  <2>1. h.script = "cleanup"
    BY <1>0, <1>4 DEF Remove, ScriptStages, Scripts
  <2>2. StagingInv'
    BY <1>0, <1>4 DEF Remove, LineInv, StagingInv
  <2>3. CommandInv'
    BY <1>0, <1>1, <2>1, ReturnKnows DEF LineInv
  <2>. QED
    BY <1>1, <1>2, <2>2, <2>3 DEF LineInv
<1>. QED
  BY <1>3, <1>4

\* A line that fails ends the script where it is.
LEMMA FailureKeepsLine ==
  ASSUME Parts, LineInv, NEW h \in helpers, ScriptFails(h)
  PROVE  LineInv'
<1>0. /\ h \in Helper /\ h.by \in Command /\ archive[h.by] \in Archive
      /\ h.stage \in ScriptStages(h.script) /\ h.script \in Scripts /\ h.root \in Root
      /\ UNCHANGED <<pc, archive, outcome, prior, minecraft, data, staging, rollback, failed>>
  BY AloneFacts DEF ScriptFails, LineInv, volume
<1>1. helpers' = {} /\ AloneInv' /\ Exit(h, "failed")
  BY <1>0, ExitsAlone DEF ScriptFails, LineInv
<1>2. h.script = "cutover" => PartOfPrior(h.by)
  <2>1. \A r \in Root : EmptyDir[r] = <<>>
    BY DEF EmptyDir
  <2>. QED
    BY <1>0, <2>1 DEF LineInv, HelperInv, CutoverAt, PartOfPrior, ScriptStages, Restored
<1>3. h.script = "cutover" => PartOfPrior(h.by)'
  BY <1>0, <1>2 DEF PartOfPrior
<1>4. CommandInv'
  BY <1>0, <1>1, <1>3, ReturnKnows DEF LineInv
<1>. QED
  BY <1>0, <1>1, <1>4 DEF LineInv, HelperInv, StagingInv

\* Every line keeps the invariant of the lines.
LEMMA LineStep ==
  ASSUME Parts, LineInv, NEW h \in helpers, ScriptStep(h) \/ ScriptFails(h)
  PROVE  LineInv'
  BY MkdirKeepsLine, UnzipKeepsLine, CheckKeepsLine, MoveOutKeepsLine, MoveInKeepsLine,
     ChownKeepsLine, MoveAsideKeepsLine, MoveBackKeepsLine, EndKeepsLine, FailureKeepsLine
     DEF ScriptStep

(***************************************************************************)
(* One command at a time: prior roots are kept                             *)
(***************************************************************************)
KeptIn(dir, r, root) == \E a \in Archive : dir[a] # NoDir /\ dir[a][r] = root
\* A root is live, or in one of the rollback or failed directories.
Kept(live, rolled, aside, r, root) ==
  live[r] = root \/ KeptIn(rolled, r, root) \/ KeptIn(aside, r, root)

\* PriorWorldKept in these terms, before and after a step.
LEMMA PriorIsKept ==
  ASSUME Parts
  PROVE  PriorWorldKept <=>
           (\A c \in Command, r \in Root :
              archive[c] # NoArchive /\ prior[c][r] # <<>> =>
                Kept(data, rollback, failed, r, prior[c][r]))
<1>1. data # NoDir
  BY Directories DEF Parts, VolumeTypes
<1>2. \A r, root : Kept(data, rollback, failed, r, root) <=>
        \E place \in {data} \cup {rollback[a] : a \in Archive} \cup {failed[a] : a \in Archive} :
          place # NoDir /\ place[r] = root
  BY <1>1 DEF Kept, KeptIn
<1>. QED
  BY <1>2 DEF PriorWorldKept

LEMMA PriorIsKeptNext ==
  ASSUME Parts'
  PROVE  PriorWorldKept' <=>
           (\A c \in Command, r \in Root :
              archive'[c] # NoArchive /\ prior'[c][r] # <<>> =>
                Kept(data', rollback', failed', r, prior'[c][r]))
<1>1. data' # NoDir
  BY Directories DEF Parts, VolumeTypes
<1>2. \A r, root : Kept(data', rollback', failed', r, root) <=>
        \E place \in {data'} \cup {rollback'[a] : a \in Archive} \cup {failed'[a] : a \in Archive} :
          place # NoDir /\ place[r] = root
  BY <1>1 DEF Kept, KeptIn
<1>. QED
  BY <1>2 DEF PriorWorldKept

\* A move goes to an empty place, so that no root changes on its way.
LEMMA MovesAreClean ==
  ASSUME Parts, LineInv, NEW h \in helpers
  PROVE  /\ h.stage = "out" => rollback[archive[h.by]] # NoDir /\ rollback[archive[h.by]][h.root] = <<>>
         /\ h.stage = "aside" => failed[archive[h.by]] # NoDir /\ failed[archive[h.by]][h.root] = <<>>
         /\ h.stage \in {"in", "return"} => data[h.root] = <<>>
<1>1. h.root \in Root /\ h.script \in Scripts /\ h.stage \in ScriptStages(h.script)
  BY AloneFacts DEF LineInv
<1>2. h.stage \in {"out", "in"} => h.script = "cutover" /\ CutoverAt(h)
  BY <1>1 DEF LineInv, HelperInv, Scripts, ScriptStages
<1>3. h.stage \in {"aside", "return"} => h.script = "rollback" /\ RollbackAt(h)
  BY <1>1 DEF LineInv, HelperInv, Scripts, ScriptStages
<1>4. h.stage = "aside" => failed[archive[h.by]] # NoDir
  BY <1>3, HelperFacts
<1>. QED
  BY <1>1, <1>2, <1>3, <1>4 DEF CutoverAt, RollbackAt, Root

\* An entry of a directory changes: every other root stays where it is.
LEMMA OthersStay ==
  ASSUME NEW dir \in [Archive -> Place \cup {NoDir}], NEW a \in Archive, NEW k \in Root,
         dir[a] # NoDir, NEW t \in Seq(Content), NEW r \in Root, NEW root
  PROVE  LET new == [dir EXCEPT ![a] = [dir[a] EXCEPT ![k] = t]]
         IN  /\ KeptIn(dir, r, root) /\ (r = k => dir[a][k] # root) => KeptIn(new, r, root)
             /\ r = k /\ t = root => KeptIn(new, r, root)
<1>. DEFINE entry == [dir[a] EXCEPT ![k] = t]
            new == [dir EXCEPT ![a] = entry]
<1>1. dir[a] \in Place
  OBVIOUS
<1>2. entry \in Place /\ entry # NoDir
  BY <1>1, Directories
<1>3. entry[k] = t /\ \A s \in Root \ {k} : entry[s] = dir[a][s]
  BY <1>1 DEF Place
<1>. HIDE DEF entry
<1>4. new[a] = entry /\ \A b \in Archive \ {a} : new[b] = dir[b]
  OBVIOUS
<1>. HIDE DEF new
<1>5. KeptIn(dir, r, root) /\ (r = k => dir[a][k] # root) => KeptIn(new, r, root)
  BY <1>2, <1>3, <1>4 DEF KeptIn
<1>6. r = k /\ t = root => KeptIn(new, r, root)
  BY <1>2, <1>3, <1>4 DEF KeptIn
<1>. QED
  BY <1>5, <1>6 DEF new, entry

\* No line of a script loses a root of a prior world.
LEMMA ScriptKeepsPrior ==
  ASSUME Parts, LineInv, NEW h \in helpers, ScriptStep(h),
         NEW r \in Root, NEW root, root # <<>>,
         Kept(data, rollback, failed, r, root)
  PROVE  Kept(data', rollback', failed', r, root)
<1>. DEFINE a == archive[h.by]
            k == h.root
<1>0. /\ k \in Root /\ a \in Archive /\ EmptyDir # NoDir
      /\ data[k] \in Seq(Content) /\ <<>> \in Seq(Content)
      /\ data \in Place /\ rollback \in [Archive -> Place \cup {NoDir}]
      /\ failed \in [Archive -> Place \cup {NoDir}]
  BY HelperFacts, Directories, EmptySeq DEF Parts, VolumeTypes
<1>1. /\ h.stage = "out" => rollback[a] # NoDir /\ rollback[a][k] = <<>>
      /\ h.stage = "aside" => failed[a] # NoDir /\ failed[a][k] = <<>>
      /\ h.stage \in {"in", "return"} => data[k] = <<>>
  BY MovesAreClean
<1>2. Ready(h)
  BY DEF ScriptStep
<1>3. CASE UNCHANGED <<data, rollback, failed>>
  BY <1>3
<1>4. CASE Mkdir(h)
  <2>1. \A b \in Archive : /\ rollback[b] # NoDir => rollback'[b] = rollback[b]
                           /\ failed[b] # NoDir => failed'[b] = failed[b]
    BY <1>0, <1>2, <1>4 DEF Mkdir, Ready
  <2>2. data' = data
    BY <1>4 DEF Mkdir
  <2>. QED
    BY <2>1, <2>2 DEF Kept, KeptIn
<1>5. CASE MoveOut(h)
  <2>1. CASE data[k] = <<>>
    BY <1>3, <1>5, <2>1 DEF MoveOut
  <2>2. CASE data[k] # <<>>
    <3>1. rollback[a] # NoDir /\ rollback[a][k] = <<>> /\ rollback[a][k] \o data[k] = data[k]
      BY <1>0, <1>1, <1>5, Nesting DEF MoveOut
    <3>2. /\ rollback' = [rollback EXCEPT ![a] = [rollback[a] EXCEPT ![k] = data[k]]]
          /\ data' = [data EXCEPT ![k] = <<>>] /\ UNCHANGED failed
      BY <1>5, <2>2, <3>1 DEF MoveOut
    <3>3. /\ KeptIn(rollback, r, root) => KeptIn(rollback', r, root)
          /\ r = k /\ data[k] = root => KeptIn(rollback', r, root)
      BY <1>0, <3>1, <3>2, OthersStay
    <3>4. r # k => data'[r] = data[r]
      BY <1>0, <3>2 DEF Place
    <3>. QED
      BY <3>2, <3>3, <3>4 DEF Kept
  <2>. QED
    BY <2>1, <2>2
<1>6. CASE MoveIn(h)
  <2>1. data[k] = <<>> /\ UNCHANGED <<rollback, failed>>
    BY <1>1, <1>6 DEF MoveIn
  <2>2. r # k => data'[r] = data[r]
    BY <1>0, <1>6 DEF MoveIn, Place
  <2>. QED
    BY <2>1, <2>2 DEF Kept
<1>7. CASE MoveAside(h)
  <2>1. failed[a] # NoDir /\ failed[a][k] = <<>> /\ failed[a][k] \o data[k] = data[k]
    BY <1>0, <1>1, <1>7, Nesting DEF MoveAside
  <2>2. /\ failed' = [failed EXCEPT ![a] = [failed[a] EXCEPT ![k] = data[k]]]
        /\ data' = [data EXCEPT ![k] = <<>>] /\ UNCHANGED rollback
    BY <1>7, <2>1 DEF MoveAside
  <2>3. /\ KeptIn(failed, r, root) => KeptIn(failed', r, root)
        /\ r = k /\ data[k] = root => KeptIn(failed', r, root)
    BY <1>0, <2>1, <2>2, OthersStay
  <2>4. r # k => data'[r] = data[r]
    BY <1>0, <2>2 DEF Place
  <2>. QED
    BY <2>2, <2>3, <2>4 DEF Kept
<1>8. CASE MoveBack(h)
  <2>1. CASE ~Exists(rollback[a], k)
    BY <1>3, <1>8, <2>1 DEF MoveBack
  <2>2. CASE Exists(rollback[a], k)
    <3>1. rollback[a] # NoDir /\ rollback[a][k] \in Seq(Content) /\ data[k] = <<>>
          /\ data[k] \o rollback[a][k] = rollback[a][k]
      BY <1>0, <1>1, <1>8, <2>2, HelperFacts, Nesting DEF MoveBack, Exists
    <3>2. /\ data' = [data EXCEPT ![k] = rollback[a][k]]
          /\ rollback' = [rollback EXCEPT ![a] = [rollback[a] EXCEPT ![k] = <<>>]]
          /\ UNCHANGED failed
      BY <1>8, <2>2, <3>1 DEF MoveBack
    <3>3. KeptIn(rollback, r, root) /\ (r = k => rollback[a][k] # root) => KeptIn(rollback', r, root)
      BY <1>0, <3>1, <3>2, OthersStay
    <3>4. data'[k] = rollback[a][k] /\ (r # k => data'[r] = data[r])
      BY <1>0, <3>2 DEF Place
    <3>. QED
      BY <3>1, <3>2, <3>3, <3>4 DEF Kept
  <2>. QED
    BY <2>1, <2>2
<1>9. CASE Rmdir(h)
  <2>1. CASE h.script = "cutover"
    BY <1>3, <1>9, <2>1 DEF Rmdir
  <2>2. CASE h.script # "cutover"
    <3>1. rollback[a] = EmptyDir
      BY <1>2, <1>9, <2>2 DEF Rmdir, Ready
    <3>2. rollback[a][r] # root
      BY <3>1 DEF EmptyDir
    <3>3. \A b \in Archive \ {a} : rollback'[b] = rollback[b]
      BY <1>0, <1>9, <2>2 DEF Rmdir
    <3>4. KeptIn(rollback, r, root) => KeptIn(rollback', r, root)
      BY <3>2, <3>3 DEF KeptIn
    <3>. QED
      BY <1>9, <3>4 DEF Rmdir, Kept
  <2>. QED
    BY <2>1, <2>2
<1>10. CASE Unzip(h) \/ Check(h) \/ Chown(h) \/ Remove(h)
  BY <1>3, <1>10 DEF Unzip, Check, Chown, Remove, volume
<1>. QED
  BY <1>4, <1>5, <1>6, <1>7, <1>8, <1>9, <1>10 DEF ScriptStep

(***************************************************************************)
(* One command at a time: the steps                                        *)
(***************************************************************************)

\* A helper's step, whether its line goes through or not.
LEMMA HelperKeepsSerial ==
  ASSUME Parts, SerialInv, NEW h \in helpers, ScriptStep(h) \/ ScriptFails(h), Parts'
  PROVE  SerialInv'
<1>0. LineInv /\ UNCHANGED <<archive, prior, minecraft>>
  BY DEF SerialInv, LineInv, ScriptStep, ScriptFails
<1>1. LineInv'
  BY <1>0, LineStep
<1>2. PriorWorldKept'
  <2>1. \A c \in Command, r \in Root :
          archive[c] # NoArchive /\ prior[c][r] # <<>> =>
            Kept(data, rollback, failed, r, prior[c][r])
    BY PriorIsKept DEF SerialInv
  <2>2. CASE ScriptFails(h)
    BY <1>0, <2>1, <2>2, PriorIsKeptNext DEF ScriptFails, volume
  <2>3. CASE ScriptStep(h)
    <3>1. \A c \in Command, r \in Root :
            archive[c] # NoArchive /\ prior[c][r] # <<>> =>
              Kept(data', rollback', failed', r, prior[c][r])
      BY <1>0, <2>1, <2>3, ScriptKeepsPrior
    <3>. QED
      BY <1>0, <3>1, PriorIsKeptNext
  <2>. QED
    BY <2>2, <2>3
<1>3. NeverRunsMixed'
  <2>1. h.script \in Scripts /\ h.stage \in ScriptStages(h.script)
    BY <1>0, AloneFacts DEF LineInv
  <2>2. CASE h.script \in {"cutover", "rollback"}
    BY <1>0, <2>2 DEF LineInv, HelperInv, NeverRunsMixed
  <2>3. CASE h.script \in {"prepare", "cleanup"}
    <3>1. h.stage \in {"mkdir", "unzip", "rm"}
      BY <2>1, <2>3 DEF ScriptStages
    <3>2. UNCHANGED data
      BY <3>1 DEF ScriptStep, ScriptFails, Mkdir, Unzip, Check, MoveOut, MoveIn, Chown,
                  MoveAside, MoveBack, Rmdir, Remove, volume
    <3>. QED
      BY <1>0, <3>2 DEF SerialInv, NeverRunsMixed
  <2>. QED
    BY <2>1, <2>2, <2>3 DEF Scripts
<1>. QED
  BY <1>1, <1>2, <1>3 DEF SerialInv, LineInv

\* The volume, and what the live roots were, do not change with a command's
\* own step; it launches a helper only when none is at work.
LEMMA CommandKeepsVolume ==
  ASSUME Parts, SerialInv, Parts',
         UNCHANGED <<data, staging, rollback, failed, archive, prior>>
  PROVE  StagingInv' /\ PriorWorldKept'
  BY DEF SerialInv, StagingInv, PriorWorldKept

\* A launch by the only command at work.
LEMMA LaunchAlone ==
  ASSUME Parts, NEW c \in Command, NEW step \in Steps, NEW script \in Scripts,
         Launch(c, step, script), helpers = {}, \A d \in Command \ {c} : pc[d] = "idle",
         \/ script = step
         \/ script = "cleanup" /\ step = "stop-cleanup"
         \/ script = "rollback" /\ step = "verify-rollback"
  PROVE  /\ AloneInv'
         /\ \A d \in Command \ {c} : pc'[d] = "idle"
         /\ pc'[c] = step /\ exit'[c] = "none"
         /\ \A g \in helpers' : g.by = c /\ g.script = script /\ (script # "cleanup" => g.stage = "mkdir")
<1>. DEFINE g == [by |-> c, script |-> script, root |-> 1,
                  stage |-> IF script = "cleanup" THEN "rm" ELSE "mkdir"]
<1>1. /\ helpers' = {g} /\ g.by = c /\ g.script = script
      /\ script # "cleanup" => g.stage = "mkdir"
  BY DEF Launch
<1>. HIDE DEF g
<1>2. \A d \in Command \ {c} : pc'[d] = "idle"
  BY DEF Launch, Parts, ControlTypes
<1>3. pc'[c] = step /\ exit'[c] = "none"
  BY DEF Launch, Parts, ControlTypes
<1>4. Waits(c, script)'
  BY <1>3 DEF Waits
<1>5. AloneInv'
  BY <1>1, <1>2, <1>3, <1>4 DEF AloneInv, Waits
<1>. QED
  BY <1>1, <1>2, <1>3, <1>5

\* A step without a launch.
LEMMA NoHelper ==
  ASSUME Parts, NEW c \in Command, helpers' = {}, \A d \in Command \ {c} : pc[d] = "idle",
         NEW step \in Steps \cup {"idle"}, pc' = [pc EXCEPT ![c] = step]
  PROVE  /\ AloneInv' /\ HelperInv'
         /\ \A d \in Command \ {c} : pc'[d] = "idle"
         /\ pc'[c] = step
<1>1. (\A d \in Command \ {c} : pc'[d] = "idle") /\ pc'[c] = step
  BY DEF Parts, ControlTypes
<1>. QED
  BY <1>1 DEF AloneInv, HelperInv

\* Roots that are absent or those of one world are not those of two.
LEMMA PartsUnmixed ==
  ASSUME NEW roots \in Place, NEW world \in Place, Unmixed(world),
         \A r \in Root : roots[r] \in {<<>>, world[r]}
  PROVE  Unmixed(roots)
  BY DEF Unmixed

\* What a step of a command leaves to be shown.
LEMMA CommandKeepsSerial ==
  ASSUME Parts, SerialInv, Parts', NEW c \in Command,
         UNCHANGED <<data, staging, rollback, failed, archive, prior>>,
         \A d \in Command \ {c} : pc'[d] = "idle",
         AloneInv', HelperInv', Knows(c)',
         minecraft' = "running" => minecraft = "running" \/ Unmixed(data)
  PROVE  SerialInv'
<1>1. \A d \in Command \ {c} : Knows(d)'
  BY DEF Knows, Untouched, Stopped
<1>2. CommandInv'
  BY <1>1 DEF SerialInv, CommandInv, Unmixed
<1>3. NeverRunsMixed'
  BY DEF SerialInv, NeverRunsMixed, Unmixed
<1>. QED
  BY <1>2, <1>3, CommandKeepsVolume DEF SerialInv

\* The steps of the command, each with what it knows of the volume.
LEMMA CommandStepSerial ==
  ASSUME OneAtATime, Parts, SerialInv, NEW c \in Command, CommandStep(c), Parts'
  PROVE  SerialInv'
<1>. DEFINE a == archive[c]
            p == prior[c]
<1>0. /\ helpers = {} /\ pc[c] # "idle" /\ \A d \in Command \ {c} : pc[d] = "idle"
      /\ UNCHANGED <<data, staging, rollback, failed, archive, prior>>
      /\ a \in Archive /\ Knows(c) /\ Unmixed(p)
      /\ data \in Place /\ p \in Place
      /\ rollback \in [Archive -> Place \cup {NoDir}]
  BY CommandIsAlone, CommandShape
     DEF SerialInv, CommandInv, Parts, ActiveOK, VolumeTypes, ControlTypes
<1>1. Lost(c) <=> exit[c] = "failed"
  BY DEF Lost, OneAtATime
<1>2. (\A r \in Root : data[r] \in {<<>>, p[r]}) => Unmixed(data)
  BY <1>0, PartsUnmixed
<1>3. ASSUME NEW step \in Steps \cup {"idle"}, helpers' = helpers, pc' = [pc EXCEPT ![c] = step],
             exit' = exit, Knows(c)',
             minecraft' = "running" => minecraft = "running" \/ Unmixed(data)
      PROVE  SerialInv'
  BY <1>0, <1>3, NoHelper, CommandKeepsSerial
<1>4. Knows(c)' <=>
        /\ pc'[c] \in Untouched => data = p
        /\ pc'[c] \in {"inspect", "stop"} \/ (pc'[c] = "prepare" /\ exit'[c] = "ok") =>
             rollback[a] = NoDir
        /\ pc'[c] \in {"start", "doctor", "verify-stop"} \/ (pc'[c] = "cutover" /\ exit'[c] = "ok") =>
             Restored(c)
        /\ pc'[c] = "cutover" /\ exit'[c] = "failed" => PartOfPrior(c)
        /\ pc'[c] = "rollback-start" \/ (pc'[c] = "rollback" /\ exit'[c] = "ok") =>
             \A r \in Root : data[r] \in {<<>>, p[r]}
        /\ pc'[c] = "verify-start" \/ (pc'[c] = "verify-rollback" /\ exit'[c] = "ok") =>
             data = p
        /\ pc'[c] \in Stopped => minecraft' = "stopped"
  BY <1>0 DEF Knows, Restored, PartOfPrior
<1>5. ASSUME NEW step \in Steps, pc' = [pc EXCEPT ![c] = step] PROVE pc'[c] = step
  BY <1>5 DEF Parts, ControlTypes
<1>6. ASSUME pc' = [pc EXCEPT ![c] = "idle"] PROVE Knows(c)'
  <2>1. pc'[c] = "idle"
    BY <1>6 DEF Parts, ControlTypes
  <2>. QED
    BY <2>1 DEF Knows, Untouched, Stopped
<1>7. ASSUME NEW result, Report(c, result),
             minecraft' = "running" => minecraft = "running" \/ Unmixed(data)
      PROVE  SerialInv'
  BY <1>3, <1>6, <1>7 DEF Report
<1>8. ASSUME NEW step \in Steps, Goto(c, step), Knows(c)',
             minecraft' = "running" => minecraft = "running" \/ Unmixed(data)
      PROVE  SerialInv'
  BY <1>3, <1>8 DEF Goto
<1>9. ASSUME NEW step \in Steps, Launch(c, step, "cleanup"), step \in {"cleanup", "stop-cleanup"},
             data = p, minecraft' = "running" => minecraft = "running"
      PROVE  SerialInv'
  <2>1. /\ AloneInv' /\ \A d \in Command \ {c} : pc'[d] = "idle"
        /\ pc'[c] = step /\ exit'[c] = "none"
        /\ \A g \in helpers' : g.script = "cleanup"
    BY <1>0, <1>9, LaunchAlone DEF Scripts
  <2>2. HelperInv'
    BY <2>1 DEF HelperInv
  <2>3. Knows(c)'
    BY <1>0, <1>4, <1>9, <2>1 DEF Untouched, Stopped
  <2>. QED
    BY <1>0, <1>9, <2>1, <2>2, <2>3, CommandKeepsSerial
<1>10. ASSUME NEW step \in {"rollback", "verify-rollback"}, Launch(c, step, "rollback"),
              PartOfPrior(c), step = "verify-rollback" => rollback[a] = p,
              minecraft' = "stopped"
       PROVE  SerialInv'
  <2>1. step \in Steps
    BY DEF Steps
  <2>2. /\ AloneInv' /\ \A d \in Command \ {c} : pc'[d] = "idle"
        /\ pc'[c] = step /\ exit'[c] = "none"
        /\ \A g \in helpers' : g.by = c /\ g.script = "rollback" /\ g.stage = "mkdir"
    BY <1>0, <1>10, <2>1, LaunchAlone DEF Scripts
  <2>3. PartOfPrior(c)'
    BY <1>0, <1>10 DEF PartOfPrior
  <2>4. \A g \in helpers' : RollbackAt(g)' /\ (pc'[c] = "verify-rollback" => FullRollbackAt(g)')
    BY <1>0, <1>10, <2>2, <2>3 DEF RollbackAt, FullRollbackAt
  <2>5. HelperInv'
    BY <1>10, <2>2, <2>4 DEF HelperInv
  <2>6. Knows(c)'
    BY <1>0, <1>4, <1>10, <2>2 DEF Untouched
  <2>. QED
    BY <1>0, <1>10, <2>2, <2>5, <2>6, CommandKeepsSerial
<1>11. CASE Prepare(c)
  <2>1. data = p /\ UNCHANGED minecraft
    BY <1>0, <1>11 DEF Prepare, Knows, Untouched
  <2>2. CASE pc[c] = "prepare" /\ Returned(c) /\ Goto(c, "inspect")
    <3>1. rollback[a] = NoDir
      BY <1>0, <2>2 DEF Knows, Returned
    <3>2. pc'[c] = "inspect"
      BY <1>5, <2>2 DEF Goto, Steps
    <3>. QED
      BY <1>4, <1>8, <2>1, <2>2, <3>1, <3>2 DEF Steps, Stopped
  <2>3. CASE Call(c, "cleanup", "cleanup")
    BY <1>9, <2>1, <2>3 DEF Call, Steps
  <2>4. CASE pc[c] = "inspect" /\ Goto(c, "stop")
    <3>1. rollback[a] = NoDir
      BY <1>0, <2>4 DEF Knows
    <3>2. pc'[c] = "stop"
      BY <1>5, <2>4 DEF Goto, Steps
    <3>. QED
      BY <1>4, <1>8, <2>1, <2>4, <3>1, <3>2 DEF Steps, Stopped
  <2>5. CASE Report(c, "refused")
    BY <1>7, <2>1, <2>5
  <2>. QED
    BY <1>11, <2>2, <2>3, <2>4, <2>5 DEF Prepare
<1>12. CASE StopMinecraft(c)
  <2>1. /\ Launch(c, "cutover", "cutover") /\ minecraft' = "stopped"
        /\ data = p /\ rollback[a] = NoDir
    BY <1>0, <1>12 DEF StopMinecraft, Call, Knows, Untouched
  <2>2. /\ AloneInv' /\ \A d \in Command \ {c} : pc'[d] = "idle"
        /\ pc'[c] = "cutover" /\ exit'[c] = "none"
        /\ \A g \in helpers' : g.by = c /\ g.script = "cutover" /\ g.stage = "mkdir"
    BY <1>0, <2>1, LaunchAlone DEF Scripts, Steps
  <2>3. \A g \in helpers' : CutoverAt(g)'
    BY <1>0, <2>1, <2>2 DEF CutoverAt
  <2>4. HelperInv'
    BY <2>1, <2>2, <2>3 DEF HelperInv
  <2>5. Knows(c)'
    BY <1>0, <1>4, <2>1, <2>2 DEF Untouched
  <2>. QED
    BY <1>0, <2>1, <2>2, <2>4, <2>5, CommandKeepsSerial
<1>13. CASE StopFails(c)
  <2>1. data = p /\ (minecraft' = "running" => minecraft = "running")
    BY <1>0, <1>13 DEF StopFails, Knows, Untouched
  <2>. QED
    BY <1>9, <1>13, <2>1 DEF StopFails, Call, Steps
<1>14. CASE AfterStopFailed(c)
  <2>1. data = p /\ Unmixed(data)
    BY <1>0, <1>14 DEF AfterStopFailed, Knows, Untouched
  <2>2. CASE pc[c] = "stop-cleanup" /\ Goto(c, "stop-restart")
    <3>1. pc'[c] = "stop-restart"
      BY <1>5, <2>2 DEF Goto, Steps
    <3>. QED
      BY <1>4, <1>8, <2>1, <2>2, <3>1 DEF Steps, Stopped
  <2>3. CASE \E result \in Outcomes : Report(c, result)
    BY <1>7, <2>1, <2>3
  <2>. QED
    BY <1>14, <2>2, <2>3 DEF AfterStopFailed, Outcomes
<1>15. CASE Cutover(c)
  <2>1. minecraft' = "stopped" /\ UNCHANGED minecraft
    BY <1>0, <1>15 DEF Cutover, Knows, Stopped
  <2>2. CASE Returned(c) /\ Goto(c, "start")
    <3>1. Restored(c)
      BY <1>0, <1>15, <2>2 DEF Cutover, Knows, Returned
    <3>2. pc'[c] = "start"
      BY <1>5, <2>2 DEF Goto, Steps
    <3>. QED
      BY <1>4, <1>8, <2>1, <2>2, <3>1, <3>2 DEF Steps, Untouched
  <2>3. CASE Lost(c) /\ Call(c, "rollback", "rollback")
    <3>1. PartOfPrior(c)
      BY <1>0, <1>1, <1>15, <2>3 DEF Cutover, Knows
    <3>. QED
      BY <1>10, <2>1, <2>3, <3>1 DEF Call
  <2>. QED
    BY <1>15, <2>2, <2>3 DEF Cutover
<1>16. CASE StartMinecraft(c) \/ Doctor(c)
  <2>1. Restored(c) /\ Unmixed(data)
    <3>1. Restored(c)
      BY <1>0, <1>16 DEF StartMinecraft, Doctor, Knows
    <3>. QED
      BY <3>1 DEF Restored, Unmixed
  <2>2. CASE \E step \in {"doctor", "verify-stop"} : Goto(c, step)
    <3>1. PICK step \in {"doctor", "verify-stop"} : Goto(c, step)
      BY <2>2
    <3>2. pc'[c] = step
      BY <1>5, <3>1 DEF Goto, Steps
    <3>. QED
      BY <1>4, <1>8, <2>1, <3>1, <3>2 DEF Steps, Untouched, Stopped
  <2>3. CASE Report(c, "restored")
    BY <1>7, <2>1, <2>3
  <2>. QED
    BY <1>16, <2>2, <2>3 DEF StartMinecraft, Doctor
<1>17. CASE VerifyStop(c)
  <2>1. Restored(c)
    BY <1>0, <1>17 DEF VerifyStop, Knows
  <2>2. rollback[a] = p /\ PartOfPrior(c)
    BY <2>1 DEF Restored, PartOfPrior
  <2>3. CASE minecraft' = "stopped" /\ Call(c, "verify-rollback", "rollback")
    BY <1>10, <2>2, <2>3 DEF Call
  <2>4. CASE minecraft' \in {minecraft, "stopped"} /\ Report(c, "rollback-failed")
    BY <1>7, <2>4
  <2>. QED
    BY <1>17, <2>3, <2>4 DEF VerifyStop
<1>18. CASE Rollback(c)
  <2>1. minecraft' = "stopped" /\ UNCHANGED minecraft
    BY <1>0, <1>18 DEF Rollback, Knows, Stopped
  <2>2. CASE pc[c] = "rollback" /\ Returned(c) /\ Goto(c, "rollback-start")
    <3>1. \A r \in Root : data[r] \in {<<>>, p[r]}
      BY <1>0, <2>2 DEF Knows, Returned
    <3>2. pc'[c] = "rollback-start"
      BY <1>5, <2>2 DEF Goto, Steps
    <3>. QED
      BY <1>4, <1>8, <2>1, <2>2, <3>1, <3>2 DEF Steps, Untouched
  <2>3. CASE pc[c] = "verify-rollback" /\ Returned(c) /\ Goto(c, "verify-start")
    <3>1. data = p
      BY <1>0, <2>3 DEF Knows, Returned
    <3>2. pc'[c] = "verify-start"
      BY <1>5, <2>3 DEF Goto, Steps
    <3>. QED
      BY <1>4, <1>8, <2>1, <2>3, <3>1, <3>2 DEF Steps, Untouched
  <2>4. CASE Report(c, "rollback-failed")
    BY <1>7, <2>1, <2>4
  <2>. QED
    BY <1>18, <2>2, <2>3, <2>4 DEF Rollback
<1>19. CASE StartPrior(c)
  <2>1. Unmixed(data)
    BY <1>0, <1>2, <1>19 DEF StartPrior, Knows
  <2>2. CASE \E result \in Outcomes : Report(c, result)
    BY <1>7, <2>1, <2>2
  <2>. QED
    BY <1>19, <2>2 DEF StartPrior, Outcomes
<1>. QED
  BY <1>11, <1>12, <1>13, <1>14, <1>15, <1>16, <1>17, <1>18, <1>19 DEF CommandStep

\* A command begins when nobody is at work, on the live roots as they are.
LEMMA BeginSerial ==
  ASSUME OneAtATime, Parts, SerialInv, NEW c \in Command, NEW b \in Archive, Begin(c, b), Parts'
  PROVE  SerialInv'
<1>0. /\ helpers = {} /\ \A d \in Command : pc[d] = "idle"
      /\ archive' = [archive EXCEPT ![c] = b] /\ prior' = [prior EXCEPT ![c] = data]
      /\ Launch(c, "prepare", "prepare") /\ minecraft = "running"
      /\ UNCHANGED <<outcome, data, staging, rollback, failed, minecraft>>
  BY DEF Begin, Call, OneAtATime, volume
<1>1. prior'[c] = data /\ \A d \in Command \ {c} : prior'[d] = prior[d] /\ archive'[d] = archive[d]
  BY <1>0 DEF Parts, ControlTypes
<1>2. /\ AloneInv' /\ \A d \in Command \ {c} : pc'[d] = "idle"
      /\ pc'[c] = "prepare" /\ exit'[c] = "none"
      /\ \A g \in helpers' : g.script = "prepare" /\ g.stage = "mkdir"
  BY <1>0, LaunchAlone DEF Steps, Scripts
<1>3. StagingInv' /\ HelperInv' /\ NeverRunsMixed'
  BY <1>0, <1>2 DEF SerialInv, StagingInv, HelperInv, NeverRunsMixed
<1>4. CommandInv'
  <2>1. Knows(c)'
    BY <1>0, <1>1, <1>2 DEF Knows, Stopped
  <2>2. \A d \in Command \ {c} : Knows(d)'
    BY <1>2 DEF Knows, Untouched, Stopped
  <2>3. \A d \in Command : Unmixed(prior'[d])
    BY <1>0, <1>1 DEF SerialInv, CommandInv, NeverRunsMixed, Unmixed
  <2>. QED
    BY <2>1, <2>2, <2>3 DEF CommandInv, Unmixed
<1>5. PriorWorldKept'
  <2>1. \A d \in Command, r \in Root :
          archive[d] # NoArchive /\ prior[d][r] # <<>> =>
            Kept(data, rollback, failed, r, prior[d][r])
    BY PriorIsKept DEF SerialInv
  <2>2. \A d \in Command, r \in Root :
          archive'[d] # NoArchive /\ prior'[d][r] # <<>> =>
            Kept(data', rollback', failed', r, prior'[d][r])
    BY <1>0, <1>1, <2>1 DEF Kept
  <2>. QED
    BY <2>2, PriorIsKeptNext
<1>. QED
  BY <1>2, <1>3, <1>4, <1>5 DEF SerialInv

\* A death leaves the helper that the command waited for; a restart leaves none.
LEMMA DeathSerial ==
  ASSUME Parts, SerialInv, Parts', (\E c \in Command : Die(c)) \/ HostRestarts
  PROVE  SerialInv'
<1>1. /\ UNCHANGED <<data, staging, rollback, failed, minecraft, archive, prior, exit>>
      /\ helpers' \subseteq helpers
      /\ \A c \in Command : pc'[c] = "idle" \/ pc'[c] = pc[c]
  BY DEF Die, Report, HostRestarts, volume, Parts, ControlTypes
<1>2. AloneInv'
  BY <1>1 DEF SerialInv, AloneInv, Waits
<1>3. HelperInv'
  <2>1. \A h \in helpers' :
          /\ CutoverAt(h)' <=> CutoverAt(h)
          /\ RollbackAt(h)' <=> RollbackAt(h)
          /\ FullRollbackAt(h)' <=> FullRollbackAt(h)
          /\ h.by \in Command
    BY <1>1 DEF CutoverAt, RollbackAt, FullRollbackAt, Restored, PartOfPrior, Parts, HelpersOK, Helper
  <2>. QED
    BY <1>1, <2>1 DEF SerialInv, HelperInv
<1>4. CommandInv'
  <2>1. \A c \in Command : Knows(c)'
    BY <1>1 DEF SerialInv, CommandInv, Knows, Untouched, Stopped, Restored, PartOfPrior
  <2>. QED
    BY <1>1, <2>1 DEF SerialInv, CommandInv, Unmixed
<1>5. StagingInv' /\ NeverRunsMixed' /\ PriorWorldKept'
  BY <1>1 DEF SerialInv, StagingInv, NeverRunsMixed, PriorWorldKept
<1>. QED
  BY <1>2, <1>3, <1>4, <1>5 DEF SerialInv

\* At first no command has begun and the live world is of one piece.
LEMMA InitSerial == Init => SerialInv
<1>. SUFFICES ASSUME Init PROVE SerialInv
  OBVIOUS
<1>1. AloneInv /\ StagingInv /\ HelperInv /\ PriorWorldKept
  BY DEF Init, AloneInv, StagingInv, HelperInv, PriorWorldKept
<1>2. CommandInv
  BY DEF Init, CommandInv, Knows, Untouched, Stopped, Unmixed, EmptyDir
<1>3. NeverRunsMixed
  BY DEF Init, NeverRunsMixed
<1>. QED
  BY <1>1, <1>2, <1>3 DEF SerialInv

\* Every step keeps the invariant of one command at a time.
LEMMA SerialStep == OneAtATime /\ TypeInv /\ SerialInv /\ [Next]_vars => SerialInv'
<1>. SUFFICES ASSUME OneAtATime, Parts, SerialInv, [Next]_vars PROVE SerialInv'
  BY TypeParts
<1>0. Parts'
  BY TypeParts, TypePartsNext, TypeStep
<1>1. CASE UNCHANGED vars
  <2>1. UNCHANGED <<data, staging, rollback, failed, minecraft, helpers, pc, exit, archive, prior>>
    BY <1>1 DEF vars, volume, command
  <2>2. HelperInv'
    BY <2>1 DEF SerialInv, HelperInv, CutoverAt, RollbackAt, FullRollbackAt, Restored, PartOfPrior
  <2>3. CommandInv'
    BY <2>1 DEF SerialInv, CommandInv, Knows, Untouched, Stopped, Restored, PartOfPrior, Unmixed
  <2>. QED
    BY <2>1, <2>2, <2>3
       DEF SerialInv, AloneInv, Waits, StagingInv, PriorWorldKept, NeverRunsMixed
<1>. QED
  BY <1>0, <1>1, HelperKeepsSerial, CommandStepSerial, BeginSerial, DeathSerial DEF Next

\* The whole invariant, for an operator who lets one command and its helpers
\* end before the next, and a Docker daemon that answers in time.
THEOREM RestoreSerialInvariance ==
  ASSUME OneAtATime
  PROVE  Spec => []SerialInv
<1>1. TypeInv /\ SerialInv /\ [Next]_vars => SerialInv'
  BY SerialStep
<1>. QED
  BY <1>1, InitSerial, RestoreTypeInvariance, PTL DEF Spec

\* One command at a time: no fault, death or retry costs a root of any world
\* that was live when a command began (_cutover_script, _rollback_script).
THEOREM RestoreKeepsPriorWorlds ==
  ASSUME OneAtATime
  PROVE  Spec => []PriorWorldKept
<1>1. SerialInv => PriorWorldKept
  BY DEF SerialInv
<1>. QED
  BY <1>1, RestoreSerialInvariance, PTL

\* One command at a time: the server never runs on the roots of two worlds.
THEOREM RestoreNeverRunsMixed ==
  ASSUME OneAtATime
  PROVE  Spec => []NeverRunsMixed
<1>1. SerialInv => NeverRunsMixed
  BY DEF SerialInv
<1>. QED
  BY <1>1, RestoreSerialInvariance, PTL

\* Only the doctor's success is reported as "restored", only the start of the
\* prior world as "rolled-back", and only by a command at work.
LEMMA Reports ==
  ASSUME Parts, [Next]_vars, NEW c \in Command, outcome'[c] # outcome[c]
  PROVE  /\ outcome'[c] = "restored" => pc[c] = "doctor" /\ minecraft = "running"
         /\ pc[c] = "verify-start" /\ outcome'[c] = "rolled-back" => minecraft' = "running"
<1>1. ASSUME NEW d \in Command, NEW result, Report(d, result)
      PROVE  d = c /\ outcome'[c] = result
  BY <1>1 DEF Report, Parts, ControlTypes
<1>3. CASE \E h \in helpers : ScriptStep(h) \/ ScriptFails(h)
  BY <1>3 DEF ScriptStep, ScriptFails
<1>4. CASE \E d \in Command : Die(d)
  BY <1>1, <1>4 DEF Die
<1>5. CASE (\E d \in Command, b \in Archive : Begin(d, b)) \/ UNCHANGED vars
  BY <1>5 DEF Begin, Call, vars, command
<1>6. CASE HostRestarts
  BY <1>6 DEF HostRestarts
<1>7. ASSUME NEW d \in Command, CommandStep(d)
      PROVE  /\ outcome'[c] = "restored" => pc[c] = "doctor" /\ minecraft = "running"
             /\ pc[c] = "verify-start" /\ outcome'[c] = "rolled-back" => minecraft' = "running"
  <2>1. CASE Prepare(d) \/ AfterStopFailed(d) \/ VerifyStop(d) \/ Rollback(d)
    BY <1>1, <2>1 DEF Prepare, AfterStopFailed, VerifyStop, Rollback, Call, Goto
  <2>2. CASE StopMinecraft(d) \/ StopFails(d) \/ Cutover(d) \/ StartMinecraft(d)
    BY <2>2 DEF StopMinecraft, StopFails, Cutover, StartMinecraft, Call, Goto
  <2>3. CASE Doctor(d)
    BY <1>1, <2>3 DEF Doctor, Goto
  <2>4. CASE StartPrior(d)
    BY <1>1, <2>4 DEF StartPrior
  <2>. QED
    BY <1>7, <2>1, <2>2, <2>3, <2>4 DEF CommandStep
<1>. QED
  BY <1>3, <1>4, <1>5, <1>6, <1>7 DEF Next

\* One command at a time: "restored" is reported for a server that runs on
\* every root of the archive, with the prior roots in the rollback directory.
THEOREM RestoreReportsComplete ==
  ASSUME OneAtATime
  PROVE  Spec => RestoredIsComplete
<1>1. ASSUME Parts, SerialInv, [Next]_vars,
             NEW c \in Command, outcome[c] = "none", outcome'[c] = "restored"
      PROVE  /\ minecraft = "running"
             /\ \A r \in Root : data[r] = <<archive[c]>>
             /\ rollback[archive[c]] = prior[c]
  <2>1. pc[c] = "doctor" /\ minecraft = "running"
    BY <1>1, Reports
  <2>2. Restored(c)
    BY <1>1, <2>1 DEF SerialInv, CommandInv, Knows
  <2>. QED
    BY <2>1, <2>2 DEF Restored
<1>2. TypeInv /\ SerialInv /\ [Next]_vars =>
        [\A c \in Command :
           outcome[c] = "none" /\ outcome'[c] = "restored" =>
             /\ minecraft = "running"
             /\ \A r \in Root : data[r] = <<archive[c]>>
             /\ rollback[archive[c]] = prior[c]]_vars
  BY <1>1, TypeParts
<1>. QED
  BY <1>2, RestoreTypeInvariance, RestoreSerialInvariance, PTL DEF Spec, RestoredIsComplete

\* One command at a time: "rolled-back" after a complete cutover means exactly
\* the prior world, and running.
THEOREM RestoreReportsRollback ==
  ASSUME OneAtATime
  PROVE  Spec => VerifiedRollback
<1>1. ASSUME Parts, SerialInv, [Next]_vars,
             NEW c \in Command, pc[c] = "verify-start", outcome'[c] = "rolled-back"
      PROVE  data = prior[c] /\ minecraft' = "running"
  <2>1. outcome[c] = "none"
    BY <1>1 DEF Parts, ActiveOK
  <2>2. minecraft' = "running"
    BY <1>1, <2>1, Reports
  <2>3. data = prior[c]
    BY <1>1 DEF SerialInv, CommandInv, Knows
  <2>. QED
    BY <2>2, <2>3
<1>2. TypeInv /\ SerialInv /\ [Next]_vars =>
        [\A c \in Command :
           pc[c] = "verify-start" /\ outcome'[c] = "rolled-back" =>
             data = prior[c] /\ minecraft' = "running"]_vars
  BY <1>1, TypeParts
<1>. QED
  BY <1>2, RestoreTypeInvariance, RestoreSerialInvariance, PTL DEF Spec, VerifiedRollback
=============================================================================
