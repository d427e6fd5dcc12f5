---------------------------- MODULE ArtifactStore ----------------------------
(***************************************************************************)
(* The content-addressed artifact store (artifacts.py): `mcrctl artifact   *)
(* fetch`, the fetches of an interface apply, and `mcrctl artifact         *)
(* import-reviewed` share one directory and hold no lock.  A call writes   *)
(* into a temporary file of its own, hashes it, and links it to its        *)
(* digest.  Any number of calls may overlap; each may be killed anywhere,  *)
(* and the host may lose power.                                            *)
(*                                                                         *)
(* A file's content is "cached" when its bytes are right but still in the  *)
(* page cache, "whole" once they are on the disk, "part" while it grows    *)
(* and "bad" when its digest is another one.                               *)
(***************************************************************************)
EXTENDS Naturals, FiniteSets

CONSTANTS Process,    \* calls that may overlap
          Artifacts,  \* number of artifacts the lock names, in its order
          Https,      \* those of kind https-file; the others are git-build
          Damaged,    \* entries that do not have their digest at first
          MaxFaults   \* bound: failures, kills and power losses, all in all

Artifact == 1..Artifacts

ASSUME StoreAssumption ==
  /\ Artifacts \in Nat
  /\ Https \subseteq Artifact
  /\ Damaged \subseteq Artifact
  /\ MaxFaults \in Nat

VARIABLES entry,      \* entry[a]: the file sha256/<digest of a>, or "absent"
          durable,    \* artifacts whose directory entry has reached the disk
          pc,         \* pc[p]: where call p is
          at,         \* at[p]: the artifact it works on
          temp,       \* temp[p]: its temporary file, or "none"
          verdict,    \* verdict[p][a]: what it answers for artifact a
          faults      \* failures so far

vars == <<entry, durable, pc, at, temp, verdict, faults>>

Unanswered == [a \in Artifact |-> "none"]

Content == {"part", "cached", "whole", "bad"}

TypeOK ==
  /\ entry \in [Artifact -> {"absent"} \cup Content]
  /\ durable \in SUBSET Artifact
  /\ pc \in [Process -> {"idle", "check", "open", "copy", "flush", "digest",
                         "recheck", "link", "exists", "sync", "unlink"}]
  /\ at \in [Process -> Artifact \cup {0}]
  /\ temp \in [Process -> {"none"} \cup Content]
  /\ verdict \in [Process -> [Artifact -> {"none", "failed", "present", "stored"}]]
  /\ faults \in 0..MaxFaults

Init ==
  /\ entry = [a \in Artifact |-> IF a \in Damaged THEN "bad" ELSE "absent"]
  /\ durable = Damaged
  /\ pc = [p \in Process |-> "idle"]
  /\ at = [p \in Process |-> 0]
  /\ temp = [p \in Process |-> "none"]
  /\ verdict = [p \in Process |-> Unanswered]
  /\ faults = 0

Goto(p, from, to) == pc[p] = from /\ pc' = [pc EXCEPT ![p] = to]

Answer(p, v) == verdict' = [verdict EXCEPT ![p][at[p]] = v]

Fault == faults < MaxFaults /\ faults' = faults + 1

store == <<entry, durable>>

(* _verify_store_entry: the entry's bytes are hashed; a wrong digest, or   *)
(* anything but a regular file, raises artifact_store_tampered.            *)
Verified(a) == entry[a] \in {"whole", "cached"}
Tampered(a) == entry[a] \in {"bad", "part"}

(* The artifact a fetch takes up after `a`: the locked order, HTTPS only.  *)
Later(a) == {b \in Https : b > a}
FirstOf(S) == {b \in S : \A c \in S : b <= c}
-----------------------------------------------------------------------------
(* fetch_locked_artifacts: lock and store directory are good, the first    *)
(* HTTPS artifact is taken up.                                             *)
Fetch(p) ==
  /\ Goto(p, "idle", "check")
  /\ \E a \in FirstOf(Https) : at' = [at EXCEPT ![p] = a]
  /\ verdict' = [verdict EXCEPT ![p] = Unanswered]
  /\ UNCHANGED <<store, temp, faults>>

(* import_reviewed_artifact of a git-build output the lock names.          *)
Import(p) ==
  /\ Goto(p, "idle", "open")
  /\ \E a \in Artifact \ Https : at' = [at EXCEPT ![p] = a]
  /\ verdict' = [verdict EXCEPT ![p] = Unanswered]
  /\ UNCHANGED <<store, temp, faults>>

(* Mutant: the fetch returns after its first artifact.                     *)
ProceedOnce(p) == pc' = [pc EXCEPT ![p] = "idle"] /\ UNCHANGED at

(* The fetch of one artifact is over: the next one, or the list is done.   *)
Proceed(p) ==
  IF at[p] \in Https /\ Later(at[p]) # {}
  THEN /\ pc' = [pc EXCEPT ![p] = "check"]
       /\ \E a \in FirstOf(Later(at[p])) : at' = [at EXCEPT ![p] = a]
  ELSE pc' = [pc EXCEPT ![p] = "idle"] /\ UNCHANGED at

CheckPresent(p) ==
  /\ pc[p] = "check"
  /\ \/ /\ Verified(at[p])
        /\ Answer(p, "present")
        /\ Proceed(p)
     \/ /\ Tampered(at[p])
        /\ Answer(p, "failed")
        /\ Goto(p, "check", "idle")
        /\ UNCHANGED at
     \/ /\ entry[at[p]] = "absent"
        /\ Goto(p, "check", "open")
        /\ UNCHANGED <<at, verdict>>
  /\ UNCHANGED <<store, temp, faults>>

(* The response, or the reviewed file, is opened; a temporary file is made.*)
Open(p) ==
  /\ Goto(p, "open", "copy")
  /\ temp' = [temp EXCEPT ![p] = "part"]
  /\ UNCHANGED <<store, at, verdict, faults>>

OpenFails(p) ==
  /\ Goto(p, "open", "idle")
  /\ Fault
  /\ Answer(p, "failed")
  /\ UNCHANGED <<store, at, temp>>

(* All chunks are in; at the end of a wrong stream the file is bad.        *)
Copy(p) ==
  /\ Goto(p, "copy", "flush")
  /\ \/ temp' = [temp EXCEPT ![p] = "cached"] /\ UNCHANGED faults
     \/ temp' = [temp EXCEPT ![p] = "bad"] /\ Fault
  /\ UNCHANGED <<store, at, verdict>>

(* Mutant: no fsync of the temporary file.                                 *)
FlushUnsynced(p) ==
  /\ Goto(p, "flush", "digest")
  /\ UNCHANGED <<store, at, temp, verdict, faults>>

(* temporary.flush(); os.fsync(): the bytes reach the disk.                *)
Flush(p) ==
  /\ Goto(p, "flush", "digest")
  /\ temp' = [temp EXCEPT ![p] = IF @ = "cached" THEN "whole" ELSE @]
  /\ UNCHANGED <<store, at, verdict, faults>>

(* Mutants: the digest is not compared; the temporary file is closed, and  *)
(* thereby deleted, before it is linked.                                   *)
CheckNoDigest(p) ==
  /\ Goto(p, "digest", IF at[p] \in Https THEN "link" ELSE "recheck")
  /\ UNCHANGED <<store, at, temp, verdict, faults>>

CheckAndClose(p) ==
  /\ Goto(p, "digest", IF at[p] \in Https THEN "link" ELSE "recheck")
  /\ temp' = [temp EXCEPT ![p] = "none"]
  /\ UNCHANGED <<store, at, verdict, faults>>

(* The digest of the copied bytes against the lock; an import then looks   *)
(* at the entry before it links, a fetch did so before it downloaded.      *)
CheckDigest(p) ==
  /\ \/ /\ temp[p] = "bad"
        /\ Goto(p, "digest", "unlink")
        /\ Answer(p, "failed")
     \/ /\ temp[p] # "bad"
        /\ Goto(p, "digest", IF at[p] \in Https THEN "link" ELSE "recheck")
        /\ UNCHANGED verdict
  /\ UNCHANGED <<store, at, temp, faults>>

Recheck(p) ==
  /\ pc[p] = "recheck"
  /\ \/ Verified(at[p]) /\ Goto(p, "recheck", "unlink") /\ Answer(p, "present")
     \/ Tampered(at[p]) /\ Goto(p, "recheck", "unlink") /\ Answer(p, "failed")
     \/ entry[at[p]] = "absent" /\ Goto(p, "recheck", "link") /\ UNCHANGED verdict
  /\ UNCHANGED <<store, at, temp, faults>>

(* os.link(temporary, destination): atomic, and it never replaces.         *)
Link(p) ==
  /\ pc[p] = "link"
  /\ \/ /\ entry[at[p]] = "absent"
        /\ Goto(p, "link", "sync")
        /\ entry' = [entry EXCEPT ![at[p]] = temp[p]]
     \/ /\ entry[at[p]] # "absent"
        /\ Goto(p, "link", "exists")
        /\ UNCHANGED entry
  /\ UNCHANGED <<durable, at, temp, verdict, faults>>

(* FileExistsError: somebody else's entry is verified; an entry that is    *)
(* gone by now is taken for present, for the answer is not looked at.      *)
Exists(p) ==
  /\ Goto(p, "exists", "unlink")
  /\ Answer(p, IF Tampered(at[p]) THEN "failed" ELSE "present")
  /\ UNCHANGED <<store, at, temp, faults>>

(* fsync of the directory: every entry in it is on the disk from now on.   *)
SyncDir(p) ==
  /\ Goto(p, "sync", "unlink")
  /\ durable' = {a \in Artifact : entry[a] # "absent"}
  /\ Answer(p, "stored")
  /\ UNCHANGED <<entry, at, temp, faults>>

(* An OSError anywhere in the try block: failed, through the finally.      *)
WriteFails(p) ==
  /\ pc[p] \in {"copy", "flush", "link", "sync"}
  /\ Goto(p, pc[p], "unlink")
  /\ Fault
  /\ Answer(p, "failed")
  /\ UNCHANGED <<store, at, temp>>

(* The finally clause removes the temporary file, and the call returns or  *)
(* takes up the next artifact.  One failure ends a fetch.                  *)
Unlink(p) ==
  /\ pc[p] = "unlink"
  /\ temp' = [temp EXCEPT ![p] = "none"]
  /\ IF verdict[p][at[p]] = "failed"
     THEN pc' = [pc EXCEPT ![p] = "idle"] /\ UNCHANGED at
     ELSE Proceed(p)
  /\ UNCHANGED <<store, verdict, faults>>

(* The process is killed; its temporary file stays under a name that no    *)
(* call ever reads.                                                        *)
Kill(p) ==
  /\ pc[p] # "idle"
  /\ Fault
  /\ pc' = [pc EXCEPT ![p] = "idle"]
  /\ temp' = [temp EXCEPT ![p] = "none"]
  /\ Answer(p, "failed")
  /\ UNCHANGED <<store, at>>

(* Power is lost: directory entries that were not synced may be gone, and  *)
(* a file that was not flushed has lost its bytes.                         *)
PowerLoss ==
  /\ Fault
  /\ \E lost \in SUBSET (Artifact \ durable) :
       entry' = [a \in Artifact |-> IF a \in lost THEN "absent"
                                    ELSE IF entry[a] = "cached" THEN "bad" ELSE entry[a]]
  /\ durable' = {a \in Artifact : entry'[a] # "absent"}
  /\ pc' = [p \in Process |-> "idle"]
  /\ temp' = [p \in Process |-> "none"]
  /\ verdict' = [p \in Process |-> Unanswered]
  /\ UNCHANGED at

(* The operator removes an entry that calls refuse as tampered.            *)
RemoveTampered(a) ==
  /\ entry[a] = "bad"
  /\ entry' = [entry EXCEPT ![a] = "absent"]
  /\ durable' = durable \ {a}
  /\ UNCHANGED <<pc, at, temp, verdict, faults>>
-----------------------------------------------------------------------------
Work(p) ==
  \/ CheckPresent(p) \/ Open(p) \/ Copy(p) \/ Flush(p) \/ CheckDigest(p)
  \/ Recheck(p) \/ Link(p) \/ Exists(p) \/ SyncDir(p) \/ Unlink(p)

Next ==
  \/ \E p \in Process :
       Fetch(p) \/ Import(p) \/ Work(p) \/ OpenFails(p) \/ WriteFails(p) \/ Kill(p)
  \/ PowerLoss
  \/ \E a \in Artifact : RemoveTampered(a)

Spec == Init /\ [][Next]_vars

(* A call that has begun goes on; one that failed is made again, a fetch   *)
(* and an import both; the operator removes what is refused as tampered.   *)
Fairness ==
  /\ \A p \in Process : WF_vars(Work(p))
  /\ \A p \in Process : SF_vars(Fetch(p))
  /\ \A p \in Process : \A a \in Artifact \ Https : SF_vars(Import(p) /\ at'[p] = a)
  /\ \A a \in Artifact : WF_vars(RemoveTampered(a))

FairSpec == Spec /\ Fairness
-----------------------------------------------------------------------------
(* The store is a content-addressed one: whoever mounts sha256/<digest>    *)
(* while calls overlap, die and lose power sees no entry, or the whole     *)
(* file, and never one that is replaced; a synced entry is never lost.     *)
Promise == INSTANCE ContentStore
StoreIsImmutable == Promise!Spec

(* A call that answered `fetched` or `imported` (artifacts.py:241, 481)    *)
(* has left a whole file that survives the loss of power.                  *)
StoredIsDurable ==
  \A p \in Process, a \in Artifact :
    verdict[p][a] = "stored" => entry[a] = "whole" /\ a \in durable

(* `present` is answered of a whole entry only, whoever put it there and   *)
(* however the race for the link ended.                                    *)
PresentIsWhole ==
  \A p \in Process, a \in Artifact : verdict[p][a] = "present" => entry[a] = "whole"

(* Both: what a fetch or an import reports of an artifact is true of it.   *)
AnswersAreTrue == StoredIsDurable /\ PresentIsWhole

(* Whatever calls overlap and however they fail, once failures stop every  *)
(* artifact of the lock gets into the store and stays there.               *)
EverythingStored == <>[](\A a \in Artifact : entry[a] = "whole")
=============================================================================
