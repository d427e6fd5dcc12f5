------------------------- MODULE ArtifactStore_proofs -------------------------
(***************************************************************************)
(* Proofs about ArtifactStore, for any number of calls, any artifacts of   *)
(* either kind, any damaged entries and any number of faults.              *)
(***************************************************************************)
EXTENDS ArtifactStore, TLAPS

(***************************************************************************)
(* The inductive invariant, in parts.                                      *)
(***************************************************************************)

\* A call at work has an artifact, and its temporary file is as far as its
\* step: flushed before it is hashed, hashed before it is linked.
TempInv ==
  \A p \in Process :
    /\ pc[p] # "idle" => at[p] \in Artifact
    /\ pc[p] = "flush" => temp[p] \in {"cached", "bad"}
    /\ pc[p] = "digest" => temp[p] \in {"whole", "bad"}
    /\ pc[p] \in {"recheck", "link"} => temp[p] = "whole"

\* No entry is partial or only cached, and one that a call has found absent
\* is never bad again.
EntryInv ==
  /\ \A a \in Artifact : entry[a] \in {"absent", "whole", "bad"}
  /\ \A p \in Process :
       /\ pc[p] \in {"open", "copy", "flush", "digest"} /\ at[p] \in Https =>
            entry[at[p]] # "bad"
       /\ pc[p] = "link" => entry[at[p]] # "bad"
       /\ pc[p] \in {"exists", "sync"} => entry[at[p]] = "whole"

IInv == TypeOK /\ TempInv /\ EntryInv /\ AnswersAreTrue

\* Steps that touch neither the store nor what is answered preserve the
\* part of the invariant about answers.
LEMMA SameAnswers ==
  ASSUME AnswersAreTrue, UNCHANGED <<entry, durable, verdict>>
  PROVE  AnswersAreTrue'
  BY DEF AnswersAreTrue, StoredIsDurable, PresentIsWhole

\* An answer of failure never makes an answer untrue.
LEMMA FailedAnswer ==
  ASSUME IInv, NEW p \in Process, at[p] \in Artifact, Answer(p, "failed"),
         UNCHANGED <<entry, durable>>
  PROVE  /\ AnswersAreTrue'
         /\ verdict' \in [Process -> [Artifact -> {"none", "failed", "present", "stored"}]]
  BY DEF IInv, TypeOK, Answer, AnswersAreTrue, StoredIsDurable, PresentIsWhole

\* `present` is a true answer for an entry that is whole.
LEMMA PresentAnswer ==
  ASSUME IInv, NEW p \in Process, at[p] \in Artifact, entry[at[p]] = "whole",
         Answer(p, "present"), UNCHANGED <<entry, durable>>
  PROVE  /\ AnswersAreTrue'
         /\ verdict' \in [Process -> [Artifact -> {"none", "failed", "present", "stored"}]]
  BY DEF IInv, TypeOK, Answer, AnswersAreTrue, StoredIsDurable, PresentIsWhole

\* Forgetting the answers of one call makes none of them untrue.
LEMMA NoAnswer ==
  ASSUME IInv, NEW p \in Process, verdict' = [verdict EXCEPT ![p] = Unanswered],
         UNCHANGED <<entry, durable>>
  PROVE  /\ AnswersAreTrue'
         /\ verdict' \in [Process -> [Artifact -> {"none", "failed", "present", "stored"}]]
  BY DEF IInv, TypeOK, Unanswered, AnswersAreTrue, StoredIsDurable, PresentIsWhole

\* The count of faults stays within its bound.
LEMMA FaultType ==
  ASSUME IInv, Fault
  PROVE  faults' \in 0..MaxFaults
  BY StoreAssumption DEF Fault, IInv, TypeOK

\* HTTPS artifacts are artifacts, and so is the first of any of them.
LEMMA FirstIsArtifact ==
  /\ \A a \in FirstOf(Https) : a \in Artifact
  /\ \A b \in Artifact : \A a \in FirstOf(Later(b)) : a \in Artifact
  BY StoreAssumption DEF FirstOf, Later

\* The end of one artifact leads to the next one or out of the call.
LEMMA ProceedPlace ==
  ASSUME IInv, NEW p \in Process, at[p] \in Artifact, Proceed(p)
  PROVE  /\ pc' \in [Process -> {"idle", "check", "open", "copy", "flush", "digest",
                                 "recheck", "link", "exists", "sync", "unlink"}]
         /\ at' \in [Process -> Artifact \cup {0}]
         /\ pc'[p] \in {"idle", "check"}
         /\ pc'[p] # "idle" => at'[p] \in Artifact
         /\ \A q \in Process \ {p} : pc'[q] = pc[q] /\ at'[q] = at[q]
<1>. DEFINE Places == {"idle", "check", "open", "copy", "flush", "digest",
                       "recheck", "link", "exists", "sync", "unlink"}
<1>1. pc \in [Process -> Places] /\ at \in [Process -> Artifact \cup {0}]
  BY DEF IInv, TypeOK
<1>2. \/ pc' = [pc EXCEPT ![p] = "idle"] /\ at' = at
      \/ \E a \in Artifact :
           pc' = [pc EXCEPT ![p] = "check"] /\ at' = [at EXCEPT ![p] = a]
  BY FirstIsArtifact DEF Proceed
<1>. QED
  BY <1>1, <1>2

(***************************************************************************)
(* Invariance                                                              *)
(***************************************************************************)

\* The store starts with whole or damaged entries and no call at work.
LEMMA InitInv == Init => IInv
  BY StoreAssumption
     DEF Init, IInv, TypeOK, TempInv, EntryInv, AnswersAreTrue, StoredIsDurable,
         PresentIsWhole, Unanswered, Content

\* A call that begins, takes up an artifact or fails to open its source.
LEMMA BeginInv ==
  ASSUME IInv, NEW p \in Process, Fetch(p) \/ Import(p) \/ Open(p) \/ OpenFails(p)
  PROVE  IInv'
<1>1. CASE Fetch(p)
  <2>1. PICK a \in FirstOf(Https) : at' = [at EXCEPT ![p] = a]
    BY <1>1 DEF Fetch
  <2>2. a \in Artifact
    BY FirstIsArtifact
  <2>3. AnswersAreTrue' /\ verdict' \in [Process -> [Artifact -> {"none", "failed", "present", "stored"}]]
    BY <1>1, NoAnswer DEF Fetch, store
  <2>. QED
    BY <1>1, <2>1, <2>2, <2>3
       DEF Fetch, Goto, store, IInv, TypeOK, TempInv, EntryInv
<1>2. CASE Import(p)
  <2>1. PICK a \in Artifact \ Https : at' = [at EXCEPT ![p] = a]
    BY <1>2 DEF Import
  <2>2. AnswersAreTrue' /\ verdict' \in [Process -> [Artifact -> {"none", "failed", "present", "stored"}]]
    BY <1>2, NoAnswer DEF Import, store
  <2>. QED
    BY <1>2, <2>1, <2>2
       DEF Import, Goto, store, IInv, TypeOK, TempInv, EntryInv
<1>3. CASE Open(p)
  <2>1. AnswersAreTrue'
    BY <1>3, SameAnswers DEF IInv, Open, store
  <2>. QED
    BY <1>3, <2>1 DEF Open, Goto, store, IInv, TypeOK, TempInv, EntryInv, Content
<1>4. CASE OpenFails(p)
  <2>1. at[p] \in Artifact
    BY <1>4 DEF OpenFails, Goto, IInv, TempInv
  <2>2. AnswersAreTrue' /\ verdict' \in [Process -> [Artifact -> {"none", "failed", "present", "stored"}]]
    BY <1>4, <2>1, FailedAnswer DEF OpenFails, store
  <2>. QED
    BY <1>4, <2>2, FaultType
       DEF OpenFails, Goto, store, IInv, TypeOK, TempInv, EntryInv
<1>. QED
  BY <1>1, <1>2, <1>3, <1>4

\* Going on to the next artifact keeps the invariant, whatever happens to
\* the temporary file of the call.
LEMMA ProceedInv ==
  ASSUME IInv, NEW p \in Process, at[p] \in Artifact, Proceed(p), AnswersAreTrue',
         UNCHANGED <<store, faults>>,
         temp' = temp \/ temp' = [temp EXCEPT ![p] = "none"],
         verdict' \in [Process -> [Artifact -> {"none", "failed", "present", "stored"}]]
  PROVE  IInv'
<1>1. \A q \in Process \ {p} : pc'[q] = pc[q] /\ at'[q] = at[q] /\ temp'[q] = temp[q]
  BY ProceedPlace DEF IInv, TypeOK
<1>2. pc'[p] \in {"idle", "check"} /\ (pc'[p] # "idle" => at'[p] \in Artifact)
  BY ProceedPlace
<1>3. TypeOK'
  BY ProceedPlace DEF IInv, TypeOK, store
<1>4. TempInv'
  BY <1>1, <1>2 DEF IInv, TempInv
<1>5. EntryInv'
  BY <1>1, <1>2 DEF IInv, EntryInv, store
<1>. QED
  BY <1>3, <1>4, <1>5 DEF IInv

\* The look at the entry before a download.
LEMMA CheckPresentInv ==
  ASSUME IInv, NEW p \in Process, CheckPresent(p)
  PROVE  IInv'
<1>. at[p] \in Artifact /\ pc[p] = "check" /\ UNCHANGED <<store, temp, faults>>
  BY DEF CheckPresent, IInv, TempInv
<1>1. CASE Verified(at[p]) /\ Answer(p, "present") /\ Proceed(p)
  <2>1. AnswersAreTrue' /\ verdict' \in [Process -> [Artifact -> {"none", "failed", "present", "stored"}]]
    BY <1>1, PresentAnswer DEF Verified, IInv, EntryInv, store
  <2>. QED
    BY <1>1, <2>1, ProceedInv
<1>2. CASE Tampered(at[p]) /\ Answer(p, "failed") /\ Goto(p, "check", "idle") /\ UNCHANGED at
  <2>1. AnswersAreTrue' /\ verdict' \in [Process -> [Artifact -> {"none", "failed", "present", "stored"}]]
    BY <1>2, FailedAnswer DEF store
  <2>. QED
    BY <1>2, <2>1 DEF Goto, store, IInv, TypeOK, TempInv, EntryInv
<1>3. CASE entry[at[p]] = "absent" /\ Goto(p, "check", "open") /\ UNCHANGED <<at, verdict>>
  <2>1. AnswersAreTrue'
    BY <1>3, SameAnswers DEF IInv, store
  <2>. QED
    BY <1>3, <2>1 DEF Goto, store, IInv, TypeOK, TempInv, EntryInv
<1>. QED
  BY <1>1, <1>2, <1>3 DEF CheckPresent

\* The temporary file is filled, flushed and hashed; the entry looked at.
LEMMA TemporaryInv ==
  ASSUME IInv, NEW p \in Process, Copy(p) \/ Flush(p) \/ CheckDigest(p) \/ Recheck(p)
  PROVE  IInv'
<1>1. CASE Copy(p)
  <2>1. AnswersAreTrue'
    BY <1>1, SameAnswers DEF IInv, Copy, store
  <2>2. PICK b \in {"cached", "bad"} : temp' = [temp EXCEPT ![p] = b]
    BY <1>1 DEF Copy
  <2>3. faults' \in 0..MaxFaults
    BY <1>1, FaultType DEF Copy, IInv, TypeOK
  <2>. QED
    BY <1>1, <2>1, <2>2, <2>3
       DEF Copy, Goto, store, IInv, TypeOK, TempInv, EntryInv, Content
<1>2. CASE Flush(p)
  <2>1. AnswersAreTrue'
    BY <1>2, SameAnswers DEF IInv, Flush, store
  <2>. QED
    BY <1>2, <2>1 DEF Flush, Goto, store, IInv, TypeOK, TempInv, EntryInv, Content
<1>3. CASE CheckDigest(p)
  <2>. at[p] \in Artifact /\ temp[p] \in {"whole", "bad"}
    BY <1>3 DEF CheckDigest, Goto, IInv, TempInv
  <2>1. CASE temp[p] = "bad" /\ Goto(p, "digest", "unlink") /\ Answer(p, "failed")
    <3>1. AnswersAreTrue' /\ verdict' \in [Process -> [Artifact -> {"none", "failed", "present", "stored"}]]
      BY <1>3, <2>1, FailedAnswer DEF CheckDigest, store
    <3>. QED
      BY <1>3, <2>1, <3>1 DEF CheckDigest, Goto, store, IInv, TypeOK, TempInv, EntryInv
  <2>2. CASE temp[p] # "bad" /\ UNCHANGED verdict
             /\ Goto(p, "digest", IF at[p] \in Https THEN "link" ELSE "recheck")
    <3>1. AnswersAreTrue'
      BY <1>3, <2>2, SameAnswers DEF IInv, CheckDigest, store
    <3>. QED
      BY <1>3, <2>2, <3>1 DEF CheckDigest, Goto, store, IInv, TypeOK, TempInv, EntryInv
  <2>. QED
    BY <1>3, <2>1, <2>2 DEF CheckDigest
<1>4. CASE Recheck(p)
  <2>. at[p] \in Artifact /\ UNCHANGED <<store, at, temp, faults>>
    BY <1>4 DEF Recheck, IInv, TempInv
  <2>1. CASE Verified(at[p]) /\ Goto(p, "recheck", "unlink") /\ Answer(p, "present")
    <3>1. AnswersAreTrue' /\ verdict' \in [Process -> [Artifact -> {"none", "failed", "present", "stored"}]]
      BY <2>1, PresentAnswer DEF Verified, IInv, EntryInv, store
    <3>. QED
      BY <2>1, <3>1 DEF Goto, store, IInv, TypeOK, TempInv, EntryInv
  <2>2. CASE Tampered(at[p]) /\ Goto(p, "recheck", "unlink") /\ Answer(p, "failed")
    <3>1. AnswersAreTrue' /\ verdict' \in [Process -> [Artifact -> {"none", "failed", "present", "stored"}]]
      BY <2>2, FailedAnswer DEF store
    <3>. QED
      BY <2>2, <3>1 DEF Goto, store, IInv, TypeOK, TempInv, EntryInv
  <2>3. CASE entry[at[p]] = "absent" /\ Goto(p, "recheck", "link") /\ UNCHANGED verdict
    <3>1. AnswersAreTrue'
      BY <2>3, SameAnswers DEF IInv, store
    <3>. QED
      BY <2>3, <3>1 DEF Goto, store, IInv, TypeOK, TempInv, EntryInv
  <2>. QED
    BY <1>4, <2>1, <2>2, <2>3 DEF Recheck
<1>. QED
  BY <1>1, <1>2, <1>3, <1>4

\* The link: an entry appears whole, or it is left to whoever was first.
LEMMA LinkInv ==
  ASSUME IInv, NEW p \in Process, Link(p) \/ Exists(p) \/ SyncDir(p)
  PROVE  IInv'
<1>1. CASE Link(p)
  <2>. at[p] \in Artifact /\ temp[p] = "whole" /\ entry[at[p]] \in {"absent", "whole"}
    BY <1>1 DEF Link, IInv, TempInv, EntryInv
  <2>1. CASE /\ entry[at[p]] = "absent"
             /\ Goto(p, "link", "sync")
             /\ entry' = [entry EXCEPT ![at[p]] = temp[p]]
    <3>1. \A a \in Artifact : entry'[a] = entry[a] \/ (entry[a] = "absent" /\ entry'[a] = "whole")
      BY <2>1 DEF IInv, TypeOK
    <3>2. AnswersAreTrue'
      BY <1>1, <3>1 DEF Link, IInv, AnswersAreTrue, StoredIsDurable, PresentIsWhole
    <3>3. TypeOK' /\ TempInv'
      BY <1>1, <2>1 DEF Link, Goto, IInv, TypeOK, TempInv, Content
    <3>4. EntryInv'
      BY <1>1, <2>1, <3>1 DEF Link, Goto, IInv, TypeOK, TempInv, EntryInv
    <3>. QED
      BY <3>2, <3>3, <3>4 DEF IInv
  <2>2. CASE entry[at[p]] # "absent" /\ Goto(p, "link", "exists") /\ UNCHANGED entry
    <3>1. AnswersAreTrue'
      BY <1>1, <2>2, SameAnswers DEF IInv, Link
    <3>. QED
      BY <1>1, <2>2, <3>1 DEF Link, Goto, IInv, TypeOK, TempInv, EntryInv
  <2>. QED
    BY <1>1, <2>1, <2>2 DEF Link
<1>2. CASE Exists(p)
  <2>. at[p] \in Artifact /\ entry[at[p]] = "whole"
    BY <1>2 DEF Exists, Goto, IInv, TempInv, EntryInv
  <2>1. AnswersAreTrue' /\ verdict' \in [Process -> [Artifact -> {"none", "failed", "present", "stored"}]]
    BY <1>2, PresentAnswer DEF Exists, Tampered, store
  <2>. QED
    BY <1>2, <2>1 DEF Exists, Goto, store, IInv, TypeOK, TempInv, EntryInv
<1>3. CASE SyncDir(p)
  <2>. at[p] \in Artifact /\ entry[at[p]] = "whole"
    BY <1>3 DEF SyncDir, Goto, IInv, TempInv, EntryInv
  <2>1. \A q \in Process, a \in Artifact :
          verdict'[q][a] = verdict[q][a] \/ (q = p /\ a = at[p] /\ verdict'[q][a] = "stored")
    BY <1>3 DEF SyncDir, Answer, IInv, TypeOK
  <2>2. AnswersAreTrue'
    BY <1>3, <2>1 DEF SyncDir, IInv, AnswersAreTrue, StoredIsDurable, PresentIsWhole
  <2>3. verdict' \in [Process -> [Artifact -> {"none", "failed", "present", "stored"}]]
    BY <1>3 DEF SyncDir, Answer, IInv, TypeOK
  <2>. QED
    BY <1>3, <2>2, <2>3 DEF SyncDir, Goto, IInv, TypeOK, TempInv, EntryInv
<1>. QED
  BY <1>1, <1>2, <1>3

\* A write that fails, the removal of the temporary file, and a kill.
LEMMA EndInv ==
  ASSUME IInv, NEW p \in Process, WriteFails(p) \/ Unlink(p) \/ Kill(p)
  PROVE  IInv'
<1>1. CASE WriteFails(p)
  <2>. at[p] \in Artifact
    BY <1>1 DEF WriteFails, IInv, TempInv
  <2>1. AnswersAreTrue' /\ verdict' \in [Process -> [Artifact -> {"none", "failed", "present", "stored"}]]
    BY <1>1, FailedAnswer DEF WriteFails, store
  <2>. QED
    BY <1>1, <2>1, FaultType
       DEF WriteFails, Goto, store, IInv, TypeOK, TempInv, EntryInv
<1>2. CASE Unlink(p)
  <2>. at[p] \in Artifact /\ UNCHANGED <<store, verdict, faults>>
       /\ temp' = [temp EXCEPT ![p] = "none"]
    BY <1>2 DEF Unlink, IInv, TempInv
  <2>1. AnswersAreTrue'
    BY SameAnswers DEF IInv, store
  <2>2. CASE pc' = [pc EXCEPT ![p] = "idle"] /\ UNCHANGED at
    BY <2>1, <2>2 DEF store, IInv, TypeOK, TempInv, EntryInv
  <2>3. CASE Proceed(p)
    BY <2>1, <2>3, ProceedInv DEF IInv, TypeOK
  <2>. QED
    BY <1>2, <2>2, <2>3 DEF Unlink
<1>3. CASE Kill(p)
  <2>. at[p] \in Artifact
    BY <1>3 DEF Kill, IInv, TempInv
  <2>1. AnswersAreTrue' /\ verdict' \in [Process -> [Artifact -> {"none", "failed", "present", "stored"}]]
    BY <1>3, FailedAnswer DEF Kill, store
  <2>. QED
    BY <1>3, <2>1, FaultType DEF Kill, store, IInv, TypeOK, TempInv, EntryInv
<1>. QED
  BY <1>1, <1>2, <1>3

\* A power failure: no entry is only cached, hence none turns bad.
LEMMA PowerLossInv ==
  ASSUME IInv, PowerLoss
  PROVE  IInv'
<1>1. PICK lost \in SUBSET (Artifact \ durable) :
        entry' = [a \in Artifact |-> IF a \in lost THEN "absent"
                                     ELSE IF entry[a] = "cached" THEN "bad" ELSE entry[a]]
  BY DEF PowerLoss
<1>2. faults' \in 0..MaxFaults
  BY FaultType DEF PowerLoss
<1>3. TypeOK'
  BY <1>1, <1>2 DEF PowerLoss, Unanswered, Content, IInv, TypeOK
<1>4. TempInv' /\ EntryInv'
  BY <1>1 DEF PowerLoss, IInv, TempInv, EntryInv
<1>5. AnswersAreTrue'
  BY DEF PowerLoss, Unanswered, AnswersAreTrue, StoredIsDurable, PresentIsWhole
<1>. QED
  BY <1>3, <1>4, <1>5 DEF IInv

\* The operator removes an entry that no answer speaks of.
LEMMA RemoveTamperedInv ==
  ASSUME IInv, NEW a \in Artifact, RemoveTampered(a)
  PROVE  IInv'
<1>1. \A b \in Artifact : entry'[b] = IF b = a THEN "absent" ELSE entry[b]
  BY DEF RemoveTampered, IInv, TypeOK
<1>2. AnswersAreTrue'
  BY <1>1 DEF RemoveTampered, IInv, AnswersAreTrue, StoredIsDurable, PresentIsWhole
<1>3. TypeOK' /\ TempInv'
  BY DEF RemoveTampered, IInv, TypeOK, TempInv, Content
<1>4. EntryInv'
  BY <1>1 DEF RemoveTampered, IInv, TypeOK, TempInv, EntryInv
<1>. QED
  BY <1>2, <1>3, <1>4 DEF IInv

\* No step of any call, of the operator or of the power supply breaks it.
LEMMA StepInv == IInv /\ [Next]_vars => IInv'
<1>. SUFFICES ASSUME IInv, [Next]_vars PROVE IInv'
  OBVIOUS
<1>1. ASSUME NEW p \in Process,
             Fetch(p) \/ Import(p) \/ Work(p) \/ OpenFails(p) \/ WriteFails(p) \/ Kill(p)
      PROVE  IInv'
  BY <1>1, BeginInv, CheckPresentInv, TemporaryInv, LinkInv, EndInv DEF Work
<1>2. CASE UNCHANGED vars
  BY <1>2 DEF vars, IInv, TypeOK, TempInv, EntryInv, AnswersAreTrue, StoredIsDurable,
              PresentIsWhole
<1>. QED
  BY <1>1, <1>2, PowerLossInv, RemoveTamperedInv DEF Next

\* The invariant on which the theorems below rest.
THEOREM StoreInvariance == Spec => []IInv
  BY InitInv, StepInv, PTL DEF Spec

\* The variables keep their types (artifacts.py:164-499).
THEOREM StoreTypeCorrect == Spec => []TypeOK
<1>1. IInv => TypeOK
  BY DEF IInv
<1>. QED
  BY <1>1, StoreInvariance, PTL

\* `fetched` and `imported` mean whole and durable, `present` means whole,
\* for any number of calls and faults.
THEOREM AnswersTrue == Spec => []AnswersAreTrue
<1>1. IInv => AnswersAreTrue
  BY DEF IInv
<1>. QED
  BY <1>1, StoreInvariance, PTL

(***************************************************************************)
(* Refinement of ContentStore                                              *)
(***************************************************************************)

\* A step of a call leaves the store alone but for the link, which puts a
\* whole file under an absent name, and the fsync of the directory.
LEMMA CallSimulates ==
  ASSUME IInv, NEW p \in Process,
         Fetch(p) \/ Import(p) \/ Work(p) \/ OpenFails(p) \/ WriteFails(p) \/ Kill(p)
  PROVE  [Promise!Next]_<<entry, durable>>
<1>1. CASE Link(p)
  <2>. at[p] \in Artifact /\ temp[p] = "whole"
    BY <1>1 DEF Link, IInv, TempInv
  <2>. QED
    BY <1>1 DEF Link, Promise!Next, Promise!Put
<1>2. CASE SyncDir(p)
  BY <1>2 DEF SyncDir, Promise!Next, Promise!Keep
<1>3. CASE ~Link(p) /\ ~SyncDir(p)
  BY <1>3 DEF Fetch, Import, Work, OpenFails, WriteFails, Kill, CheckPresent, Open, Copy,
              Flush, CheckDigest, Recheck, Exists, Unlink, store
<1>. QED
  BY <1>1, <1>2, <1>3

\* A power failure takes entries that were not made durable, and no other.
LEMMA PowerLossSimulates ==
  ASSUME IInv, PowerLoss
  PROVE  Promise!Next
<1>1. PICK lost \in SUBSET (Artifact \ durable) :
        entry' = [a \in Artifact |-> IF a \in lost THEN "absent"
                                     ELSE IF entry[a] = "cached" THEN "bad" ELSE entry[a]]
  BY DEF PowerLoss
<1>2. entry' = [a \in Artifact |-> IF a \in lost THEN "absent" ELSE entry[a]]
  BY <1>1 DEF IInv, EntryInv
<1>3. Promise!Lose(lost)
  BY <1>1, <1>2 DEF PowerLoss, Promise!Lose
<1>. QED
  BY <1>3 DEF Promise!Next

\* The detailed store implements the abstract one.
THEOREM ImplementsContentStore == Spec => StoreIsImmutable
<1>1. Init => Promise!Init
  BY DEF Init, Promise!Init
<1>2. IInv /\ [Next]_vars => [Promise!Next]_<<entry, durable>>
  <2>. SUFFICES ASSUME IInv, [Next]_vars PROVE [Promise!Next]_<<entry, durable>>
    OBVIOUS
  <2>1. ASSUME NEW a \in Artifact, RemoveTampered(a)
        PROVE  Promise!Next
    BY <2>1 DEF RemoveTampered, Promise!Next, Promise!Remove
  <2>2. CASE UNCHANGED vars
    BY <2>2 DEF vars
  <2>. QED
    BY <2>1, <2>2, CallSimulates, PowerLossSimulates DEF Next
<1>. QED
  BY <1>1, <1>2, StoreInvariance, PTL DEF Spec, StoreIsImmutable, Promise!Spec, Promise!csvars
=============================================================================
