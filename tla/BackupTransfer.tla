--------------------------- MODULE BackupTransfer ---------------------------
(***************************************************************************)
(* Offsite backups: mcrctl backup drain / transfer (backup.py, cli.py).    *)
(*                                                                         *)
(* The backup plugin leaves ZIP archives in an outbox.  A run encrypts an  *)
(* archive next to it, writes a transfer record, uploads the ciphertext    *)
(* under a name with its hash, reads it back, marks the record             *)
(* "download-verified" and publishes the record beside the ciphertext.     *)
(* A later drain skips what the local record calls download-verified, and  *)
(* resumes what has a ciphertext and a record.                             *)
(*                                                                         *)
(* age is randomised, so every encryption makes another ciphertext; it     *)
(* stands for its own hash, remote name and transfer record identity.      *)
(***************************************************************************)
EXTENDS Naturals

CONSTANTS
  Archives,   \* archives 1 .. Archives arrive in the outbox, oldest first
  Run,        \* processes that may run side by side
  MaxCiphers, \* bound on the encryptions of one archive
  None,
  Damaged,    \* bytes on the server that are not what was sent, of the same size
  CrashAt,    \* the steps a run may die in
  FaultAt,    \* the steps whose network or file operation may fail, or "damage"
  MaxFaults,  \* bound on deaths and failures together
  Serial,     \* the operator lets one run end before the next begins
  Retention   \* the outbox forgets old archives

Archive == 1 .. Archives
Cipher == Archive \X (1 .. MaxCiphers)
Statuses == {"encrypted", "remote-size-verified", "download-verified"}
Record == [cipher : Cipher, status : Statuses]

Steps == {"open", "encrypt", "hash", "record", "connect", "upload", "rename",
          "verify", "mark", "sidecar", "publish", "quit"}

ASSUME BackupTransferAssumption ==
  /\ Archives \in Nat /\ MaxCiphers \in Nat /\ MaxFaults \in Nat
  /\ None \notin Cipher /\ None \notin Record
  /\ Damaged \notin Cipher /\ Damaged # None
  /\ CrashAt \subseteq Steps /\ FaultAt \subseteq Steps \cup {"damage"}
  /\ Serial \in BOOLEAN /\ Retention \in BOOLEAN

VARIABLES
  outbox,   \* of each archive: "absent", "ready" or "gone"
  cipher,   \* <archive>.age beside the archive, or None
  record,   \* <archive>.age.transfer.json, or None
  made,     \* encryptions so far
  remote,   \* what the server holds under the name of a ciphertext, or None
  sidecar,  \* the record the server holds for that name, or None
  pc,       \* the step of each run; "idle" when it is not working
  todo,     \* the archives a run still has to send, its own first
  verify,   \* the run reads the ciphertext back (drain; transfer by option)
  mine,     \* the record a run holds in memory, or None
  upload,   \* what a run has put under its temporary remote name
  reported, \* the ciphertexts whose transfer was reported download-verified
  faults

local == <<cipher, record, made>>
server == <<remote, sidecar>>
run == <<pc, todo, verify, mine, upload>>
vars == <<outbox, local, server, run, reported, faults>>

Init ==
  /\ outbox = [a \in Archive |-> "absent"]
  /\ cipher = [a \in Archive |-> None]
  /\ record = [a \in Archive |-> None]
  /\ made = [a \in Archive |-> 0]
  /\ remote = [n \in Cipher |-> None]
  /\ sidecar = [n \in Cipher |-> None]
  /\ pc = [r \in Run |-> "idle"]
  /\ todo = [r \in Run |-> {}]
  /\ verify = [r \in Run |-> FALSE]
  /\ mine = [r \in Run |-> None]
  /\ upload = [r \in Run |-> None]
  /\ reported = {}
  /\ faults = 0

-----------------------------------------------------------------------------
(* Bookkeeping of a run *)

Goto(r, step) ==
  /\ pc' = [pc EXCEPT ![r] = step]
  /\ UNCHANGED <<todo, verify>>

\* The archive in hand: the oldest one left.
Current(r) == CHOOSE a \in todo[r] : \A b \in todo[r] : a <= b

\* The run ends: with an error, or because nothing is left.
Stop(r) ==
  /\ pc' = [pc EXCEPT ![r] = "idle"]
  /\ todo' = [todo EXCEPT ![r] = {}]
  /\ mine' = [mine EXCEPT ![r] = None]
  /\ upload' = [upload EXCEPT ![r] = None]
  /\ UNCHANGED verify

\* The archive in hand is reported as sent, and the next one is opened.
Sent(r) ==
  /\ reported' = IF verify[r] THEN reported \cup {mine[r].cipher} ELSE reported
  /\ IF todo[r] = {Current(r)}
     THEN Stop(r)
     ELSE /\ pc' = [pc EXCEPT ![r] = "open"]
          /\ todo' = [todo EXCEPT ![r] = @ \ {Current(r)}]
          /\ mine' = [mine EXCEPT ![r] = None]
          /\ upload' = [upload EXCEPT ![r] = None]
          /\ UNCHANGED verify

-----------------------------------------------------------------------------
(* Which archives a run takes *)

\* Mutant: any record stands for a finished transfer.
ReadyUnrecorded ==
  {a \in Archive : outbox[a] = "ready" /\ record[a] = None}

\* ready_outbox_archives: all that no local record calls download-verified.
Ready ==
  {a \in Archive : /\ outbox[a] = "ready"
                   /\ record[a] = None \/ record[a].status # "download-verified"}

Begin(r, archives, readBack) ==
  /\ pc[r] = "idle"
  /\ Serial => \A q \in Run : pc[q] = "idle"
  /\ archives # {}
  /\ pc' = [pc EXCEPT ![r] = "open"]
  /\ todo' = [todo EXCEPT ![r] = archives]
  /\ verify' = [verify EXCEPT ![r] = readBack]
  /\ UNCHANGED <<outbox, local, server, mine, upload, reported, faults>>

\* mcrctl backup drain always reads back.
BeginDrain(r) == Begin(r, Ready, TRUE)

\* mcrctl backup transfer of one archive, with or without --verify-download.
BeginTransfer(r) ==
  \E a \in Archive, readBack \in BOOLEAN :
    outbox[a] = "ready" /\ Begin(r, {a}, readBack)

-----------------------------------------------------------------------------
(* transfer_archive *)

\* Mutant: a transfer that was cut short before the upload starts afresh.
OpenAfresh(r) ==
  LET a == Current(r)
  IN  /\ pc[r] = "open"
      /\ outbox[a] = "ready"
      /\ \/ /\ record[a] # None => record[a].status = "encrypted"
            /\ Goto(r, "encrypt")
            /\ UNCHANGED mine
         \/ /\ record[a] # None /\ record[a].status # "encrypted"
            /\ mine' = [mine EXCEPT ![r] = record[a]]
            /\ Goto(r, "connect")
      /\ UNCHANGED <<outbox, local, server, upload, reported, faults>>

\* Reuse a ciphertext with its record, or encrypt when there is neither.
Open(r) ==
  LET a == Current(r)
  IN  /\ pc[r] = "open"
      /\ outbox[a] = "ready"
      /\ \/ /\ cipher[a] = None /\ record[a] = None
            /\ Goto(r, "encrypt")
            /\ UNCHANGED mine
         \/ /\ cipher[a] # None /\ record[a] # None
            /\ record[a].cipher = cipher[a]
            /\ mine' = [mine EXCEPT ![r] = record[a]]
            /\ Goto(r, "connect")
      /\ UNCHANGED <<outbox, local, server, upload, reported, faults>>

\* "must either both exist or both be absent", "does not match its transfer
\* record", or the archive has gone since the scan.
OpenRefused(r) ==
  LET a == Current(r)
  IN  /\ pc[r] = "open"
      /\ \/ outbox[a] # "ready"
         \/ (cipher[a] = None) # (record[a] = None)
         \/ cipher[a] # None /\ record[a] # None /\ record[a].cipher # cipher[a]
      /\ Stop(r)
      /\ UNCHANGED <<outbox, local, server, reported, faults>>

\* age writes a temporary file, which replaces <archive>.age.
Encrypt(r) ==
  LET a == Current(r)
  IN  /\ pc[r] = "encrypt"
      /\ made[a] < MaxCiphers
      /\ made' = [made EXCEPT ![a] = @ + 1]
      /\ cipher' = [cipher EXCEPT ![a] = <<a, made[a] + 1>>]
      /\ Goto(r, "hash")
      /\ UNCHANGED <<outbox, record, server, mine, upload, reported, faults>>

\* The hash is taken of the file that is there now.
Hash(r) ==
  /\ pc[r] = "hash"
  /\ mine' = [mine EXCEPT ![r] = [cipher |-> cipher[Current(r)], status |-> "encrypted"]]
  /\ Goto(r, "record")
  /\ UNCHANGED <<outbox, local, server, upload, reported, faults>>

WriteRecord(r) ==
  /\ pc[r] = "record"
  /\ record' = [record EXCEPT ![Current(r)] = mine[r]]
  /\ Goto(r, "connect")
  /\ UNCHANGED <<outbox, cipher, made, server, mine, upload, reported, faults>>

Connect(r) ==
  /\ pc[r] = "connect"
  /\ Goto(r, "upload")
  /\ UNCHANGED <<outbox, local, server, mine, upload, reported, faults>>

\* Mutant: the name is not looked up first.
UploadAlways(r) ==
  /\ pc[r] = "upload"
  /\ upload' = [upload EXCEPT ![r] = cipher[Current(r)]]
  /\ Goto(r, "rename")
  /\ UNCHANGED <<outbox, local, server, mine, reported, faults>>

\* A name the server has (with the right size) is not sent again; otherwise
\* the file that is there now goes up under a temporary name.
Upload(r) ==
  /\ pc[r] = "upload"
  /\ IF remote[mine[r].cipher] = None
     THEN /\ upload' = [upload EXCEPT ![r] = cipher[Current(r)]]
          /\ Goto(r, "rename")
     ELSE /\ UNCHANGED upload
          /\ Goto(r, "verify")
  /\ UNCHANGED <<outbox, local, server, mine, reported, faults>>

Rename(r) ==
  /\ pc[r] = "rename"
  /\ remote' = [remote EXCEPT ![mine[r].cipher] = upload[r]]
  /\ Goto(r, "verify")
  /\ UNCHANGED <<outbox, local, sidecar, mine, upload, reported, faults>>

\* Mutants: the size is taken for the content; the status is misspelt.
VerifyBySize(r) ==
  /\ pc[r] = "verify"
  /\ mine' = [mine EXCEPT ![r].status =
                IF verify[r] THEN "download-verified" ELSE "remote-size-verified"]
  /\ Goto(r, "mark")
  /\ UNCHANGED <<outbox, local, server, upload, reported, faults>>

VerifyMisnamed(r) ==
  /\ pc[r] = "verify"
  /\ verify[r] => remote[mine[r].cipher] = mine[r].cipher
  /\ mine' = [mine EXCEPT ![r].status = "verified"]
  /\ Goto(r, "mark")
  /\ UNCHANGED <<outbox, local, server, upload, reported, faults>>

Verify(r) ==
  /\ pc[r] = "verify"
  /\ verify[r] => remote[mine[r].cipher] = mine[r].cipher
  /\ mine' = [mine EXCEPT ![r].status =
                IF verify[r] THEN "download-verified" ELSE "remote-size-verified"]
  /\ Goto(r, "mark")
  /\ UNCHANGED <<outbox, local, server, upload, reported, faults>>

VerifyFails(r) ==
  /\ pc[r] = "verify"
  /\ verify[r] /\ remote[mine[r].cipher] # mine[r].cipher
  /\ Stop(r)
  /\ UNCHANGED <<outbox, local, server, reported, faults>>

\* The local record is marked before the sidecar is published.
Mark(r) ==
  /\ pc[r] = "mark"
  /\ record' = [record EXCEPT ![Current(r)] = mine[r]]
  /\ Goto(r, "sidecar")
  /\ UNCHANGED <<outbox, cipher, made, server, mine, upload, reported, faults>>

\* Mutant: a missing sidecar is left to a later run.
SidecarSkipped(r) ==
  /\ pc[r] = "sidecar"
  /\ sidecar[mine[r].cipher] \in {None, mine[r].cipher}
  /\ Goto(r, "quit")
  /\ UNCHANGED <<outbox, local, server, mine, upload, reported, faults>>

\* _publish_record_sidecar: an equal record stays, another one is refused;
\* with none there the local record file goes up under a temporary name.
Sidecar(r) ==
  LET n == mine[r].cipher
  IN  /\ pc[r] = "sidecar"
      /\ IF sidecar[n] = None
         THEN /\ upload' = [upload EXCEPT ![r] = record[Current(r)].cipher]
              /\ Goto(r, "publish")
         ELSE /\ sidecar[n] = n
              /\ UNCHANGED upload
              /\ Goto(r, "quit")
      /\ UNCHANGED <<outbox, local, server, mine, reported, faults>>

SidecarRefused(r) ==
  /\ pc[r] = "sidecar"
  /\ sidecar[mine[r].cipher] \notin {None, mine[r].cipher}
  /\ Stop(r)
  /\ UNCHANGED <<outbox, local, server, reported, faults>>

Publish(r) ==
  /\ pc[r] = "publish"
  /\ sidecar' = [sidecar EXCEPT ![mine[r].cipher] = upload[r]]
  /\ Goto(r, "quit")
  /\ UNCHANGED <<outbox, local, remote, mine, upload, reported, faults>>

\* The session is closed; only then is the archive reported.
Quit(r) ==
  /\ pc[r] = "quit"
  /\ Sent(r)
  /\ UNCHANGED <<outbox, local, server, faults>>

RunStep(r) ==
  \/ Open(r) \/ OpenRefused(r) \/ Encrypt(r) \/ Hash(r) \/ WriteRecord(r)
  \/ Connect(r) \/ Upload(r) \/ Rename(r) \/ Verify(r) \/ VerifyFails(r)
  \/ Mark(r) \/ Sidecar(r) \/ SidecarRefused(r) \/ Publish(r)
  \/ Quit(r)

-----------------------------------------------------------------------------
(* The environment *)

\* A file operation, the connection or the server fails: the drain ends.  Or
\* the process dies; what it had put under a temporary name is nobody's.
Fails(r) ==
  /\ faults < MaxFaults
  /\ pc[r] \in FaultAt \cup CrashAt
  /\ faults' = faults + 1
  /\ Stop(r)
  /\ UNCHANGED <<outbox, local, server, reported>>

\* The server stores other bytes than were sent, and as many: the size checks
\* after an upload and after a rename do not see it.  Bound: it strikes the
\* first copy under a name.  (Runs that overlap may rename a second one, whose
\* damage would undo what was verified since the look-up.)
Damage(r) ==
  /\ "damage" \in FaultAt
  /\ faults < MaxFaults
  /\ faults' = faults + 1
  /\ \/ /\ pc[r] = "rename"
        /\ remote[mine[r].cipher] = None
        /\ remote' = [remote EXCEPT ![mine[r].cipher] = Damaged]
        /\ Goto(r, "verify")
        /\ UNCHANGED sidecar
     \/ /\ pc[r] = "publish"
        /\ sidecar[mine[r].cipher] = None
        /\ sidecar' = [sidecar EXCEPT ![mine[r].cipher] = Damaged]
        /\ Goto(r, "quit")
        /\ UNCHANGED remote
  /\ UNCHANGED <<outbox, local, mine, upload, reported>>

\* The plugin finishes an archive; its mtime settles.
Arrive(a) ==
  /\ outbox[a] = "absent"
  /\ \A b \in Archive : b < a => outbox[b] # "absent"
  /\ outbox' = [outbox EXCEPT ![a] = "ready"]
  /\ UNCHANGED <<local, server, run, reported, faults>>

Forget(a) ==
  /\ Retention
  /\ outbox[a] = "ready"
  /\ outbox' = [outbox EXCEPT ![a] = "gone"]
  /\ UNCHANGED <<local, server, run, reported, faults>>

Next ==
  \/ \E r \in Run : BeginDrain(r) \/ BeginTransfer(r) \/ RunStep(r) \/ Fails(r) \/ Damage(r)
  \/ \E a \in Archive : Arrive(a) \/ Forget(a)

Spec == Init /\ [][Next]_vars

\* A run that works goes on, and the operator's timer starts a drain again and
\* again.
Fairness == \A r \in Run : WF_vars(RunStep(r)) /\ SF_vars(BeginDrain(r))

FairSpec == Spec /\ Fairness

-----------------------------------------------------------------------------
(* Properties *)

TypeOK ==
  /\ outbox \in [Archive -> {"absent", "ready", "gone"}]
  /\ cipher \in [Archive -> Cipher \cup {None}]
  /\ record \in [Archive -> Record \cup {None}]
  /\ made \in [Archive -> 0 .. MaxCiphers]
  /\ remote \in [Cipher -> Cipher \cup {None, Damaged}]
  /\ sidecar \in [Cipher -> Cipher \cup {None, Damaged}]
  /\ pc \in [Run -> Steps \cup {"idle"}]
  /\ todo \in [Run -> SUBSET Archive]
  /\ verify \in [Run -> BOOLEAN]
  /\ mine \in [Run -> Record \cup {None}]
  /\ upload \in [Run -> Cipher \cup {None}]
  /\ reported \subseteq Cipher
  /\ faults \in 0 .. MaxFaults

\* download-record, download and decrypt all go through for this name.
Recoverable(n) == remote[n] = n /\ sidecar[n] = n

\* Whatever was once reported as download-verified can be restored from the
\* server alone, from then on.
SentIsRecoverable == \A n \in reported : Recoverable(n)

\* What a local record calls download-verified, and a drain therefore skips, is
\* on the server: even when runs overlap and overwrite each other's local
\* files, and when the server stored a damaged copy at first.
VerifiedIsStored ==
  \A a \in Archive :
    record[a] # None /\ record[a].status = "download-verified" =>
      remote[record[a].cipher] = record[a].cipher

\* No run ever replaces a sound object or record on the server, though the
\* server lets a rename replace and nothing but an earlier look forbids it.
NothingReplaced ==
  [][\A n \in Cipher :
       /\ remote[n] \in Cipher => remote'[n] = remote[n]
       /\ sidecar[n] \in Cipher => sidecar'[n] = sidecar[n]]_vars

\* A ciphertext that has its transfer record is never made again: however often
\* a transfer is cut short, the retry sends the same bytes to the same name.
CiphertextKept ==
  [][\A a \in Archive :
       cipher[a] # None /\ record[a] # None =>
         cipher'[a] = cipher[a] /\ record'[a].cipher = record[a].cipher]_vars

\* Every archive that stays in the outbox can at last be restored from the
\* server alone.
EveryArchiveBackedUp ==
  \A a \in Archive :
    outbox[a] = "ready" ~>
      outbox[a] = "gone" \/ \E n \in Cipher : n[1] = a /\ Recoverable(n)
=============================================================================
