------------------------- MODULE BackupTransfer_proofs -------------------------
(***************************************************************************)
(* Safety of the offsite transfer for any number of archives, encryptions, *)
(* runs and failures.  Types hold for any runs side by side.  With at most *)
(* two of them at work no sound object on the server is ever replaced, and *)
(* what a local record calls verified is on the server; with one at a time *)
(* what was reported can be restored from the server alone, and a retry    *)
(* sends the bytes of the first attempt.                                   *)
(***************************************************************************)
EXTENDS BackupTransfer, WellFoundedInduction, TLAPS

(* The steps at which a run holds a record.                                *)
Holding == {"record", "connect", "upload", "rename", "verify", "mark",
            "sidecar", "publish", "quit"}

(* The archive a run takes next from those it has to do.                   *)
Oldest(S) == CHOOSE a \in S : \A b \in S : a <= b

(* The types of the parts of the state.                                    *)
LocalTypes ==
  /\ cipher \in [Archive -> Cipher \cup {None}]
  /\ record \in [Archive -> Record \cup {None}]
  /\ made \in [Archive -> 0 .. MaxCiphers]

ServerTypes ==
  /\ remote \in [Cipher -> Cipher \cup {None, Damaged}]
  /\ sidecar \in [Cipher -> Cipher \cup {None, Damaged}]

RunTypes ==
  /\ pc \in [Run -> Steps \cup {"idle"}]
  /\ todo \in [Run -> SUBSET Archive]
  /\ verify \in [Run -> BOOLEAN]
  /\ mine \in [Run -> Record \cup {None}]
  /\ upload \in [Run -> Cipher \cup {None}]

OtherTypes ==
  /\ outbox \in [Archive -> {"absent", "ready", "gone"}]
  /\ reported \subseteq Cipher
  /\ faults \in 0 .. MaxFaults

(* The ciphertext beside an archive is the newest one made of it, and a    *)
(* record is about some ciphertext of its archive.                         *)
Newest ==
  \A a \in Archive :
    /\ made[a] = 0 => cipher[a] = None
    /\ made[a] # 0 => cipher[a] = <<a, made[a]>>
    /\ record[a] # None => record[a].cipher[1] = a

(* A working run has an archive in hand; from "record" on it holds a       *)
(* record of it, and the local files it will read again are there.         *)
Shape(r) ==
  /\ pc[r] # "idle" => todo[r] # {}
  /\ pc[r] \notin Holding => mine[r] = None
  /\ pc[r] \in Holding => /\ mine[r] # None
                          /\ mine[r].cipher[1] = Oldest(todo[r])
                          /\ mine[r].cipher[2] <= made[Oldest(todo[r])]
  /\ pc[r] \in Holding \cup {"hash"} => cipher[Oldest(todo[r])] # None
  /\ pc[r] \in Holding \ {"record"} => record[Oldest(todo[r])] # None
  /\ pc[r] \in {"rename", "publish"} => upload[r] # None
  /\ pc[r] = "rename" => /\ upload[r][1] = Oldest(todo[r])
                         /\ mine[r].cipher[2] <= upload[r][2]
                         /\ upload[r][2] <= made[Oldest(todo[r])]

Shapes == \A r \in Run : Shape(r)

WorkInv == LocalTypes /\ ServerTypes /\ RunTypes /\ OtherTypes /\ Newest /\ Shapes

(* TypeOK in these parts.                                                  *)
LEMMA TypeParts == TypeOK <=> LocalTypes /\ ServerTypes /\ RunTypes /\ OtherTypes
  BY DEF TypeOK, LocalTypes, ServerTypes, RunTypes, OtherTypes

-----------------------------------------------------------------------------
(* Archives, ciphertexts and records *)

(* A nonempty set of numbers has a least one.                              *)
LEMMA Least ==
  ASSUME NEW S \in SUBSET Nat, S # {}
  PROVE  \E m \in S : \A k \in S : m <= k
<1> DEFINE R == OpToRel(<, Nat)
<1>1. IsWellFoundedOn(R, Nat)
  BY NatLessThanWellFounded
<1>2. \A a, b \in Nat : a < b => <<a, b>> \in R
  BY DEF OpToRel
<1> HIDE DEF R
<1>3. \E x \in S : \A y \in S : ~(<<y, x>> \in R)
  BY <1>1, WFMin
<1>4. PICK m \in S : \A y \in S : ~(<<y, m>> \in R)
  BY <1>3
<1>5. ASSUME NEW k \in S  PROVE m <= k
  <2>1. ~(k < m)
    BY <1>2, <1>4
  <2> QED  BY <2>1
<1> QED  BY <1>4, <1>5

(* So there is an oldest archive, and it is one of them.                   *)
LEMMA OldestIn == ASSUME NEW S \in SUBSET Archive, S # {} PROVE Oldest(S) \in S
<1>1. S \in SUBSET Nat
  BY BackupTransferAssumption DEF Archive
<1>2. \E a \in S : \A b \in S : a <= b
  BY <1>1, Least
<1> QED BY <1>2 DEF Oldest

(* The archive in hand is the oldest of those to do.                       *)
LEMMA CurrentIsOldest == \A r \in Run : Current(r) = Oldest(todo[r])
  BY DEF Current, Oldest

(* A run at work has an archive in hand.                                   *)
LEMMA InHand ==
  ASSUME RunTypes, Shapes, NEW r \in Run, pc[r] # "idle"
  PROVE  Oldest(todo[r]) \in Archive /\ Oldest(todo[r]) \in todo[r]
  BY OldestIn DEF RunTypes, Shapes, Shape

(* Ciphertexts and records, and the markers that are neither.              *)
LEMMA Ciphers ==
  /\ \A c \in Cipher : /\ c[1] \in Archive /\ c[2] \in 1 .. MaxCiphers
                       /\ c # None /\ c # Damaged
                       /\ c = <<c[1], c[2]>>
  /\ \A a \in Archive, k \in 1 .. MaxCiphers : <<a, k>> \in Cipher
  /\ \A m \in Record : m # None /\ m.cipher \in Cipher /\ m.status \in Statuses
  /\ None # Damaged
  BY BackupTransferAssumption DEF Cipher, Record

(* Another status makes no other record.                                   *)
LEMMA Restatus ==
  ASSUME NEW m \in Record, NEW s \in Statuses
  PROVE  /\ [m EXCEPT !.status = s] \in Record
         /\ [m EXCEPT !.status = s].cipher = m.cipher
         /\ [m EXCEPT !.status = s].status = s
  BY DEF Record

-----------------------------------------------------------------------------
(* What a step does to the runs it does not belong to *)

(* Only this run moves.                                                    *)
Others(r) ==
  \A q \in Run : q # r => /\ pc'[q] = pc[q] /\ todo'[q] = todo[q]
                          /\ verify'[q] = verify[q]
                          /\ mine'[q] = mine[q] /\ upload'[q] = upload[q]

(* Local files that are there stay there, and counters only grow.          *)
Grows ==
  \A a \in Archive : /\ made[a] <= made'[a]
                     /\ cipher[a] # None => cipher'[a] # None
                     /\ record[a] # None => record'[a] # None

(* What another run has in hand stays as it is while the local files only  *)
(* grow.                                                                   *)
LEMMA OthersKeepShape ==
  ASSUME LocalTypes, RunTypes, LocalTypes', Shapes, Grows,
         NEW r \in Run, Others(r)
  PROVE  \A q \in Run : q # r => Shape(q)'
<1> SUFFICES ASSUME NEW q \in Run, q # r PROVE Shape(q)'
  OBVIOUS
<1>1. /\ pc'[q] = pc[q] /\ todo'[q] = todo[q] /\ mine'[q] = mine[q]
      /\ upload'[q] = upload[q]
  BY DEF Others
<1>2. CASE pc[q] = "idle"
  BY <1>1, <1>2 DEF Shapes, Shape, Holding
<1>3. CASE pc[q] # "idle"
  <2> DEFINE a == Oldest(todo[q])
  <2>1. a \in Archive
    BY <1>3, InHand
  <2>2. made[a] \in Nat /\ made'[a] \in Nat /\ made[a] <= made'[a]
    BY <2>1, BackupTransferAssumption DEF LocalTypes, Grows
  <2>3. mine[q] # None => mine[q].cipher[2] \in Nat
    BY Ciphers DEF RunTypes
  <2>4. upload[q] # None => upload[q][2] \in Nat
    BY Ciphers DEF RunTypes
  <2>5. Shape(q)
    BY DEF Shapes
  <2> HIDE DEF a
  <2>6. /\ cipher[a] # None => cipher'[a] # None
        /\ record[a] # None => record'[a] # None
    BY <2>1 DEF Grows
  <2>7. a = Oldest(todo'[q]) /\ a = Oldest(todo[q])
    BY <1>1 DEF a
  <2> QED BY <1>1, <2>2, <2>3, <2>4, <2>5, <2>6, <2>7 DEF Shape, Holding
<1> QED BY <1>2, <1>3

(* Local files that nobody touches have grown, too.                        *)
LEMMA SameGrows == ASSUME LocalTypes, UNCHANGED local PROVE Grows /\ LocalTypes'
<1>1. \A a \in Archive : made[a] <= made[a]
  BY BackupTransferAssumption DEF LocalTypes
<1> QED BY <1>1 DEF Grows, local, LocalTypes

(* A run that stops, for whatever reason.                                  *)
LEMMA StopKeeps ==
  ASSUME LocalTypes, RunTypes, Shapes, NEW r \in Run, Stop(r), UNCHANGED local
  PROVE  /\ RunTypes' /\ Shapes' /\ Others(r)
         /\ pc'[r] = "idle" /\ mine'[r] = None /\ upload'[r] = None
<1>1. RunTypes'
  BY DEF Stop, RunTypes
<1>2. Others(r) /\ pc'[r] = "idle" /\ mine'[r] = None /\ upload'[r] = None
  BY DEF Stop, Others, RunTypes
<1>3. Shape(r)'
  BY <1>2 DEF Shape, Holding
<1> QED BY <1>1, <1>2, <1>3, SameGrows, OthersKeepShape DEF Shapes

(* A run goes to a step that needs no more than it already has.            *)
LEMMA GotoKeeps ==
  ASSUME LocalTypes, RunTypes, Shapes, NEW r \in Run, NEW s \in Steps, Goto(r, s),
         pc[r] # "idle", UNCHANGED <<local, mine, upload>>,
         \/ pc[r] \notin Holding /\ s \in {"open", "encrypt"}
         \/ pc[r] \in Holding \ {"record"} /\ s \in Holding \ {"rename", "publish"}
  PROVE  /\ RunTypes' /\ Shapes' /\ Others(r) /\ pc'[r] = s
<1>1. RunTypes'
  BY DEF Goto, RunTypes
<1>2. Others(r) /\ pc'[r] = s
  BY DEF Goto, Others, RunTypes
<1>3. Shape(r)'
  BY <1>2 DEF Shapes, Shape, Holding, Goto, local
<1> QED BY <1>1, <1>2, <1>3, SameGrows, OthersKeepShape DEF Shapes

(* A server that nobody touches keeps its types.                           *)
LEMMA ServerStays == ASSUME ServerTypes, UNCHANGED server PROVE ServerTypes'
  BY DEF ServerTypes, server

(* The ciphertext beside an archive stays the newest.                      *)
LEMMA NewestStays == ASSUME Newest, UNCHANGED local PROVE Newest'
  BY DEF Newest, local

-----------------------------------------------------------------------------
(* Every step keeps the working invariant *)

(* At first no run is at work.                                             *)
LEMMA InitWork == Init => WorkInv
<1> SUFFICES ASSUME Init PROVE WorkInv
  OBVIOUS
<1>1. LocalTypes /\ ServerTypes /\ RunTypes /\ OtherTypes
  BY BackupTransferAssumption
     DEF Init, LocalTypes, ServerTypes, RunTypes, OtherTypes
<1>2. Newest /\ Shapes
  BY DEF Init, Newest, Shapes, Shape, Holding
<1> QED BY <1>1, <1>2 DEF WorkInv

(* A run begins: a drain of all that is ready, or one transfer.            *)
LEMMA BeginWork ==
  ASSUME WorkInv, NEW r \in Run, NEW S \in SUBSET Archive, NEW v \in BOOLEAN,
         Begin(r, S, v)
  PROVE  WorkInv'
<1>1. RunTypes' /\ OtherTypes' /\ LocalTypes' /\ ServerTypes'
  BY DEF WorkInv, Begin, RunTypes, OtherTypes, LocalTypes, ServerTypes, local, server, Steps
<1>2. Others(r) /\ pc'[r] = "open" /\ todo'[r] = S /\ mine'[r] = mine[r] /\ S # {}
  BY DEF WorkInv, Begin, RunTypes, Others
<1>3. Shape(r)'
  BY <1>2 DEF WorkInv, Shapes, Shape, Holding, Begin
<1>4. Shapes'
  BY <1>1, <1>2, <1>3, SameGrows, OthersKeepShape DEF WorkInv, Shapes, Begin
<1> QED BY <1>1, <1>4, NewestStays DEF WorkInv, Begin

(* A run reads the record of its archive, if there is one.                 *)
LEMMA OpenWork ==
  ASSUME WorkInv, NEW r \in Run, Open(r)
  PROVE  WorkInv'
<1> DEFINE a == Oldest(todo[r])
<1>1. /\ pc[r] = "open" /\ Current(r) = a /\ a \in Archive
      /\ UNCHANGED <<outbox, local, server, upload, reported, faults>>
  BY InHand, CurrentIsOldest DEF Open, WorkInv
<1>2. LocalTypes' /\ ServerTypes' /\ OtherTypes' /\ Newest' /\ Grows
  BY <1>1, SameGrows, ServerStays, NewestStays DEF WorkInv, OtherTypes
<1>3. CASE Goto(r, "encrypt") /\ UNCHANGED mine
  BY <1>1, <1>2, <1>3, GotoKeeps DEF WorkInv, Steps, Holding
<1>4. CASE /\ cipher[a] # None /\ record[a] # None /\ record[a].cipher = cipher[a]
           /\ mine' = [mine EXCEPT ![r] = record[a]]
           /\ Goto(r, "connect")
  <2>1. RunTypes'
    BY <1>1, <1>4 DEF WorkInv, RunTypes, LocalTypes, Goto, Steps
  <2>2. /\ Others(r) /\ pc'[r] = "connect" /\ mine'[r] = record[a]
        /\ todo'[r] = todo[r]
    BY <1>1, <1>4 DEF WorkInv, RunTypes, Goto, Others
  <2>3. made[a] \in Nat /\ cipher[a] = <<a, made[a]>>
    BY <1>1, <1>4, BackupTransferAssumption DEF WorkInv, LocalTypes, Newest
  <2>4. /\ cipher[a][1] = a /\ cipher[a][2] = made[a] /\ made[a] <= made[a]
        /\ cipher' = cipher /\ record' = record /\ made' = made
    BY <1>1, <2>3 DEF local
  <2>5. /\ mine'[r].cipher[1] = a /\ mine'[r].cipher[2] <= made'[a]
        /\ mine'[r] # None /\ cipher'[a] # None /\ record'[a] # None
        /\ a = Oldest(todo'[r]) /\ todo'[r] # {}
    BY <1>1, <1>4, <2>2, <2>4 DEF WorkInv, Shapes, Shape
  <2> HIDE DEF a
  <2>6. Shape(r)'
    BY <2>2, <2>5 DEF Shape, Holding
  <2> QED BY <1>2, <2>1, <2>2, <2>6, OthersKeepShape DEF WorkInv, Shapes
<1> QED BY <1>1, <1>3, <1>4 DEF Open

(* A run encrypts anew: one more ciphertext of its archive.                *)
LEMMA EncryptWork ==
  ASSUME WorkInv, NEW r \in Run, Encrypt(r)
  PROVE  WorkInv'
<1> DEFINE a == Oldest(todo[r])
<1>1. /\ pc[r] = "encrypt" /\ Current(r) = a /\ a \in Archive
      /\ made' = [made EXCEPT ![a] = @ + 1]
      /\ cipher' = [cipher EXCEPT ![a] = <<a, made[a] + 1>>]
      /\ made[a] < MaxCiphers
      /\ Goto(r, "hash")
      /\ UNCHANGED <<outbox, record, server, mine, upload, reported, faults>>
  BY InHand, CurrentIsOldest DEF Encrypt, WorkInv
<1>2. made[a] \in 0 .. MaxCiphers /\ made[a] + 1 \in 1 .. MaxCiphers
  BY <1>1, BackupTransferAssumption DEF WorkInv, LocalTypes
<1>3. <<a, made[a] + 1>> \in Cipher /\ <<a, made[a] + 1>> # None
  BY <1>1, <1>2, Ciphers
<1>4. LocalTypes'
  BY <1>1, <1>2, <1>3 DEF WorkInv, LocalTypes
<1>5. /\ made'[a] = made[a] + 1 /\ cipher'[a] = <<a, made[a] + 1>>
      /\ \A b \in Archive : b # a => made'[b] = made[b] /\ cipher'[b] = cipher[b]
  BY <1>1 DEF WorkInv, LocalTypes
<1>6. Grows
  BY <1>1, <1>2, <1>3, <1>5, BackupTransferAssumption DEF Grows, WorkInv, LocalTypes
<1>7. Newest'
  BY <1>1, <1>2, <1>5, BackupTransferAssumption DEF Newest, WorkInv
<1>8. ServerTypes' /\ OtherTypes' /\ RunTypes'
  BY <1>1, ServerStays DEF WorkInv, OtherTypes, RunTypes, Goto, Steps
<1>9. Others(r) /\ pc'[r] = "hash" /\ todo'[r] = todo[r] /\ mine'[r] = mine[r]
  BY <1>1 DEF WorkInv, RunTypes, Goto, Others
<1>10. Shape(r)'
  BY <1>1, <1>3, <1>5, <1>9 DEF WorkInv, Shapes, Shape, Holding
<1> QED BY <1>4, <1>6, <1>7, <1>8, <1>9, <1>10, OthersKeepShape DEF WorkInv, Shapes

(* A run makes a record of the ciphertext that is there now.               *)
LEMMA HashWork ==
  ASSUME WorkInv, NEW r \in Run, Hash(r)
  PROVE  WorkInv'
<1> DEFINE a == Oldest(todo[r])
           m == [cipher |-> cipher[a], status |-> "encrypted"]
<1>1. /\ pc[r] = "hash" /\ Current(r) = a /\ a \in Archive
      /\ mine' = [mine EXCEPT ![r] = m]
      /\ Goto(r, "record")
      /\ UNCHANGED <<outbox, local, server, upload, reported, faults>>
  BY InHand, CurrentIsOldest DEF Hash, WorkInv
<1>2. cipher[a] \in Cipher /\ cipher[a] = <<a, made[a]>> /\ made[a] \in Nat
  BY <1>1, BackupTransferAssumption DEF WorkInv, Shapes, Shape, LocalTypes, Newest
<1>3. m \in Record /\ m.cipher = cipher[a] /\ m # None
  BY <1>2, Ciphers DEF Record, Statuses
<1> HIDE DEF m
<1>4. LocalTypes' /\ ServerTypes' /\ OtherTypes' /\ Newest' /\ Grows
  BY <1>1, SameGrows, ServerStays, NewestStays DEF WorkInv, OtherTypes
<1>5. RunTypes'
  BY <1>1, <1>3 DEF WorkInv, RunTypes, Goto, Steps
<1>6. Others(r) /\ pc'[r] = "record" /\ mine'[r] = m /\ todo'[r] = todo[r]
  BY <1>1 DEF WorkInv, RunTypes, Goto, Others
<1>7. /\ cipher[a][1] = a /\ cipher[a][2] = made[a] /\ made[a] <= made[a]
      /\ cipher' = cipher /\ record' = record /\ made' = made
  BY <1>1, <1>2 DEF local
<1>8. /\ mine'[r].cipher[1] = a /\ mine'[r].cipher[2] <= made'[a]
      /\ mine'[r] # None /\ cipher'[a] # None
      /\ a = Oldest(todo'[r]) /\ todo'[r] # {}
  BY <1>1, <1>2, <1>3, <1>6, <1>7, Ciphers DEF WorkInv, Shapes, Shape
<1> HIDE DEF a
<1>9. Shape(r)'
  BY <1>6, <1>8 DEF Shape, Holding
<1> QED BY <1>4, <1>5, <1>6, <1>9, OthersKeepShape DEF WorkInv, Shapes

(* The record in memory is written over the local one.                     *)
LEMMA WriteWork ==
  ASSUME WorkInv, NEW r \in Run, WriteRecord(r) \/ Mark(r)
  PROVE  WorkInv'
<1> DEFINE a == Oldest(todo[r])
           s == IF pc[r] = "record" THEN "connect" ELSE "sidecar"
<1>1. /\ pc[r] \in {"record", "mark"} /\ Current(r) = a /\ a \in Archive
      /\ record' = [record EXCEPT ![a] = mine[r]]
      /\ Goto(r, s) /\ s \in {"connect", "sidecar"}
      /\ UNCHANGED <<outbox, cipher, made, server, mine, upload, reported, faults>>
  BY InHand, CurrentIsOldest DEF WriteRecord, Mark, WorkInv
<1> HIDE DEF s
<1>2. /\ mine[r] \in Record /\ mine[r].cipher[1] = a /\ mine[r] # None
  BY <1>1 DEF WorkInv, Shapes, Shape, RunTypes, Holding
<1>3. LocalTypes'
  BY <1>1, <1>2 DEF WorkInv, LocalTypes
<1>4. /\ record'[a] = mine[r]
      /\ \A b \in Archive : b # a => record'[b] = record[b]
  BY <1>1 DEF WorkInv, LocalTypes
<1>5. Grows
  BY <1>1, <1>2, <1>4, BackupTransferAssumption DEF Grows, WorkInv, LocalTypes
<1>6. Newest'
  BY <1>1, <1>2, <1>4 DEF Newest, WorkInv
<1>7. ServerTypes' /\ OtherTypes' /\ RunTypes'
  BY <1>1, ServerStays DEF WorkInv, OtherTypes, RunTypes, Goto, Steps
<1>8. /\ Others(r) /\ pc'[r] = s /\ todo'[r] = todo[r] /\ mine'[r] = mine[r]
      /\ upload'[r] = upload[r]
  BY <1>1 DEF WorkInv, RunTypes, Goto, Others
<1>9. Shape(r)'
  BY <1>1, <1>2, <1>4, <1>8 DEF WorkInv, Shapes, Shape, Holding
<1> QED BY <1>3, <1>5, <1>6, <1>7, <1>8, <1>9, OthersKeepShape DEF WorkInv, Shapes

(* A run uploads the ciphertext that is there now.                         *)
LEMMA UploadWork ==
  ASSUME WorkInv, NEW r \in Run, Upload(r)
  PROVE  WorkInv'
<1> DEFINE a == Oldest(todo[r])
<1>1. /\ pc[r] = "upload" /\ Current(r) = a /\ a \in Archive
      /\ UNCHANGED <<outbox, local, server, mine, reported, faults>>
  BY InHand, CurrentIsOldest DEF Upload, WorkInv
<1>2. LocalTypes' /\ ServerTypes' /\ OtherTypes' /\ Newest' /\ Grows
  BY <1>1, SameGrows, ServerStays, NewestStays DEF WorkInv, OtherTypes
<1>3. CASE Goto(r, "verify") /\ UNCHANGED upload
  BY <1>1, <1>2, <1>3, GotoKeeps DEF WorkInv, Steps, Holding
<1>4. CASE Goto(r, "rename") /\ upload' = [upload EXCEPT ![r] = cipher[a]]
  <2>1. RunTypes'
    BY <1>1, <1>4 DEF WorkInv, RunTypes, LocalTypes, Goto, Steps
  <2>2. /\ Others(r) /\ pc'[r] = "rename" /\ upload'[r] = cipher[a]
        /\ todo'[r] = todo[r] /\ mine'[r] = mine[r]
    BY <1>1, <1>4 DEF WorkInv, RunTypes, Goto, Others
  <2>3. /\ made[a] \in Nat /\ cipher[a] = <<a, made[a]>> /\ cipher[a] # None
    BY <1>1, BackupTransferAssumption
       DEF WorkInv, LocalTypes, Newest, Shapes, Shape, Holding
  <2>4. /\ cipher[a][1] = a /\ cipher[a][2] = made[a] /\ made[a] <= made[a]
        /\ cipher' = cipher /\ record' = record /\ made' = made
    BY <1>1, <2>3 DEF local
  <2>5. Shape(r)'
    BY <1>1, <2>2, <2>3, <2>4 DEF WorkInv, Shapes, Shape, Holding
  <2> QED BY <1>2, <2>1, <2>2, <2>5, OthersKeepShape DEF WorkInv, Shapes
<1> QED BY <1>1, <1>3, <1>4 DEF Upload

(* A run gives the upload its name.                                        *)
LEMMA RenameWork ==
  ASSUME WorkInv, NEW r \in Run, Rename(r)
  PROVE  WorkInv'
<1>1. /\ mine[r] \in Record /\ upload[r] \in Cipher /\ pc[r] = "rename"
  BY DEF Rename, WorkInv, Shapes, Shape, Holding, RunTypes
<1>2. ServerTypes'
  BY <1>1, Ciphers DEF Rename, WorkInv, ServerTypes
<1>3. RunTypes' /\ Shapes'
  BY <1>1, GotoKeeps DEF Rename, WorkInv, Steps, Holding
<1> QED BY <1>2, <1>3, SameGrows, NewestStays DEF Rename, WorkInv, OtherTypes

(* A run reads back what is under the name.                                *)
LEMMA VerifyWork ==
  ASSUME WorkInv, NEW r \in Run, Verify(r)
  PROVE  WorkInv'
<1> DEFINE s == IF verify[r] THEN "download-verified" ELSE "remote-size-verified"
           m == [mine[r] EXCEPT !.status = s]
<1>1. /\ pc[r] = "verify" /\ mine' = [mine EXCEPT ![r] = m]
      /\ Goto(r, "mark")
      /\ UNCHANGED <<outbox, local, server, upload, reported, faults>>
  BY DEF Verify
<1>2. mine[r] \in Record /\ s \in Statuses
  BY <1>1 DEF WorkInv, Shapes, Shape, Holding, RunTypes, Statuses
<1> HIDE DEF s
<1>3. m \in Record /\ m.cipher = mine[r].cipher /\ m # None
  BY <1>2, Restatus, Ciphers
<1> HIDE DEF m
<1>4. LocalTypes' /\ ServerTypes' /\ OtherTypes' /\ Newest' /\ Grows
  BY <1>1, SameGrows, ServerStays, NewestStays DEF WorkInv, OtherTypes
<1>5. RunTypes'
  BY <1>1, <1>3 DEF WorkInv, RunTypes, Goto, Steps
<1>6. /\ Others(r) /\ pc'[r] = "mark" /\ mine'[r] = m /\ todo'[r] = todo[r]
      /\ cipher' = cipher /\ record' = record /\ made' = made
  BY <1>1 DEF WorkInv, RunTypes, Goto, Others, local
<1>7. Shape(r)'
  BY <1>1, <1>3, <1>6 DEF WorkInv, Shapes, Shape, Holding
<1> QED BY <1>4, <1>5, <1>6, <1>7, OthersKeepShape DEF WorkInv, Shapes

(* A run sends the record that is there now.                               *)
LEMMA SidecarWork ==
  ASSUME WorkInv, NEW r \in Run, Sidecar(r)
  PROVE  WorkInv'
<1> DEFINE a == Oldest(todo[r])
<1>1. /\ pc[r] = "sidecar" /\ Current(r) = a /\ a \in Archive
      /\ UNCHANGED <<outbox, local, server, mine, reported, faults>>
  BY InHand, CurrentIsOldest DEF Sidecar, WorkInv
<1>2. LocalTypes' /\ ServerTypes' /\ OtherTypes' /\ Newest' /\ Grows
  BY <1>1, SameGrows, ServerStays, NewestStays DEF WorkInv, OtherTypes
<1>3. CASE Goto(r, "quit") /\ UNCHANGED upload
  BY <1>1, <1>2, <1>3, GotoKeeps DEF WorkInv, Steps, Holding
<1>4. CASE Goto(r, "publish") /\ upload' = [upload EXCEPT ![r] = record[a].cipher]
  <2>1. record[a] \in Record
    BY <1>1 DEF WorkInv, Shapes, Shape, Holding, LocalTypes
  <2>2. record[a].cipher \in Cipher /\ record[a].cipher # None
    BY <2>1, Ciphers
  <2>3. RunTypes'
    BY <1>1, <1>4, <2>2 DEF WorkInv, RunTypes, Goto, Steps
  <2>4. /\ Others(r) /\ pc'[r] = "publish" /\ upload'[r] = record[a].cipher
        /\ todo'[r] = todo[r] /\ mine'[r] = mine[r]
        /\ cipher' = cipher /\ record' = record /\ made' = made
    BY <1>1, <1>4 DEF WorkInv, RunTypes, Goto, Others, local
  <2>5. Shape(r)'
    BY <1>1, <2>2, <2>4 DEF WorkInv, Shapes, Shape, Holding
  <2> QED BY <1>2, <2>3, <2>4, <2>5, OthersKeepShape DEF WorkInv, Shapes
<1> QED BY <1>1, <1>3, <1>4 DEF Sidecar

(* A run gives the uploaded record its name.                               *)
LEMMA PublishWork ==
  ASSUME WorkInv, NEW r \in Run, Publish(r)
  PROVE  WorkInv'
<1>1. /\ mine[r] \in Record /\ upload[r] \in Cipher /\ pc[r] = "publish"
  BY DEF Publish, WorkInv, Shapes, Shape, Holding, RunTypes
<1>2. ServerTypes'
  BY <1>1, Ciphers DEF Publish, WorkInv, ServerTypes
<1>3. RunTypes' /\ Shapes'
  BY <1>1, GotoKeeps DEF Publish, WorkInv, Steps, Holding
<1> QED BY <1>2, <1>3, SameGrows, NewestStays DEF Publish, WorkInv, OtherTypes

(* A run that ends, whether the archive was sent or not.                   *)
LEMMA EndWork ==
  ASSUME WorkInv, NEW r \in Run,
         OpenRefused(r) \/ VerifyFails(r) \/ SidecarRefused(r) \/ Fails(r)
  PROVE  WorkInv' /\ Stop(r)
<1>1. Stop(r) /\ UNCHANGED <<outbox, local, server, reported>>
  BY DEF OpenRefused, VerifyFails, SidecarRefused, Fails
<1>2. faults' \in 0 .. MaxFaults
  BY BackupTransferAssumption
     DEF WorkInv, OtherTypes, OpenRefused, VerifyFails, SidecarRefused, Fails
<1> QED BY <1>1, <1>2, StopKeeps, SameGrows, ServerStays, NewestStays
        DEF WorkInv, OtherTypes

(* A run is done with its archive and goes on to the next.                 *)
LEMMA QuitWork ==
  ASSUME WorkInv, NEW r \in Run, Quit(r)
  PROVE  WorkInv'
<1> DEFINE a == Oldest(todo[r])
<1>1. /\ pc[r] = "quit" /\ Current(r) = a /\ Sent(r)
      /\ UNCHANGED <<outbox, local, server, faults>>
  BY CurrentIsOldest DEF Quit
<1>2. mine[r] \in Record
  BY <1>1 DEF WorkInv, Shapes, Shape, Holding, RunTypes
<1>3. reported' \subseteq Cipher
  BY <1>1, <1>2, Ciphers DEF Sent, WorkInv, OtherTypes
<1>4. LocalTypes' /\ ServerTypes' /\ OtherTypes' /\ Newest' /\ Grows
  BY <1>1, <1>3, SameGrows, ServerStays, NewestStays DEF WorkInv, OtherTypes
<1>5. CASE Stop(r)
  BY <1>1, <1>4, <1>5, StopKeeps DEF WorkInv
<1>6. CASE todo[r] # {a} /\ ~Stop(r)
  <2>1. /\ pc' = [pc EXCEPT ![r] = "open"]
        /\ todo' = [todo EXCEPT ![r] = @ \ {a}]
        /\ mine' = [mine EXCEPT ![r] = None]
        /\ upload' = [upload EXCEPT ![r] = None]
        /\ UNCHANGED verify
    BY <1>1, <1>6 DEF Sent
  <2>2. todo[r] \ {a} # {}
    BY <1>1, <1>6 DEF WorkInv, Shapes, Shape
  <2>3. RunTypes'
    BY <2>1 DEF WorkInv, RunTypes, Steps
  <2>4. /\ Others(r) /\ pc'[r] = "open" /\ todo'[r] # {} /\ mine'[r] = None
    BY <2>1, <2>2 DEF WorkInv, RunTypes, Others
  <2>5. Shape(r)'
    BY <2>4 DEF Shape, Holding
  <2> QED BY <1>4, <2>3, <2>4, <2>5, OthersKeepShape DEF WorkInv, Shapes
<1> QED BY <1>1, <1>5, <1>6 DEF Sent

(* The server spoils the first copy under a name.                          *)
LEMMA DamageWork ==
  ASSUME WorkInv, NEW r \in Run, Damage(r)
  PROVE  WorkInv'
<1>1. /\ pc[r] \in {"rename", "publish"} /\ mine[r] \in Record
      /\ UNCHANGED <<outbox, local, mine, upload, reported>>
  BY DEF Damage, WorkInv, Shapes, Shape, Holding, RunTypes
<1>2. ServerTypes'
  BY <1>1, Ciphers DEF Damage, WorkInv, ServerTypes
<1>3. RunTypes' /\ Shapes'
  BY <1>1, GotoKeeps DEF Damage, WorkInv, Steps, Holding
<1>4. OtherTypes'
  BY <1>1, BackupTransferAssumption DEF WorkInv, OtherTypes, Damage
<1> QED BY <1>1, <1>2, <1>3, <1>4, SameGrows, NewestStays DEF WorkInv

(* Steps that touch neither files, server nor runs.                        *)
LEMMA OutsideWork ==
  ASSUME WorkInv, (\E a \in Archive : Arrive(a) \/ Forget(a)) \/ UNCHANGED vars
  PROVE  WorkInv' /\ UNCHANGED <<local, server, run, reported>>
<1>1. UNCHANGED <<local, server, run, reported>> /\ OtherTypes'
  BY DEF Arrive, Forget, vars, WorkInv, OtherTypes
<1>2. RunTypes' /\ Shapes'
  BY <1>1 DEF WorkInv, RunTypes, Shapes, Shape, run, local
<1> QED BY <1>1, <1>2, SameGrows, ServerStays, NewestStays DEF WorkInv

(* Every step keeps what ties a run to the local files.                    *)
LEMMA WorkStep == WorkInv /\ [Next]_vars => WorkInv'
<1> SUFFICES ASSUME WorkInv, [Next]_vars PROVE WorkInv'
  OBVIOUS
<1>1. ASSUME NEW r \in Run, BeginDrain(r) PROVE WorkInv'
  <2>1. Ready \in SUBSET Archive
    BY DEF Ready
  <2> QED BY <1>1, <2>1, BeginWork DEF BeginDrain
<1>2. ASSUME NEW r \in Run, BeginTransfer(r) PROVE WorkInv'
  BY <1>2, BeginWork DEF BeginTransfer
<1>3. ASSUME NEW r \in Run, RunStep(r) PROVE WorkInv'
  <2>1. CASE Connect(r)
    BY <2>1, GotoKeeps, SameGrows, ServerStays, NewestStays
       DEF Connect, WorkInv, OtherTypes, Steps, Holding
  <2> QED BY <1>3, <2>1, OpenWork, EncryptWork, HashWork, WriteWork, UploadWork,
             RenameWork, VerifyWork, SidecarWork, PublishWork, EndWork, QuitWork
          DEF RunStep
<1>4. ASSUME NEW r \in Run, Fails(r) PROVE WorkInv'
  BY <1>4, EndWork
<1>5. ASSUME NEW r \in Run, Damage(r) PROVE WorkInv'
  BY <1>5, DamageWork
<1> QED BY <1>1, <1>2, <1>3, <1>4, <1>5, OutsideWork DEF Next

(* Whatever the runs, however they overlap and wherever they fail.         *)
THEOREM TransferInvariance == Spec => []WorkInv
  BY InitWork, WorkStep, PTL DEF Spec

(* Every variable keeps its type: no step reads a ciphertext, a record or  *)
(* an upload that is not there.                                            *)
THEOREM TransferTypeCorrect == Spec => []TypeOK
<1>1. WorkInv => TypeOK
  BY TypeParts DEF WorkInv
<1> QED BY <1>1, TransferInvariance, PTL

-----------------------------------------------------------------------------
(* At most two runs at work: a drain and a transfer the operator starts    *)
(* beside it, say, or two of the many that only ever run one by one.       *)

(* The hypothesis: runs follow one another, or there are but two.          *)
TwoAtOnce == Serial \/ \A r, q, w \in Run : r = q \/ q = w \/ r = w

(* What it says of a state.                                                *)
AtMostTwo ==
  \A r, q, w \in Run : \/ r = q \/ q = w \/ r = w
                       \/ pc[r] = "idle" \/ pc[q] = "idle" \/ pc[w] = "idle"

(* Two runs that hold the same ciphertext hold the newest one: the second  *)
(* got it when it was, and neither of them encrypts.                       *)
Shared ==
  \A r, q \in Run :
    r # q /\ mine[r] # None /\ mine[q] # None /\ mine[r].cipher = mine[q].cipher
      => cipher[mine[r].cipher[1]] = mine[r].cipher

(* Nobody else holds the ciphertext of a run, nor can get hold of it.      *)
Alone(r) ==
  \A q \in Run : q # r =>
    /\ mine[q] # None => mine[q].cipher # mine[r].cipher
    /\ pc[q] \in {"encrypt", "hash"} => Oldest(todo[q]) # mine[r].cipher[1]

(* When another run has written over the local record, the one that is to  *)
(* publish its own will send the wrong one, but to a name of its own.      *)
Overwritten ==
  \A r \in Run :
    /\ pc[r] = "sidecar" /\ record[mine[r].cipher[1]].cipher # mine[r].cipher
         => Alone(r)
    /\ pc[r] = "publish" /\ upload[r] # mine[r].cipher
         => Alone(r) /\ record[mine[r].cipher[1]].cipher # mine[r].cipher

(* A rename will replace nothing but damage or what it puts there itself.  *)
Places ==
  \A r \in Run :
    /\ pc[r] = "rename" => remote[mine[r].cipher] \in {None, Damaged, upload[r]}
    /\ pc[r] = "publish" => sidecar[mine[r].cipher] \in {None, Damaged, upload[r]}

(* A run that remembers having read a ciphertext back is right.            *)
Marked ==
  \A r \in Run :
    mine[r] # None /\ mine[r].status = "download-verified" =>
      remote[mine[r].cipher] = mine[r].cipher

PairInv == AtMostTwo /\ Shared /\ Overwritten /\ Places /\ Marked /\ VerifiedIsStored

(* What is sound on the server stays as it is.                             *)
Kept ==
  \A n \in Cipher : /\ remote[n] \in Cipher => remote'[n] = remote[n]
                    /\ sidecar[n] \in Cipher => sidecar'[n] = sidecar[n]

(* Whatever a run has in hand at a step that needs a record.               *)
LEMMA Held ==
  ASSUME WorkInv, NEW r \in Run, mine[r] # None \/ pc[r] \in Holding
  PROVE  /\ pc[r] \in Holding /\ pc[r] # "idle"
         /\ mine[r] \in Record /\ mine[r] # None /\ mine[r].cipher \in Cipher
         /\ mine[r].cipher[1] \in Archive /\ mine[r].cipher[1] = Oldest(todo[r])
<1>1. pc[r] \in Holding /\ pc[r] # "idle" /\ mine[r] # None
  BY DEF WorkInv, Shapes, Shape, Holding
<1>2. mine[r] \in Record
  BY <1>1 DEF WorkInv, RunTypes
<1> QED BY <1>1, <1>2, Ciphers DEF WorkInv, Shapes, Shape

(* Only Rename, Publish and Damage write to the server, and what they      *)
(* replace is absent, damaged or the same.                                 *)
LEMMA ServerKept == WorkInv /\ PairInv /\ [Next]_vars => Kept
<1> SUFFICES ASSUME WorkInv, PairInv, [Next]_vars, ~UNCHANGED server PROVE Kept
  BY DEF Kept, server
<1>1. PICK r \in Run : Rename(r) \/ Publish(r) \/ Damage(r)
  <2>1. \/ \E r \in Run : BeginDrain(r) \/ BeginTransfer(r) \/ RunStep(r) \/ Fails(r) \/ Damage(r)
        \/ (\E a \in Archive : Arrive(a) \/ Forget(a)) \/ UNCHANGED vars
    BY DEF Next
  <2> QED BY <2>1, OutsideWork
       DEF BeginDrain, BeginTransfer, Begin, RunStep, Fails, Open, OpenRefused,
           Encrypt, Hash, WriteRecord, Connect, Upload, Verify, VerifyFails, Mark,
           Sidecar, SidecarRefused, Quit
<1>2. mine[r].cipher \in Cipher
  BY <1>1, Held DEF Rename, Publish, Damage, Holding
<1>3. /\ pc[r] = "rename" => remote[mine[r].cipher] \in {None, Damaged, upload[r]}
      /\ pc[r] = "publish" => sidecar[mine[r].cipher] \in {None, Damaged, upload[r]}
  BY DEF PairInv, Places
<1>4. None \notin Cipher /\ Damaged \notin Cipher
  BY BackupTransferAssumption
<1> QED BY <1>1, <1>2, <1>3, <1>4 DEF Kept, Rename, Publish, Damage, WorkInv, ServerTypes

(* At first nothing is held, recorded or stored.                           *)
LEMMA InitPair == Init => PairInv
  BY DEF Init, PairInv, AtMostTwo, Shared, Overwritten, Places, Marked, VerifiedIsStored

(* Only Begin wakes a run.                                                 *)
LEMMA TwoStep ==
  ASSUME TwoAtOnce, WorkInv, AtMostTwo, [Next]_vars PROVE AtMostTwo'
<1>1. ASSUME NEW r \in Run, NEW S, NEW v, Begin(r, S, v) PROVE AtMostTwo'
  BY <1>1 DEF Begin, TwoAtOnce, AtMostTwo, WorkInv, RunTypes
<1>2. ASSUME NEW r \in Run, RunStep(r) \/ Fails(r) \/ Damage(r)
      PROVE  pc[r] # "idle" /\ \A q \in Run : q # r => pc'[q] = pc[q]
  <2>1. CASE Fails(r)
    BY <2>1, BackupTransferAssumption DEF Fails, Stop, WorkInv, RunTypes, Steps
  <2>2. CASE Damage(r)
    BY <2>2 DEF Damage, Goto, WorkInv, RunTypes
  <2>3. CASE RunStep(r)
    BY <2>3 DEF RunStep, Open, OpenRefused, Encrypt, Hash, WriteRecord, Connect, Upload,
       Rename, Verify, VerifyFails, Mark, Sidecar, SidecarRefused, Publish, Quit,
       Sent, Stop, Goto, WorkInv, RunTypes
  <2> QED BY <1>2, <2>1, <2>2, <2>3
<1>3. ASSUME NEW r \in Run, RunStep(r) \/ Fails(r) \/ Damage(r) PROVE AtMostTwo'
  <2>1. \A q \in Run : pc'[q] # "idle" => pc[q] # "idle"
    BY <1>2, <1>3
  <2> QED BY <2>1 DEF AtMostTwo
<1>4. CASE (\E a \in Archive : Arrive(a) \/ Forget(a)) \/ UNCHANGED vars
  BY <1>4, OutsideWork DEF run, AtMostTwo
<1> QED BY <1>1, <1>3, <1>4 DEF Next, BeginDrain, BeginTransfer

-----------------------------------------------------------------------------
(* Steps that take no ciphertext and write none *)

(* A run keeps its ciphertext, lets go of it, or does nothing.             *)
Still(q) ==
  \/ mine'[q] = None /\ pc'[q] \notin {"encrypt", "hash", "sidecar", "rename", "publish"}
  \/ /\ mine[q] # None /\ mine'[q].cipher = mine[q].cipher
     /\ pc'[q] \notin {"encrypt", "hash", "sidecar", "publish"}
  \/ /\ pc'[q] = pc[q] /\ todo'[q] = todo[q] /\ mine'[q] = mine[q]
     /\ upload'[q] = upload[q]

(* While runs keep what they hold or let go of it, and the local files     *)
(* stay, nobody comes to hold what another one holds.                      *)
LEMMA StillPairs ==
  ASSUME WorkInv, Shared, Overwritten, UNCHANGED local, \A q \in Run : Still(q)
  PROVE  Shared' /\ Overwritten'
<1>1. Shared'
  BY DEF Shared, Still, local
<1>2. ASSUME NEW r \in Run, pc[r] \in {"sidecar", "publish"}, Alone(r),
             pc'[r] = pc[r], mine'[r] = mine[r]
      PROVE  Alone(r)'
  BY <1>2 DEF Alone, Still
<1>3. Overwritten'
  BY <1>2 DEF Overwritten, Still, local
<1> QED BY <1>1, <1>3

(* The other runs keep what they hold.                                     *)
LEMMA OthersStill ==
  ASSUME NEW r \in Run, Others(r) PROVE \A q \in Run : q # r => Still(q)
  BY DEF Others, Still

(* The server is left alone, and so is what the others are to put there.   *)
LEMMA PlacesStay ==
  ASSUME Places, UNCHANGED server, NEW r \in Run, Others(r),
         pc'[r] \notin {"rename", "publish"}
  PROVE  Places'
  BY DEF Places, Others, server

(* A run that stops moves no other.                                        *)
LEMMA StopOthers == ASSUME WorkInv, NEW r \in Run, Stop(r) PROVE Others(r)
  BY DEF Stop, Others, WorkInv, RunTypes

(* Neither does one that goes on.                                          *)
LEMMA GotoOthers ==
  ASSUME WorkInv, NEW r \in Run, NEW s \in Steps, Goto(r, s),
         \/ UNCHANGED mine \/ \E m : mine' = [mine EXCEPT ![r] = m],
         \/ UNCHANGED upload \/ \E u : upload' = [upload EXCEPT ![r] = u]
  PROVE  Others(r) /\ pc'[r] = s /\ todo'[r] = todo[r] /\ verify'[r] = verify[r]
  BY DEF Goto, Others, WorkInv, RunTypes

(* A run that ends or goes to another archive.                             *)
LEMMA EndPairs ==
  ASSUME WorkInv, PairInv, NEW r \in Run,
         OpenRefused(r) \/ VerifyFails(r) \/ SidecarRefused(r) \/ Fails(r) \/ Quit(r)
  PROVE  Shared' /\ Overwritten' /\ Places'
<1>1. UNCHANGED <<local, server>>
  BY DEF OpenRefused, VerifyFails, SidecarRefused, Fails, Quit
<1>2. Others(r) /\ mine'[r] = None /\ pc'[r] \in {"idle", "open"}
  <2>1. CASE Stop(r)
    BY <2>1, StopOthers DEF Stop, WorkInv, RunTypes
  <2>2. CASE Quit(r) /\ ~Stop(r)
    BY <2>2 DEF Quit, Sent, Others, WorkInv, RunTypes
  <2> QED BY <2>1, <2>2, EndWork
<1>3. Still(r)
  BY <1>2 DEF Still
<1> QED BY <1>1, <1>2, <1>3, OthersStill, StillPairs, PlacesStay DEF PairInv

(* A run that begins has no ciphertext yet.                                *)
LEMMA BeginPairs ==
  ASSUME WorkInv, PairInv, NEW r \in Run, NEW S \in SUBSET Archive, NEW v \in BOOLEAN,
         Begin(r, S, v)
  PROVE  Shared' /\ Overwritten' /\ Places'
<1>1. UNCHANGED <<local, server>>
  BY DEF Begin
<1>2. Others(r) /\ mine'[r] = None /\ pc'[r] = "open"
  BY DEF Begin, Others, WorkInv, RunTypes, Shapes, Shape, Holding
<1>3. Still(r)
  BY <1>2 DEF Still
<1> QED BY <1>1, <1>2, <1>3, OthersStill, StillPairs, PlacesStay DEF PairInv

(* A run that goes on with the ciphertext it has.                          *)
LEMMA ProceedPairs ==
  ASSUME WorkInv, PairInv, NEW r \in Run,
         \/ Connect(r) \/ Verify(r)
         \/ Upload(r) /\ Goto(r, "verify")
         \/ Sidecar(r) /\ Goto(r, "quit")
  PROVE  Shared' /\ Overwritten' /\ Places'
<1>1. UNCHANGED <<local, server>> /\ pc[r] \in Holding
  BY DEF Connect, Verify, Upload, Sidecar, Holding
<1>2. mine[r] # None /\ mine[r] \in Record
  BY <1>1, Held
<1>3. /\ Others(r) /\ mine'[r].cipher = mine[r].cipher
      /\ pc'[r] \in {"upload", "verify", "mark", "quit"}
  <2>1. CASE Connect(r)
    BY <2>1, GotoOthers DEF Connect, Steps
  <2>2. CASE Verify(r)
    <3> DEFINE t == IF verify[r] THEN "download-verified" ELSE "remote-size-verified"
               m == [mine[r] EXCEPT !.status = t]
    <3>1. mine' = [mine EXCEPT ![r] = m] /\ Goto(r, "mark") /\ UNCHANGED upload
      BY <2>2 DEF Verify
    <3>2. t \in Statuses
      BY DEF Statuses
    <3> HIDE DEF t
    <3>3. m.cipher = mine[r].cipher
      BY <1>2, <3>2, Restatus
    <3> HIDE DEF m
    <3>4. mine'[r] = m
      BY <3>1 DEF WorkInv, RunTypes
    <3> QED BY <3>1, <3>3, <3>4, GotoOthers DEF Steps
  <2>3. CASE Upload(r) /\ Goto(r, "verify")
    BY <2>3, GotoOthers DEF Upload, Steps
  <2>4. CASE Sidecar(r) /\ Goto(r, "quit")
    BY <2>4, GotoOthers DEF Sidecar, Steps
  <2> QED BY <2>1, <2>2, <2>3, <2>4
<1>4. Still(r)
  BY <1>2, <1>3 DEF Still
<1> QED BY <1>1, <1>3, <1>4, OthersStill, StillPairs, PlacesStay DEF PairInv

-----------------------------------------------------------------------------
(* Steps that take a ciphertext or make one *)

(* Nobody who publishes a record of this archive minds a run that encrypts *)
(* for want of one.                                                        *)
LEMMA OpenPairs ==
  ASSUME WorkInv, PairInv, NEW r \in Run, Open(r)
  PROVE  Shared' /\ Overwritten' /\ Places'
<1> DEFINE a == Oldest(todo[r])
<1>1. /\ pc[r] = "open" /\ Current(r) = a /\ a \in Archive
      /\ UNCHANGED <<local, server, upload>>
  BY InHand, CurrentIsOldest DEF Open, WorkInv
<1>2. CASE record[a] = None /\ Goto(r, "encrypt") /\ UNCHANGED mine
  <2>1. Others(r) /\ pc'[r] = "encrypt" /\ mine'[r] = None /\ todo'[r] = todo[r]
    BY <1>1, <1>2, GotoOthers DEF Steps, WorkInv, Shapes, Shape, Holding
  <2>2. Shared'
    BY <1>1, <2>1 DEF PairInv, Shared, Others, local
  <2>3. ASSUME NEW q \in Run, q # r, pc[q] \in {"sidecar", "publish"}
        PROVE  mine[q].cipher[1] # a
    <3>1. record[mine[q].cipher[1]] # None
      BY <2>3, Held DEF WorkInv, Shapes, Shape, Holding
    <3> QED BY <1>2, <3>1
  <2>4. ASSUME NEW q \in Run, q # r, pc[q] \in {"sidecar", "publish"}, Alone(q)
        PROVE  Alone(q)'
    <3>1. mine'[q] = mine[q] /\ a # mine[q].cipher[1]
      BY <2>1, <2>3, <2>4 DEF Others
    <3> QED BY <2>1, <2>4, <3>1 DEF Alone, Others
  <2>5. Overwritten'
    BY <1>1, <2>1, <2>4 DEF PairInv, Overwritten, Others, local
  <2> QED BY <1>1, <2>1, <2>2, <2>5, PlacesStay DEF PairInv
<1>3. CASE /\ cipher[a] # None /\ record[a] # None /\ record[a].cipher = cipher[a]
           /\ mine' = [mine EXCEPT ![r] = record[a]]
           /\ Goto(r, "connect")
  <2>1. Others(r) /\ pc'[r] = "connect" /\ mine'[r] = record[a]
    BY <1>1, <1>3, GotoOthers DEF Steps, WorkInv, RunTypes
  <2>2. record[a].cipher[1] = a
    BY <1>1, <1>3 DEF WorkInv, Newest
  <2>3. Shared'
    BY <1>1, <1>3, <2>1, <2>2 DEF PairInv, Shared, Others, local
  <2>4. ASSUME NEW q \in Run, q # r, pc[q] \in {"sidecar", "publish"}, Alone(q),
               record[mine[q].cipher[1]].cipher # mine[q].cipher
        PROVE  Alone(q)'
    <3>1. mine'[q] = mine[q] /\ record[a].cipher # mine[q].cipher
      BY <2>1, <2>2, <2>4 DEF Others
    <3> QED BY <2>1, <2>4, <3>1 DEF Alone, Others
  <2>5. Overwritten'
    BY <1>1, <2>1, <2>4 DEF PairInv, Overwritten, Others, local
  <2> QED BY <1>1, <2>1, <2>3, <2>5, PlacesStay DEF PairInv
<1> QED BY <1>1, <1>2, <1>3 DEF Open

(* While one encrypts, no two others are at work.                          *)
LEMMA EncryptPairs ==
  ASSUME WorkInv, PairInv, NEW r \in Run, Encrypt(r)
  PROVE  Shared' /\ Overwritten' /\ Places'
<1>1. /\ pc[r] = "encrypt" /\ mine[r] = None
      /\ Goto(r, "hash") /\ UNCHANGED <<record, server, mine, upload>>
  BY DEF Encrypt, WorkInv, Shapes, Shape, Holding
<1>2. Others(r) /\ pc'[r] = "hash" /\ mine'[r] = None /\ todo'[r] = todo[r]
  BY <1>1, GotoOthers DEF Steps
<1>3. Shared'
  <2>1. ASSUME NEW p \in Run, NEW q \in Run, p # q, mine[p] # None, mine[q] # None
        PROVE  FALSE
    <3>1. p # r /\ q # r /\ pc[p] # "idle" /\ pc[q] # "idle" /\ pc[r] # "idle"
      BY <1>1, <2>1, Held
    <3> QED BY <2>1, <3>1 DEF PairInv, AtMostTwo
  <2> QED BY <1>1, <2>1 DEF Shared
<1>4. ASSUME NEW q \in Run, q # r, Alone(q)
      PROVE  Alone(q)'
  BY <1>1, <1>2, <1>4 DEF Alone, Others
<1>5. Overwritten'
  BY <1>1, <1>2, <1>4 DEF PairInv, Overwritten, Others
<1> QED BY <1>1, <1>2, <1>3, <1>5, PlacesStay DEF PairInv

(* A run that takes the ciphertext of its archive takes the newest.        *)
LEMMA HashPairs ==
  ASSUME WorkInv, PairInv, NEW r \in Run, Hash(r)
  PROVE  Shared' /\ Overwritten' /\ Places'
<1> DEFINE a == Oldest(todo[r])
           m == [cipher |-> cipher[a], status |-> "encrypted"]
<1>1. /\ pc[r] = "hash" /\ Current(r) = a /\ a \in Archive
      /\ mine' = [mine EXCEPT ![r] = m] /\ m.cipher = cipher[a]
      /\ Goto(r, "record") /\ UNCHANGED <<local, server, upload>>
  BY InHand, CurrentIsOldest DEF Hash, WorkInv
<1> HIDE DEF m
<1>2. Others(r) /\ pc'[r] = "record" /\ mine'[r] = m
  BY <1>1, GotoOthers DEF Steps, WorkInv, RunTypes
<1>3. cipher[a] # None /\ cipher[a] = <<a, made[a]>>
  BY <1>1 DEF WorkInv, Shapes, Shape, Newest
<1>4. m.cipher[1] = a
  BY <1>1, <1>3
<1>5. Shared'
  BY <1>1, <1>2, <1>4 DEF PairInv, Shared, Others, local
<1>6. ASSUME NEW q \in Run, q # r, Alone(q) PROVE Alone(q)'
  <2>1. mine'[q] = mine[q] /\ m.cipher # mine[q].cipher
    BY <1>1, <1>2, <1>4, <1>6 DEF Others, Alone
  <2> QED BY <1>2, <1>6, <2>1 DEF Alone, Others
<1>7. Overwritten'
  BY <1>1, <1>2, <1>6 DEF PairInv, Overwritten, Others, local
<1> QED BY <1>1, <1>2, <1>5, <1>7, PlacesStay DEF PairInv

-----------------------------------------------------------------------------
(* Steps that write a record or put something on the server *)

(* A run that writes its record overwrites that of the other run only when *)
(* its ciphertext is another one.                                          *)
LEMMA WritePairs ==
  ASSUME WorkInv, PairInv, NEW r \in Run, WriteRecord(r) \/ Mark(r)
  PROVE  Shared' /\ Overwritten' /\ Places'
<1> DEFINE a == Oldest(todo[r])
           s == IF pc[r] = "record" THEN "connect" ELSE "sidecar"
<1>1. /\ pc[r] \in Holding /\ Current(r) = a /\ a \in Archive
      /\ record' = [record EXCEPT ![a] = mine[r]]
      /\ Goto(r, s) /\ s \in {"connect", "sidecar"}
      /\ UNCHANGED <<cipher, server, mine, upload>>
  BY InHand, CurrentIsOldest DEF WriteRecord, Mark, WorkInv, Holding
<1> HIDE DEF s
<1>2. Others(r) /\ pc'[r] = s /\ mine'[r] = mine[r] /\ todo'[r] = todo[r]
  BY <1>1, GotoOthers DEF Steps
<1>3. /\ mine[r].cipher[1] = a /\ mine[r] # None /\ pc[r] # "idle"
  BY <1>1, Held
<1>4. /\ record'[a] = mine[r]
      /\ \A b \in Archive : b # a => record'[b] = record[b]
  BY <1>1 DEF WorkInv, LocalTypes
<1> HIDE DEF a
<1>5. Shared'
  BY <1>1 DEF PairInv, Shared
<1>6. ASSUME NEW q \in Run, q # r, Alone(q) PROVE Alone(q)'
  BY <1>1, <1>2, <1>6 DEF Alone, Others
<1>7. ASSUME NEW q \in Run, q # r, pc[q] \in {"sidecar", "publish"},
             mine[r].cipher # mine[q].cipher
      PROVE  Alone(q)'
  <2>1. ASSUME NEW w \in Run, w # q, w # r
        PROVE  pc'[w] = "idle" /\ mine'[w] = None
    <3>1. pc[w] = "idle"
      BY <1>3, <1>7, <2>1 DEF PairInv, AtMostTwo
    <3>2. mine[w] = None
      BY <3>1, Held
    <3> QED BY <1>2, <2>1, <3>1, <3>2 DEF Others
  <2>2. mine'[q] = mine[q] /\ mine'[r].cipher # mine[q].cipher
        /\ pc'[r] \notin {"encrypt", "hash"}
    BY <1>1, <1>2, <1>7 DEF Others
  <2> QED BY <2>1, <2>2 DEF Alone
<1>8. ASSUME NEW q \in Run, q # r
      PROVE  /\ pc'[q] = "sidecar" /\ record'[mine'[q].cipher[1]].cipher # mine'[q].cipher
                  => Alone(q)'
             /\ pc'[q] = "publish" /\ upload'[q] # mine'[q].cipher
                  => Alone(q)' /\ record'[mine'[q].cipher[1]].cipher # mine'[q].cipher
  <2>1. /\ pc'[q] = pc[q] /\ mine'[q] = mine[q] /\ upload'[q] = upload[q]
    BY <1>2, <1>8 DEF Others
  <2>2. pc[q] \in {"sidecar", "publish"} => mine[q].cipher[1] \in Archive /\ mine[q] # None
    BY Held DEF Holding
  <2>3. CASE pc[q] = "sidecar"
    BY <1>4, <1>6, <1>7, <1>8, <2>1, <2>2, <2>3 DEF PairInv, Overwritten
  <2>4. CASE pc[q] = "publish" /\ upload[q] # mine[q].cipher
    <3>1. Alone(q) /\ record[mine[q].cipher[1]].cipher # mine[q].cipher
      BY <2>4 DEF PairInv, Overwritten
    <3>2. mine[r].cipher # mine[q].cipher
      BY <1>3, <1>8, <3>1 DEF Alone
    <3> QED BY <1>4, <1>6, <1>8, <2>1, <2>2, <2>4, <3>1, <3>2
  <2> QED BY <2>1, <2>3, <2>4
<1>9. Overwritten'
  <2>1. pc'[r] # "publish" /\ record'[mine'[r].cipher[1]].cipher = mine'[r].cipher
    BY <1>1, <1>2, <1>3, <1>4
  <2> QED BY <1>8, <2>1 DEF Overwritten
<1> QED BY <1>1, <1>2, <1>5, <1>9, PlacesStay DEF PairInv

(* An upload is of the newest ciphertext, which may be newer than the one  *)
(* the run holds, but has no name yet.                                     *)
LEMMA UploadPairs ==
  ASSUME WorkInv, PairInv, NEW r \in Run, Upload(r), Goto(r, "rename")
  PROVE  Shared' /\ Overwritten' /\ Places'
<1>1. /\ pc[r] = "upload" /\ UNCHANGED <<local, server, mine>>
      /\ remote[mine[r].cipher] = None
      /\ upload' = [upload EXCEPT ![r] = cipher[Current(r)]]
  <2>1. pc'[r] = "rename"
    BY GotoOthers DEF Goto, WorkInv, RunTypes
  <2> QED BY <2>1 DEF Upload, Goto, WorkInv, RunTypes
<1>2. Others(r) /\ pc'[r] = "rename"
  BY <1>1, GotoOthers DEF Steps
<1>3. Still(r)
  BY <1>1, <1>2, Held DEF Still, Holding
<1>4. Places'
  BY <1>1, <1>2 DEF PairInv, Places, Others, server
<1> QED BY <1>1, <1>2, <1>3, <1>4, OthersStill, StillPairs DEF PairInv

(* A record that is sent is that of the run, or goes to a name that nobody *)
(* else has.                                                               *)
LEMMA SidecarPairs ==
  ASSUME WorkInv, PairInv, NEW r \in Run, Sidecar(r), Goto(r, "publish")
  PROVE  Shared' /\ Overwritten' /\ Places'
<1> DEFINE a == Oldest(todo[r])
<1>1. /\ pc[r] = "sidecar" /\ UNCHANGED <<local, server, mine>>
      /\ sidecar[mine[r].cipher] = None
      /\ upload' = [upload EXCEPT ![r] = record[a].cipher]
  BY CurrentIsOldest DEF Sidecar, Goto, WorkInv, RunTypes
<1>2. Others(r) /\ pc'[r] = "publish" /\ upload'[r] = record[a].cipher
  BY <1>1, GotoOthers DEF Steps, WorkInv, RunTypes
<1>3. mine[r].cipher[1] = a
  BY <1>1, Held DEF Holding
<1> HIDE DEF a
<1>4. Shared'
  BY <1>1 DEF PairInv, Shared, local
<1>5. ASSUME NEW q \in Run, Alone(q) PROVE Alone(q)'
  BY <1>1, <1>2, <1>5 DEF Alone, Others
<1>6. Overwritten'
  BY <1>1, <1>2, <1>3, <1>5 DEF PairInv, Overwritten, Others, local
<1>7. Places'
  BY <1>1, <1>2 DEF PairInv, Places, Others, server
<1> QED BY <1>4, <1>6, <1>7

(* Two that are to rename to the same name have the same to put there.     *)
LEMMA SameUpload ==
  ASSUME WorkInv, PairInv, NEW r \in Run, NEW q \in Run, r # q,
         pc[r] = "rename", pc[q] = "rename", mine[r].cipher = mine[q].cipher
  PROVE  upload[q] = mine[q].cipher
<1> DEFINE n == mine[q].cipher
           a == n[1]
<1>1. n \in Cipher /\ a \in Archive /\ a = Oldest(todo[q]) /\ mine[q] # None /\ mine[r] # None
  BY Held DEF Holding
<1>2. cipher[a] = n
  BY <1>1 DEF PairInv, Shared
<1>3. made[a] \in 0 .. MaxCiphers /\ cipher[a] = <<a, made[a]>>
  BY <1>1, <1>2, Ciphers DEF WorkInv, LocalTypes, Newest
<1>4. n[2] = made[a] /\ upload[q] \in Cipher /\ upload[q][1] = a
      /\ n[2] <= upload[q][2] /\ upload[q][2] <= made[a]
  <2>1. n = <<a, made[a]>>
    BY <1>2, <1>3
  <2>2. n[2] = made[a]
    BY <2>1
  <2>3. Shape(q) /\ upload[q] \in Cipher \cup {None}
    BY DEF WorkInv, Shapes, RunTypes
  <2> HIDE DEF n, a
  <2>4. mine[q].cipher = n /\ Oldest(todo[q]) = a
    BY <1>1 DEF n
  <2> QED BY <2>2, <2>3, <2>4 DEF Shape
<1>5. upload[q][2] = made[a]
  <2>1. upload[q][2] \in Nat /\ made[a] \in Nat
    BY <1>3, <1>4, Ciphers, BackupTransferAssumption
  <2>2. made[a] <= upload[q][2] /\ upload[q][2] <= made[a]
    BY <1>4
  <2> QED BY <2>1, <2>2
<1> QED BY <1>2, <1>3, <1>4, <1>5, Ciphers

(* The name a rename takes is free, damaged or already right.              *)
LEMMA RenamePairs ==
  ASSUME WorkInv, PairInv, NEW r \in Run, Rename(r)
  PROVE  Shared' /\ Overwritten' /\ Places'
<1>1. /\ pc[r] = "rename" /\ UNCHANGED <<local, sidecar, mine, upload>>
      /\ remote' = [remote EXCEPT ![mine[r].cipher] = upload[r]]
  BY DEF Rename
<1>2. Others(r) /\ pc'[r] = "verify"
  BY <1>1, GotoOthers DEF Rename, Steps
<1>3. mine[r] # None /\ mine[r].cipher \in Cipher
  BY <1>1, Held DEF Holding
<1>4. Still(r)
  BY <1>1, <1>2, <1>3 DEF Still
<1>5. ASSUME NEW q \in Run, q # r, pc[q] = "rename", mine[q].cipher = mine[r].cipher
      PROVE  upload[r] = upload[q]
  BY <1>1, <1>5, SameUpload
<1>6. Places'
  BY <1>1, <1>2, <1>3, <1>5 DEF PairInv, Places, Others, WorkInv, ServerTypes
<1> QED BY <1>1, <1>2, <1>4, <1>6, OthersStill, StillPairs DEF PairInv

(* So is that of a record.                                                 *)
LEMMA PublishPairs ==
  ASSUME WorkInv, PairInv, NEW r \in Run, Publish(r)
  PROVE  Shared' /\ Overwritten' /\ Places'
<1>1. /\ pc[r] = "publish" /\ UNCHANGED <<local, remote, mine, upload>>
      /\ sidecar' = [sidecar EXCEPT ![mine[r].cipher] = upload[r]]
  BY DEF Publish
<1>2. Others(r) /\ pc'[r] = "quit"
  BY <1>1, GotoOthers DEF Publish, Steps
<1>3. mine[r] # None /\ mine[r].cipher \in Cipher
  BY <1>1, Held DEF Holding
<1>4. Still(r)
  BY <1>1, <1>2, <1>3 DEF Still
<1>5. ASSUME NEW q \in Run, q # r, pc[q] = "publish", mine[q].cipher = mine[r].cipher
      PROVE  upload[r] = upload[q]
  <2>1. mine[q] # None
    BY <1>5, Held DEF Holding
  <2>2. ~Alone(r) /\ ~Alone(q)
    BY <1>3, <1>5, <2>1 DEF Alone
  <2> QED BY <1>1, <1>5, <2>2 DEF PairInv, Overwritten
<1>6. Places'
  BY <1>1, <1>2, <1>3, <1>5 DEF PairInv, Places, Others, WorkInv, ServerTypes
<1> QED BY <1>1, <1>2, <1>4, <1>6, OthersStill, StillPairs DEF PairInv

(* Damage strikes no copy that anyone has read back.                       *)
LEMMA DamagePairs ==
  ASSUME WorkInv, PairInv, NEW r \in Run, Damage(r)
  PROVE  Shared' /\ Overwritten' /\ Places'
<1>1. /\ pc[r] \in {"rename", "publish"} /\ UNCHANGED <<local, mine, upload>>
      /\ Goto(r, "verify") \/ Goto(r, "quit")
  BY DEF Damage
<1>2. Others(r) /\ pc'[r] \in {"verify", "quit"}
  BY <1>1, GotoOthers DEF Steps
<1>3. mine[r] # None /\ mine[r].cipher \in Cipher
  BY <1>1, Held DEF Holding
<1>4. Still(r)
  BY <1>1, <1>2, <1>3 DEF Still
<1>5. \A n \in Cipher : /\ remote'[n] \in {remote[n], Damaged}
                        /\ sidecar'[n] \in {sidecar[n], Damaged}
  BY <1>3 DEF Damage, WorkInv, ServerTypes
<1>6. ASSUME NEW q \in Run, pc'[q] \in {"rename", "publish"}
      PROVE  q # r /\ pc[q] = pc'[q] /\ mine[q].cipher \in Cipher
  BY <1>2, <1>6, Held DEF Others, Holding
<1>7. ASSUME NEW q \in Run
      PROVE  /\ pc'[q] = "rename" =>
                  remote'[mine[q].cipher] \in {None, Damaged, upload[q]}
             /\ pc'[q] = "publish" =>
                  sidecar'[mine[q].cipher] \in {None, Damaged, upload[q]}
  <2>1. CASE pc'[q] = "rename"
    <3>1. pc[q] = "rename" /\ mine[q].cipher \in Cipher
      BY <1>6, <2>1
    <3>2. remote[mine[q].cipher] \in {None, Damaged, upload[q]}
      BY <3>1 DEF PairInv, Places
    <3> QED BY <1>5, <2>1, <3>1, <3>2
  <2>2. CASE pc'[q] = "publish"
    <3>1. pc[q] = "publish" /\ mine[q].cipher \in Cipher
      BY <1>6, <2>2
    <3>2. sidecar[mine[q].cipher] \in {None, Damaged, upload[q]}
      BY <3>1 DEF PairInv, Places
    <3> QED BY <1>5, <2>2, <3>1, <3>2
  <2> QED BY <2>1, <2>2
<1>8. Places'
  BY <1>1, <1>7 DEF Places
<1> QED BY <1>1, <1>2, <1>4, <1>8, OthersStill, StillPairs DEF PairInv

-----------------------------------------------------------------------------
(* What is remembered as verified stays true *)

(* A step that makes no claim about the server keeps the claims there are. *)
LEMMA ClaimsStay ==
  ASSUME WorkInv, PairInv, Kept,
         \A q \in Run : \/ mine'[q] = None \/ mine'[q] = mine[q]
                        \/ mine'[q].status = "encrypted",
         \A a \in Archive : \/ record'[a] = record[a]
                            \/ \E q \in Run : mine[q] # None /\ record'[a] = mine[q]
  PROVE  Marked' /\ VerifiedIsStored'
<1>1. ASSUME NEW n \in Cipher, remote[n] = n PROVE remote'[n] = n
  BY <1>1 DEF Kept
<1>2. Marked'
  <2>1. \A q \in Run : mine[q] # None => mine[q].cipher \in Cipher
    BY Held
  <2> QED BY <1>1, <2>1 DEF PairInv, Marked
<1>3. VerifiedIsStored'
  <2>1. \A q \in Run : mine[q] # None => mine[q].cipher \in Cipher
    BY Held
  <2>2. \A a \in Archive : record[a] # None => record[a].cipher \in Cipher
    BY Ciphers DEF WorkInv, LocalTypes
  <2>3. ASSUME NEW a \in Archive, record'[a] # None,
               record'[a].status = "download-verified"
        PROVE  remote'[record'[a].cipher] = record'[a].cipher
    <3>1. CASE record'[a] = record[a]
      BY <1>1, <2>2, <2>3, <3>1 DEF PairInv, VerifiedIsStored
    <3>2. CASE \E q \in Run : mine[q] # None /\ record'[a] = mine[q]
      BY <1>1, <2>1, <2>3, <3>2 DEF PairInv, Marked
    <3> QED BY <3>1, <3>2
  <2> QED BY <2>3 DEF VerifiedIsStored
<1> QED BY <1>2, <1>3

(* The two steps that take a claim over or make one.                       *)
LEMMA ClaimsMade ==
  ASSUME WorkInv, PairInv, NEW r \in Run, Open(r) \/ Verify(r)
  PROVE  Marked' /\ VerifiedIsStored'
<1>1. UNCHANGED <<local, server>>
  BY DEF Open, Verify
<1>2. VerifiedIsStored'
  BY <1>1 DEF PairInv, VerifiedIsStored, local, server
<1>3. CASE Open(r)
  <2>1. PICK m \in Record \cup {None} :
          /\ mine' = [mine EXCEPT ![r] = m]
          /\ m # None /\ m.status = "download-verified" => remote[m.cipher] = m.cipher
    <3>1. pc[r] = "open" /\ Current(r) \in Archive
      BY <1>3, InHand, CurrentIsOldest DEF Open, WorkInv
    <3>2. CASE UNCHANGED mine
      <4>1. mine = [mine EXCEPT ![r] = None]
        BY <3>1 DEF WorkInv, RunTypes, Shapes, Shape, Holding
      <4> QED BY <3>2, <4>1
    <3>3. CASE mine' = [mine EXCEPT ![r] = record[Current(r)]]
      BY <3>1, <3>3 DEF PairInv, VerifiedIsStored, WorkInv, LocalTypes
    <3> QED BY <1>3, <3>2, <3>3 DEF Open
  <2>2. mine'[r] = m /\ \A q \in Run : q # r => mine'[q] = mine[q]
    BY <2>1 DEF WorkInv, RunTypes
  <2> QED BY <1>1, <1>2, <2>1, <2>2 DEF PairInv, Marked, server
<1>4. CASE Verify(r)
  <2> DEFINE s == IF verify[r] THEN "download-verified" ELSE "remote-size-verified"
             m == [mine[r] EXCEPT !.status = s]
  <2>1. /\ pc[r] = "verify" /\ mine' = [mine EXCEPT ![r] = m]
        /\ verify[r] => remote[mine[r].cipher] = mine[r].cipher
    BY <1>4 DEF Verify
  <2>2. mine[r] \in Record
    BY <2>1, Held DEF Holding
  <2>3. s \in Statuses /\ (s = "download-verified" => verify[r])
    BY DEF Statuses
  <2> HIDE DEF s
  <2>4. m.cipher = mine[r].cipher /\ m.status = s
    BY <2>2, <2>3, Restatus
  <2> HIDE DEF m
  <2>5. mine'[r] = m /\ \A q \in Run : q # r => mine'[q] = mine[q]
    BY <2>1 DEF WorkInv, RunTypes
  <2> QED BY <1>1, <1>2, <2>1, <2>3, <2>4, <2>5 DEF PairInv, Marked, server
<1> QED BY <1>3, <1>4

-----------------------------------------------------------------------------
(* Every step keeps the invariant of two runs.                             *)
LEMMA PairStep == TwoAtOnce /\ WorkInv /\ PairInv /\ [Next]_vars => PairInv'
<1> SUFFICES ASSUME TwoAtOnce, WorkInv, PairInv, [Next]_vars PROVE PairInv'
  OBVIOUS
<1>1. AtMostTwo' /\ Kept
  BY TwoStep, ServerKept DEF PairInv
<1>2. ASSUME NEW r \in Run, NEW S \in SUBSET Archive, NEW v \in BOOLEAN, Begin(r, S, v)
      PROVE  PairInv'
  <2>1. Marked' /\ VerifiedIsStored'
    BY <1>1, <1>2, ClaimsStay DEF Begin, local
  <2> QED BY <1>1, <1>2, <2>1, BeginPairs DEF PairInv
<1>3. ASSUME NEW r \in Run, BeginDrain(r) \/ BeginTransfer(r) PROVE PairInv'
  <2>1. Ready \in SUBSET Archive
    BY DEF Ready
  <2> QED BY <1>2, <1>3, <2>1 DEF BeginDrain, BeginTransfer
<1>4. ASSUME NEW r \in Run, RunStep(r) \/ Fails(r) \/ Damage(r) PROVE PairInv'
  <2>1. Shared' /\ Overwritten' /\ Places'
    <3>1. CASE Upload(r)
      <4>1. Goto(r, "rename") \/ Goto(r, "verify")
        BY <3>1 DEF Upload
      <4>2. CASE Goto(r, "rename")
        BY <3>1, <4>2, UploadPairs
      <4>3. CASE Goto(r, "verify")
        BY <3>1, <4>3, ProceedPairs
      <4> QED BY <4>1, <4>2, <4>3
    <3>2. CASE Sidecar(r)
      <4>1. Goto(r, "publish") \/ Goto(r, "quit")
        BY <3>2 DEF Sidecar
      <4>2. CASE Goto(r, "publish")
        BY <3>2, <4>2, SidecarPairs
      <4>3. CASE Goto(r, "quit")
        BY <3>2, <4>3, ProceedPairs
      <4> QED BY <4>1, <4>2, <4>3
    <3> QED BY <1>4, <3>1, <3>2, EndPairs, ProceedPairs, OpenPairs, EncryptPairs,
               HashPairs, WritePairs, RenamePairs, PublishPairs, DamagePairs
            DEF RunStep
  <2>2. Marked' /\ VerifiedIsStored'
    <3>1. CASE Open(r) \/ Verify(r)
      BY <3>1, ClaimsMade
    <3>2. CASE WriteRecord(r) \/ Mark(r)
      <4>1. /\ pc[r] \in Holding /\ UNCHANGED mine
            /\ record' = [record EXCEPT ![Current(r)] = mine[r]]
        BY <3>2 DEF WriteRecord, Mark, Holding
      <4>2. mine[r] # None
        BY <4>1, Held
      <4> QED BY <1>1, <4>1, <4>2, ClaimsStay DEF WorkInv, LocalTypes
    <3>3. CASE Hash(r)
      <4>1. \A q \in Run : mine'[q] = mine[q] \/ mine'[q].status = "encrypted"
        BY <3>3 DEF Hash, WorkInv, RunTypes
      <4> QED BY <1>1, <3>3, <4>1, ClaimsStay DEF Hash, local
    <3>4. CASE \/ OpenRefused(r) \/ VerifyFails(r) \/ SidecarRefused(r) \/ Fails(r)
               \/ Quit(r)
      <4>1. UNCHANGED local /\ mine' = [mine EXCEPT ![r] = None]
        BY <3>4 DEF OpenRefused, VerifyFails, SidecarRefused, Fails, Quit, Sent, Stop
      <4> QED BY <1>1, <4>1, ClaimsStay DEF local, WorkInv, RunTypes
    <3>5. CASE \/ Encrypt(r) \/ Connect(r) \/ Upload(r) \/ Rename(r) \/ Sidecar(r)
               \/ Publish(r) \/ Damage(r)
      <4>1. UNCHANGED <<record, mine>>
        BY <3>5 DEF Encrypt, Connect, Upload, Rename, Sidecar, Publish, Damage, local
      <4> QED BY <1>1, <4>1, ClaimsStay
    <3> QED BY <1>4, <3>1, <3>2, <3>3, <3>4, <3>5 DEF RunStep
  <2> QED BY <1>1, <2>1, <2>2 DEF PairInv
<1>5. CASE (\E a \in Archive : Arrive(a) \/ Forget(a)) \/ UNCHANGED vars
  BY <1>5, OutsideWork
     DEF PairInv, AtMostTwo, Shared, Overwritten, Alone, Places, Marked,
         VerifiedIsStored, local, server, run
<1> QED BY <1>3, <1>4, <1>5 DEF Next

(* The invariant of two runs at work on the same local files.              *)
THEOREM TransferPairInvariance == ASSUME TwoAtOnce PROVE Spec => [](WorkInv /\ PairInv)
<1>1. Init => WorkInv /\ PairInv
  BY InitWork, InitPair
<1>2. WorkInv /\ PairInv /\ [Next]_vars => (WorkInv /\ PairInv)'
  BY WorkStep, PairStep
<1> QED BY <1>1, <1>2, PTL DEF Spec

(* What a local record calls download-verified, and every later drain      *)
(* therefore skips, is on the server: with two runs at work on the same    *)
(* archive, killed anywhere, and with copies that arrive damaged.          *)
THEOREM TransferVerifiedIsStored == ASSUME TwoAtOnce PROVE Spec => []VerifiedIsStored
<1>1. PairInv => VerifiedIsStored
  BY DEF PairInv
<1> QED BY <1>1, TransferPairInvariance, PTL

(* Two such runs never replace a sound object or record on the server,     *)
(* though each looks for a name long before it renames to it.              *)
THEOREM TransferReplacesNothing == ASSUME TwoAtOnce PROVE Spec => NothingReplaced
<1>1. WorkInv /\ PairInv /\ [Next]_vars =>
        [\A n \in Cipher :
           /\ remote[n] \in Cipher => remote'[n] = remote[n]
           /\ sidecar[n] \in Cipher => sidecar'[n] = sidecar[n]]_vars
  BY ServerKept DEF Kept
<1> QED BY <1>1, TransferPairInvariance, PTL DEF Spec, NothingReplaced

-----------------------------------------------------------------------------
(* One run at a time: what the operator's timer does when no transfer is   *)
(* started beside it                                                       *)

(* What Serial says of a state.                                            *)
OneAtMost == \A r, q \in Run : r = q \/ pc[r] = "idle" \/ pc[q] = "idle"

(* A run encrypts only what has no record, and from then on the ciphertext *)
(* and the record beside the archive are the ones it holds.                *)
Retry(r) ==
  /\ pc[r] \in {"encrypt", "hash", "record"} => record[Oldest(todo[r])] = None
  /\ pc[r] \in Holding => cipher[Oldest(todo[r])] = mine[r].cipher
  /\ pc[r] \in Holding \ {"record"} => record[Oldest(todo[r])].cipher = mine[r].cipher
  /\ pc[r] = "publish" => upload[r] = mine[r].cipher

SerialInv == OneAtMost /\ \A r \in Run : Retry(r)

(* What the run in hand has got to on the server.                          *)
Progress(r) ==
  /\ pc[r] \in {"mark", "sidecar", "publish", "quit"} /\ verify[r] =>
       mine[r].status = "download-verified"
  /\ pc[r] = "quit" => sidecar[mine[r].cipher] = mine[r].cipher

SentInv == SentIsRecoverable /\ \A r \in Run : Progress(r)

(* The step of a run while all others are idle.                            *)
LEMMA AloneKeeps ==
  ASSUME OneAtMost, NEW r \in Run, pc[r] # "idle", Others(r)
  PROVE  /\ OneAtMost'
         /\ \A q \in Run : q # r => Retry(q)' /\ Progress(q)'
<1>1. \A q \in Run : q # r => pc[q] = "idle" /\ pc'[q] = "idle"
  BY DEF OneAtMost, Others
<1>2. OneAtMost'
  BY <1>1 DEF OneAtMost
<1>3. ASSUME NEW q \in Run, q # r PROVE Retry(q)' /\ Progress(q)'
  BY <1>1, <1>3 DEF Retry, Progress, Holding
<1> QED BY <1>2, <1>3

(* A run begins when all are idle, and holds nothing yet.                  *)
LEMMA BeginSerial ==
  ASSUME Serial, WorkInv, SerialInv, NEW r \in Run, NEW S, NEW v, Begin(r, S, v)
  PROVE  SerialInv' /\ \A q \in Run : Progress(q)'
<1>1. /\ \A q \in Run : pc[q] = "idle" /\ pc'[q] \in {"idle", "open"}
      /\ \A q \in Run : q # r => pc'[q] = "idle"
  BY DEF Begin, WorkInv, RunTypes
<1> QED BY <1>1 DEF SerialInv, OneAtMost, Retry, Progress, Holding

(* Steps after which the run holds nothing.                                *)
LEMMA EndSerial ==
  ASSUME WorkInv, SerialInv, NEW r \in Run,
         OpenRefused(r) \/ VerifyFails(r) \/ SidecarRefused(r) \/ Fails(r) \/ Quit(r)
  PROVE  SerialInv' /\ \A q \in Run : Progress(q)'
<1>1. pc[r] # "idle"
  BY BackupTransferAssumption
     DEF OpenRefused, VerifyFails, SidecarRefused, Fails, Quit, Steps
<1>2. Others(r) /\ pc'[r] \in {"idle", "open"}
  <2>1. CASE Stop(r)
    BY <2>1, StopOthers DEF Stop, WorkInv, RunTypes
  <2>2. CASE Quit(r) /\ ~Stop(r)
    BY <2>2 DEF Quit, Sent, Others, WorkInv, RunTypes
  <2> QED BY <2>1, <2>2, EndWork
<1>3. Retry(r)' /\ Progress(r)'
  BY <1>2 DEF Retry, Progress, Holding
<1> QED BY <1>1, <1>2, <1>3, AloneKeeps DEF SerialInv

(* A run goes on with what is recorded, or encrypts what is not.           *)
LEMMA OpenSerial ==
  ASSUME WorkInv, SerialInv, NEW r \in Run, Open(r)
  PROVE  SerialInv' /\ \A q \in Run : Progress(q)'
<1> DEFINE a == Oldest(todo[r])
<1>1. /\ pc[r] = "open" /\ Current(r) = a /\ a \in Archive
      /\ UNCHANGED <<local, server, upload>>
  BY InHand, CurrentIsOldest DEF Open, WorkInv
<1>2. CASE record[a] = None /\ Goto(r, "encrypt") /\ UNCHANGED mine
  <2>1. Others(r) /\ pc'[r] = "encrypt" /\ todo'[r] = todo[r]
    BY <1>1, <1>2, GotoOthers DEF Steps
  <2>2. Retry(r)' /\ Progress(r)'
    BY <1>1, <1>2, <2>1 DEF Retry, Progress, Holding, local
  <2> QED BY <1>1, <2>1, <2>2, AloneKeeps DEF SerialInv
<1>3. CASE /\ record[a].cipher = cipher[a] /\ mine' = [mine EXCEPT ![r] = record[a]]
           /\ Goto(r, "connect")
  <2>1. Others(r) /\ pc'[r] = "connect" /\ mine'[r] = record[a] /\ todo'[r] = todo[r]
    BY <1>1, <1>3, GotoOthers DEF Steps, WorkInv, RunTypes
  <2>2. Retry(r)' /\ Progress(r)'
    BY <1>1, <1>3, <2>1 DEF Retry, Progress, Holding, local
  <2> QED BY <1>1, <2>1, <2>2, AloneKeeps DEF SerialInv
<1> QED BY <1>1, <1>2, <1>3 DEF Open

(* A run encrypts and hashes what nobody else touches.                     *)
LEMMA EncryptSerial ==
  ASSUME WorkInv, SerialInv, NEW r \in Run, Encrypt(r) \/ Hash(r)
  PROVE  SerialInv' /\ \A q \in Run : Progress(q)'
<1> DEFINE a == Oldest(todo[r])
<1>1. pc[r] \in {"encrypt", "hash"} /\ record[a] = None /\ Current(r) = a /\ record' = record
  BY CurrentIsOldest DEF Encrypt, Hash, SerialInv, Retry, local
<1>2. CASE Encrypt(r)
  <2>1. Others(r) /\ pc'[r] = "hash" /\ todo'[r] = todo[r]
    BY <1>2, GotoOthers DEF Encrypt, Steps
  <2>2. Retry(r)' /\ Progress(r)'
    BY <1>1, <2>1 DEF Retry, Progress, Holding
  <2> QED BY <1>1, <2>1, <2>2, AloneKeeps DEF SerialInv
<1>3. CASE Hash(r)
  <2>1. Others(r) /\ pc'[r] = "record" /\ todo'[r] = todo[r]
    BY <1>3, GotoOthers DEF Hash, Steps
  <2>2. mine'[r].cipher = cipher[a] /\ cipher' = cipher
    BY <1>1, <1>3 DEF Hash, WorkInv, RunTypes, local
  <2>3. Retry(r)' /\ Progress(r)'
    BY <1>1, <2>1, <2>2 DEF Retry, Progress, Holding
  <2> QED BY <1>1, <2>1, <2>3, AloneKeeps DEF SerialInv
<1> QED BY <1>2, <1>3

(* The record it writes names the ciphertext that is there.                *)
LEMMA WriteSerial ==
  ASSUME WorkInv, SerialInv, NEW r \in Run, WriteRecord(r) \/ Mark(r)
  PROVE  /\ SerialInv'
         /\ (\A q \in Run : Progress(q)) => \A q \in Run : Progress(q)'
<1> DEFINE a == Oldest(todo[r])
           s == IF pc[r] = "record" THEN "connect" ELSE "sidecar"
<1>1. /\ pc[r] \in {"record", "mark"} /\ Current(r) = a /\ a \in Archive
      /\ record' = [record EXCEPT ![a] = mine[r]]
      /\ Goto(r, s) /\ s \in {"connect", "sidecar"}
      /\ UNCHANGED <<cipher, server, mine, upload>>
      /\ pc[r] = "record" => s = "connect"
  BY InHand, CurrentIsOldest DEF WriteRecord, Mark, WorkInv
<1> HIDE DEF s
<1>2. /\ Others(r) /\ pc'[r] = s /\ todo'[r] = todo[r] /\ verify'[r] = verify[r]
      /\ mine'[r] = mine[r]
  BY <1>1, GotoOthers DEF Steps
<1>3. record'[a] = mine[r]
  BY <1>1 DEF WorkInv, LocalTypes
<1>4. Retry(r)'
  BY <1>1, <1>2, <1>3 DEF Retry, Holding, SerialInv
<1>5. Progress(r) => Progress(r)'
  BY <1>1, <1>2 DEF Progress
<1> QED BY <1>1, <1>2, <1>4, <1>5, AloneKeeps DEF SerialInv

(* On the way to the server ciphertext and record stay.                    *)
LEMMA ProceedSerial ==
  ASSUME WorkInv, SerialInv, NEW r \in Run,
         \/ Connect(r) \/ Upload(r) \/ Rename(r) \/ Verify(r) \/ Sidecar(r) \/ Publish(r)
         \/ Damage(r)
  PROVE  /\ SerialInv'
         /\ (\A q \in Run : Progress(q)) /\ ~Damage(r) => \A q \in Run : Progress(q)'
<1> DEFINE a == Oldest(todo[r])
<1>1. /\ pc[r] \in Holding \ {"record"} /\ UNCHANGED local /\ Current(r) = a
  BY CurrentIsOldest DEF Connect, Upload, Rename, Verify, Sidecar, Publish, Damage, Holding
<1>2. mine[r] \in Record /\ mine[r].cipher \in Cipher /\ pc[r] # "idle"
  BY <1>1, Held
<1>3. /\ cipher[a] = mine[r].cipher /\ record[a].cipher = mine[r].cipher
      /\ pc[r] = "publish" => upload[r] = mine[r].cipher
  BY <1>1 DEF SerialInv, Retry
<1>4. CASE Verify(r)
  <2> DEFINE s == IF verify[r] THEN "download-verified" ELSE "remote-size-verified"
             m == [mine[r] EXCEPT !.status = s]
  <2>1. mine' = [mine EXCEPT ![r] = m] /\ Goto(r, "mark") /\ UNCHANGED upload
    BY <1>4 DEF Verify
  <2>2. s \in Statuses /\ (verify[r] => s = "download-verified")
    BY DEF Statuses
  <2> HIDE DEF s
  <2>3. m.cipher = mine[r].cipher /\ m.status = s
    BY <1>2, <2>2, Restatus
  <2> HIDE DEF m
  <2>4. /\ Others(r) /\ pc'[r] = "mark" /\ todo'[r] = todo[r] /\ mine'[r] = m
        /\ verify'[r] = verify[r]
    BY <2>1, GotoOthers DEF Steps, WorkInv, RunTypes
  <2>5. Retry(r)' /\ Progress(r)'
    BY <1>1, <1>3, <2>2, <2>3, <2>4 DEF Retry, Progress, Holding, local
  <2> QED BY <1>2, <2>4, <2>5, AloneKeeps DEF SerialInv
<1>5. CASE ~Verify(r)
  <2>1. /\ UNCHANGED mine
        /\ \/ UNCHANGED upload \/ \E u : upload' = [upload EXCEPT ![r] = u]
        /\ \E s \in {"upload", "rename", "verify", "publish", "quit"} : Goto(r, s)
    BY <1>5 DEF Connect, Upload, Rename, Sidecar, Publish, Damage
  <2>2. /\ Others(r) /\ todo'[r] = todo[r] /\ verify'[r] = verify[r]
        /\ pc'[r] \in {"upload", "rename", "verify", "publish", "quit"}
    BY <2>1, GotoOthers DEF Steps
  <2>3. pc'[r] = "publish" => /\ Sidecar(r)
                              /\ upload' = [upload EXCEPT ![r] = record[Current(r)].cipher]
    BY <1>5 DEF Connect, Upload, Rename, Sidecar, Publish, Damage, Goto, WorkInv, RunTypes
  <2>4. pc'[r] = "publish" => upload'[r] = mine[r].cipher
    BY <1>1, <1>3, <2>3 DEF WorkInv, RunTypes
  <2>5. Retry(r)'
    BY <1>1, <1>3, <2>1, <2>2, <2>4 DEF Retry, Holding, local
  <2>6. pc'[r] \in {"publish", "quit"} /\ ~Damage(r) => Sidecar(r) \/ Publish(r)
    BY <1>5 DEF Connect, Upload, Rename, Damage, Goto, WorkInv, RunTypes
  <2>7. pc'[r] = "quit" /\ Sidecar(r) => sidecar'[mine[r].cipher] = mine[r].cipher
    BY DEF Sidecar, Goto, WorkInv, RunTypes, server
  <2>8. Publish(r) => sidecar'[mine[r].cipher] = mine[r].cipher
    BY <1>2, <1>3 DEF Publish, WorkInv, ServerTypes
  <2>9. Sidecar(r) \/ Publish(r) => pc[r] \in {"sidecar", "publish"}
    BY DEF Sidecar, Publish
  <2>10. Progress(r) /\ ~Damage(r) => Progress(r)'
    BY <2>1, <2>2, <2>6, <2>7, <2>8, <2>9 DEF Progress
  <2> QED BY <1>2, <2>2, <2>5, <2>10, AloneKeeps DEF SerialInv
<1> QED BY <1>4, <1>5

(* Every step keeps the invariant of runs that follow one another.         *)
LEMMA SerialStep == Serial /\ WorkInv /\ SerialInv /\ [Next]_vars => SerialInv'
<1> SUFFICES ASSUME Serial, WorkInv, SerialInv, [Next]_vars PROVE SerialInv'
  OBVIOUS
<1>1. ASSUME NEW r \in Run, BeginDrain(r) \/ BeginTransfer(r) PROVE SerialInv'
  BY <1>1, BeginSerial DEF BeginDrain, BeginTransfer
<1>2. ASSUME NEW r \in Run, RunStep(r) \/ Fails(r) \/ Damage(r) PROVE SerialInv'
  BY <1>2, EndSerial, OpenSerial, EncryptSerial, WriteSerial, ProceedSerial DEF RunStep
<1>3. CASE (\E a \in Archive : Arrive(a) \/ Forget(a)) \/ UNCHANGED vars
  BY <1>3, OutsideWork DEF SerialInv, OneAtMost, Retry, local, run
<1> QED BY <1>1, <1>2, <1>3 DEF Next

(* The invariant of runs that follow one another, however each of them     *)
(* ends.                                                                   *)
THEOREM TransferSerialInvariance ==
  ASSUME Serial PROVE Spec => [](WorkInv /\ PairInv /\ SerialInv)
<1>1. Init => SerialInv
  BY DEF Init, SerialInv, OneAtMost, Retry, Holding
<1>2. TwoAtOnce
  BY DEF TwoAtOnce
<1>3. Init => WorkInv /\ PairInv /\ SerialInv
  BY <1>1, InitWork, InitPair
<1>4. /\ WorkInv /\ PairInv /\ SerialInv /\ [Next]_vars
      => (WorkInv /\ PairInv /\ SerialInv)'
  BY <1>2, WorkStep, PairStep, SerialStep
<1> QED BY <1>3, <1>4, PTL DEF Spec

(* A step that replaces a ciphertext or record finds no record, or one of  *)
(* the same ciphertext.                                                    *)
LEMMA KeepStep ==
  ASSUME WorkInv, SerialInv, [Next]_vars, NEW a \in Archive,
         cipher[a] # None, record[a] # None
  PROVE  cipher'[a] = cipher[a] /\ record'[a].cipher = record[a].cipher
<1> SUFFICES ASSUME ~UNCHANGED local
             PROVE  cipher'[a] = cipher[a] /\ record'[a].cipher = record[a].cipher
  BY DEF local
<1>1. PICK r \in Run : Encrypt(r) \/ WriteRecord(r) \/ Mark(r)
  <2>1. \/ \E r \in Run : BeginDrain(r) \/ BeginTransfer(r) \/ RunStep(r) \/ Fails(r) \/ Damage(r)
        \/ (\E b \in Archive : Arrive(b) \/ Forget(b)) \/ UNCHANGED vars
    BY DEF Next
  <2> QED BY <2>1, OutsideWork
       DEF BeginDrain, BeginTransfer, Begin, RunStep, Fails, Damage, Open, OpenRefused,
           Hash, Connect, Upload, Rename, Verify, VerifyFails, Sidecar, SidecarRefused,
           Publish, Quit
<1>2. /\ pc[r] # "idle" /\ Current(r) = Oldest(todo[r])
      /\ Oldest(todo[r]) \in Archive /\ Retry(r)
  BY <1>1, InHand, CurrentIsOldest DEF Encrypt, WriteRecord, Mark, WorkInv, SerialInv
<1>3. CASE Encrypt(r)
  BY <1>2, <1>3 DEF Encrypt, Retry, WorkInv, LocalTypes
<1>4. CASE WriteRecord(r)
  BY <1>2, <1>4 DEF WriteRecord, Retry, WorkInv, LocalTypes
<1>5. CASE Mark(r)
  BY <1>2, <1>5 DEF Mark, Retry, Holding, WorkInv, LocalTypes
<1> QED BY <1>1, <1>3, <1>4, <1>5

(* With one run at a time, however often it is killed and wherever, a      *)
(* ciphertext that has its record is never made again, and its record goes *)
(* on naming it.                                                           *)
THEOREM TransferKeepsCiphertext == ASSUME Serial PROVE Spec => CiphertextKept
<1>1. WorkInv /\ SerialInv /\ [Next]_vars =>
        [\A a \in Archive :
           cipher[a] # None /\ record[a] # None =>
             cipher'[a] = cipher[a] /\ record'[a].cipher = record[a].cipher]_vars
  BY KeepStep
<1> QED BY <1>1, TransferSerialInvariance, PTL DEF Spec, CiphertextKept

-----------------------------------------------------------------------------
(* What was reported can be restored.  The server may not damage a copy:   *)
(* the sidecar, unlike the ciphertext, is never read back.                 *)

(* The hypothesis: the server stores what it is sent.                      *)
Undamaged == "damage" \notin FaultAt

(* Every step keeps ciphertext and record of what was reported.            *)
LEMMA SentStep ==
  Undamaged /\ Serial /\ WorkInv /\ PairInv /\ SerialInv /\ SentInv /\ [Next]_vars => SentInv'
<1> SUFFICES ASSUME Undamaged, Serial, WorkInv, PairInv, SerialInv, SentInv, [Next]_vars
             PROVE  SentInv'
  OBVIOUS
<1>1. Kept
  BY ServerKept
<1>2. ASSUME NEW n \in Cipher, Recoverable(n) PROVE Recoverable(n)'
  BY <1>1, <1>2 DEF Recoverable, Kept
<1>3. ASSUME reported' = reported PROVE SentIsRecoverable'
  BY <1>2, <1>3 DEF SentInv, SentIsRecoverable, WorkInv, OtherTypes
<1>4. ASSUME NEW r \in Run, BeginDrain(r) \/ BeginTransfer(r) PROVE SentInv'
  BY <1>3, <1>4, BeginSerial DEF BeginDrain, BeginTransfer, Begin, SentInv
<1>5. ASSUME NEW r \in Run, RunStep(r) \/ Fails(r) \/ Damage(r) PROVE SentInv'
  <2>1. \A q \in Run : Progress(q)'
    <3>1. ~Damage(r)
      BY DEF Damage, Undamaged
    <3> QED BY <1>5, <3>1, EndSerial, OpenSerial, EncryptSerial, WriteSerial, ProceedSerial
         DEF RunStep, SentInv
  <2>2. CASE ~Quit(r)
    <3>1. reported' = reported
      BY <1>5, <2>2 DEF RunStep, Fails, Damage, Open, OpenRefused, Encrypt, Hash,
         WriteRecord, Connect, Upload, Rename, Verify, VerifyFails, Mark, Sidecar,
         SidecarRefused, Publish
    <3> QED BY <1>3, <2>1, <3>1 DEF SentInv
  <2>3. CASE Quit(r)
    <3>1. /\ pc[r] = "quit"
          /\ reported' = IF verify[r] THEN reported \cup {mine[r].cipher} ELSE reported
      BY <2>3 DEF Quit, Sent
    <3>2. mine[r] # None /\ mine[r].cipher \in Cipher
      BY <3>1, Held DEF Holding
    <3>3. verify[r] => Recoverable(mine[r].cipher)
      BY <3>1, <3>2 DEF SentInv, Progress, PairInv, Marked, Recoverable
    <3>4. SentIsRecoverable'
      BY <1>2, <3>1, <3>2, <3>3 DEF SentInv, SentIsRecoverable, WorkInv, OtherTypes
    <3> QED BY <2>1, <3>4 DEF SentInv
  <2> QED BY <2>2, <2>3
<1>6. CASE (\E a \in Archive : Arrive(a) \/ Forget(a)) \/ UNCHANGED vars
  <2>1. UNCHANGED <<server, run, reported>>
    BY <1>6, OutsideWork
  <2> QED BY <1>3, <2>1 DEF SentInv, Progress, server, run
<1> QED BY <1>4, <1>5, <1>6 DEF Next

(* Whatever was reported as download-verified can be restored from the     *)
(* server alone, from then on: both the ciphertext and its record are      *)
(* there, wherever this run or a later one is killed.                      *)
THEOREM TransferSentIsRecoverable ==
  ASSUME Serial, Undamaged PROVE Spec => []SentIsRecoverable
<1>1. Init => SentInv
  BY DEF Init, SentInv, SentIsRecoverable, Progress
<1>2. /\ WorkInv /\ PairInv /\ SerialInv /\ SentInv /\ [Next]_vars
      => SentInv'
  BY SentStep
<1>3. SentInv => SentIsRecoverable
  BY DEF SentInv
<1> QED BY <1>1, <1>2, <1>3, TransferSerialInvariance, PTL DEF Spec
=============================================================================
