-------------------------- MODULE ConfigSyncProofs --------------------------
(***************************************************************************)
(* Proofs about the configuration sync, for any files, any contents and    *)
(* any number of changes and faults.                                       *)
(***************************************************************************)
EXTENDS ConfigSync, TLAPS

USE SyncAssumption

Etag == Etags \cup {"none"}

-----------------------------------------------------------------------------
(* Types                                                                   *)

LEMMA Types0 == Init => TypeOK
BY DEF Init, TypeOK, Nothing

LEMMA FetchTypes ==
  ASSUME NEW readable \in BOOLEAN, TypeOK, Fetch(readable)
  PROVE  TypeOK'
BY DEF TypeOK, Fetch, Fault, Named, Managed, Nothing, world, counts

LEMMA StoppedTypes ==
  ASSUME TypeOK, Forbidden
  PROVE  TypeOK'
BY DEF TypeOK, Forbidden, world, counts, Named, Managed

LEMMA DownloadTypes ==
  ASSUME TypeOK, NEW k \in Keys, Skip(k) \/ Download(k) \/ DownloadFails(k)
  PROVE  TypeOK'
BY DEF TypeOK, Skip, Download, DownloadFails, world, counts, Named, Managed

LEMMA RemoveTypes ==
  ASSUME TypeOK, NEW k \in Keys, Remove(k) \/ RemoveFails(k)
  PROVE  TypeOK'
BY DEF TypeOK, Remove, RemoveFails, world, counts, Named, Managed

LEMMA ToStaleTypes ==
  ASSUME TypeOK, ToStale
  PROVE  TypeOK'
BY DEF TypeOK, ToStale, Stale, world, counts, Named, Managed

LEMMA EndTypes ==
  ASSUME TypeOK, Save \/ SaveFails \/ Crash
  PROVE  TypeOK'
BY DEF TypeOK, Save, SaveFails, Crash, EndPass, Changed, Fault, Nothing, world, counts

LEMMA OthersTypes ==
  ASSUME TypeOK,
         \/ \E k \in Keys, e \in Etags \cup {"none"} : Publish(k, e)
         \/ \E p \in Paths, content \in {"none", "user"} : Touch(p, content)
  PROVE  TypeOK'
BY DEF TypeOK, Publish, Touch, world, counts, pass, Named, Managed

LEMMA StutterTypes ==
  ASSUME TypeOK, UNCHANGED vars
  PROVE  TypeOK'
BY DEF TypeOK, vars, world, counts, pass, Named, Managed

LEMMA Types == TypeOK /\ [Next]_vars => TypeOK'
<1> SUFFICES ASSUME TypeOK, [Next]_vars PROVE TypeOK'
  OBVIOUS
<1>1. CASE Fetch(TRUE) \/ Fetch(FALSE)
  BY <1>1, FetchTypes
<1>2. CASE \E k \in Keys : Skip(k) \/ Download(k) \/ DownloadFails(k)
  BY <1>2, DownloadTypes
<1>3. CASE ToStale
  BY <1>3, ToStaleTypes
<1>4. CASE \E k \in Keys : Remove(k) \/ RemoveFails(k)
  BY <1>4, RemoveTypes
<1>5. CASE Save \/ SaveFails \/ Crash
  BY <1>5, EndTypes
<1>6. CASE Forbidden
  BY <1>6, StoppedTypes
<1>7. CASE \/ \E k \in Keys, e \in Etags \cup {"none"} : Publish(k, e)
           \/ \E p \in Paths, content \in {"none", "user"} : Touch(p, content)
  BY <1>7, OthersTypes
<1>8. CASE UNCHANGED vars
  BY <1>8, StutterTypes
<1> QED
  BY <1>1, <1>2, <1>3, <1>4, <1>5, <1>6, <1>7, <1>8 DEF Next, Pass

(* The pass, its record and the histories hold what they are meant to:     *)
(* what is to be downloaded is in the manifest, what is to be removed is   *)
(* on record and not in it.                                                *)
THEOREM SyncTypes == Spec => []TypeOK
<1> QED
  BY Types0, Types, PTL DEF Spec

-----------------------------------------------------------------------------
(* The record                                                              *)

(* What the state file, or the state of the pass, holds now.               *)
Current == IF InPass THEN state ELSE record

LEMMA Record0 == Init => SyncedIsOnRecord
BY DEF Init, SyncedIsOnRecord, InPass, Managed, Named, Nothing

(* Files stay, and what is on record stays on it or may have been lost.    *)
LEMMA RecordKept ==
  ASSUME SyncedIsOnRecord, UNCHANGED files,
         lost \subseteq lost', named \subseteq named',
         Managed(Current) \ Managed(Current)' \subseteq lost',
         Managed(record)' \subseteq named',
         InPass' => (Managed(state) \cup Named(remote))' \subseteq named'
  PROVE  SyncedIsOnRecord'
BY DEF SyncedIsOnRecord, Current, KeysAt

LEMMA FetchRecord ==
  ASSUME NEW readable \in BOOLEAN, TypeOK, SyncedIsOnRecord, Fetch(readable)
  PROVE  SyncedIsOnRecord'
<1>1. UNCHANGED <<files, record>> /\ named \subseteq named' /\ lost \subseteq lost'
  BY DEF Fetch, world
<1>2. ~InPass /\ InPass' /\ Managed(record) \subseteq named
  BY DEF Fetch, InPass, SyncedIsOnRecord
<1>3. Managed(Current) \ Managed(Current)' \subseteq lost'
  BY <1>2 DEF Fetch, Current, Managed
<1>4. (Managed(state) \cup Named(remote))' \subseteq named'
  BY <1>2 DEF Fetch, Managed, Named, Nothing
<1> QED
  BY <1>1, <1>2, <1>3, <1>4, RecordKept DEF Managed

(* Steps of a pass that change nothing that is kept.                       *)
LEMMA IdleRecord ==
  ASSUME SyncedIsOnRecord, UNCHANGED <<files, record, state, remote, named, lost>>,
         InPass' <=> InPass
  PROVE  SyncedIsOnRecord'
BY DEF SyncedIsOnRecord, Managed, Named, KeysAt

LEMMA DownloadRecord ==
  ASSUME TypeOK, SyncedIsOnRecord, NEW k \in Keys, Download(k)
  PROVE  SyncedIsOnRecord'
<1>1. InPass /\ InPass'
  BY DEF Download, InPass
<1>2. k \in Named(remote) /\ remote[k] # "none"
  BY DEF Download, TypeOK, Named, Managed
<1>3. Managed(state)' = Managed(state) \cup {k}
  BY <1>2 DEF Download, TypeOK, Managed
<1>4. ASSUME NEW p \in Paths, files'[p] \in Etags
      PROVE  \E j \in KeysAt(p) : j \in lost' \/ j \in Managed(state)'
  <2>1. CASE p = Path(k)
    BY <2>1, <1>3 DEF KeysAt
  <2>2. CASE p # Path(k)
    BY <2>2, <1>1, <1>3, <1>4 DEF SyncedIsOnRecord, Download, TypeOK
  <2> QED
    BY <2>1, <2>2
<1>5. /\ Managed(record)' \subseteq named'
      /\ (Managed(state) \cup Named(remote))' \subseteq named'
  BY <1>1, <1>2, <1>3 DEF SyncedIsOnRecord, Download, world, Named, Managed
<1> QED
  BY <1>1, <1>4, <1>5 DEF SyncedIsOnRecord, KeysAt

LEMMA RemoveRecord ==
  ASSUME TypeOK, SyncedIsOnRecord, NEW k \in Keys, Remove(k)
  PROVE  SyncedIsOnRecord'
<1>1. InPass /\ InPass'
  BY DEF Remove, InPass
<1>2. Managed(state)' = Managed(state) \ {k}
  BY DEF Remove, TypeOK, Managed
<1>3. ASSUME NEW p \in Paths, files'[p] \in Etags
      PROVE  \E j \in KeysAt(p) : j \in lost' \/ j \in Managed(state)'
  <2>1. p # Path(k) /\ files[p] \in Etags
    BY <1>3 DEF Remove, TypeOK
  <2>2. PICK j \in KeysAt(p) : j \in lost \/ j \in Managed(state)
    BY <1>1, <2>1 DEF SyncedIsOnRecord
  <2>3. j # k
    BY <2>1, <2>2 DEF KeysAt
  <2> QED
    BY <1>2, <2>2, <2>3 DEF Remove
<1>4. /\ Managed(record)' \subseteq named'
      /\ (Managed(state) \cup Named(remote))' \subseteq named'
  BY <1>1, <1>2 DEF SyncedIsOnRecord, Remove, world, Named, Managed
<1> QED
  BY <1>1, <1>3, <1>4 DEF SyncedIsOnRecord, KeysAt

(* A pass that ends without its state saved loses what it had changed.     *)
LEMMA EndRecord ==
  ASSUME TypeOK, SyncedIsOnRecord, Save \/ SaveFails \/ Crash
  PROVE  SyncedIsOnRecord'
<1>1. UNCHANGED <<files, named>> /\ lost \subseteq lost'
  BY DEF Save, SaveFails, Crash
<1>2. ~InPass'
  BY DEF Save, SaveFails, Crash, EndPass, InPass
<1>3. Managed(Current) \ Managed(Current)' \subseteq lost'
  BY <1>2 DEF Save, SaveFails, Crash, Current, Managed, Changed, InPass
<1>4. Managed(record)' \subseteq named'
  BY <1>1 DEF Save, SaveFails, Crash, SyncedIsOnRecord, InPass, Managed
<1> QED
  BY <1>1, <1>2, <1>3, <1>4, RecordKept

LEMMA TouchRecord ==
  ASSUME TypeOK, SyncedIsOnRecord,
         NEW p \in Paths, NEW content \in {"none", "user"}, Touch(p, content)
  PROVE  SyncedIsOnRecord'
<1>1. UNCHANGED <<record, state, remote, pc, named, lost>>
  BY DEF Touch, pass
<1>2. ASSUME NEW q \in Paths, files'[q] \in Etags
      PROVE  files[q] \in Etags
  BY <1>2 DEF Touch, TypeOK
<1> QED
  BY <1>1, <1>2 DEF SyncedIsOnRecord, InPass, Managed, Named, KeysAt

LEMMA Recorded == TypeOK /\ SyncedIsOnRecord /\ [Next]_vars => SyncedIsOnRecord'
<1> SUFFICES ASSUME TypeOK, SyncedIsOnRecord, [Next]_vars PROVE SyncedIsOnRecord'
  OBVIOUS
<1>1. CASE Fetch(TRUE) \/ Fetch(FALSE)
  BY <1>1, FetchRecord
<1>2. ASSUME NEW k \in Keys, Download(k) PROVE SyncedIsOnRecord'
  BY <1>2, DownloadRecord
<1>3. ASSUME NEW k \in Keys, Remove(k) PROVE SyncedIsOnRecord'
  BY <1>3, RemoveRecord
<1>4. ASSUME NEW k \in Keys, Skip(k) \/ DownloadFails(k) \/ RemoveFails(k)
      PROVE  SyncedIsOnRecord'
  BY <1>4, IdleRecord DEF Skip, DownloadFails, RemoveFails, InPass
<1>5. CASE ToStale \/ Forbidden
  BY <1>5, IdleRecord DEF ToStale, Forbidden, InPass
<1>6. CASE Save \/ SaveFails \/ Crash
  BY <1>6, EndRecord
<1>7. CASE \E k \in Keys, e \in Etags \cup {"none"} : Publish(k, e)
  BY <1>7, IdleRecord DEF Publish, pass, InPass
<1>8. CASE \E p \in Paths, content \in {"none", "user"} : Touch(p, content)
  BY <1>8, TouchRecord
<1>9. CASE UNCHANGED vars
  BY <1>9, IdleRecord DEF vars, pass, InPass
<1> QED
  BY <1>1, <1>2, <1>3, <1>4, <1>5, <1>6, <1>7, <1>8, <1>9 DEF Next, Pass

(* Whatever the sync has written is on record, unless a fault cut a pass   *)
(* short, and only what a manifest has named is.                           *)
THEOREM WrittenIsRecorded == Spec => []SyncedIsOnRecord
<1> QED
  BY Types0, Types, Record0, Recorded, PTL DEF Spec

-----------------------------------------------------------------------------
(* The sync does what Mirror promises                                      *)

(* A manifest that names a key is not the empty one.                       *)
LEMMA SomeManifest ==
  ASSUME TypeOK, NEW k \in Keys
  PROVE  remote # <<>>
<1>1. DOMAIN remote = Keys
  BY DEF TypeOK
<1>2. DOMAIN <<>> = {}
  OBVIOUS
<1> QED
  BY <1>1, <1>2

LEMMA MirrorInit == Init => M!Init
BY DEF Init, M!Init, InPass, Nothing

LEMMA FetchOffers ==
  ASSUME NEW readable \in BOOLEAN, TypeOK, Fetch(readable)
  PROVE  M!Offer
BY DEF Fetch, Fault, M!Offer, InPass, Named, Managed, world, counts

LEMMA DownloadPuts ==
  ASSUME TypeOK, NEW k \in Keys, Download(k)
  PROVE  M!Put(k)
<1>1. InPass /\ InPass' /\ remote # <<>>
  BY SomeManifest DEF Download, InPass
<1>2. remote[k] # "none"
  BY DEF Download, TypeOK, Named, Managed
<1> QED
  BY <1>1, <1>2 DEF Download, M!Put, world, counts

LEMMA RemoveDrops ==
  ASSUME TypeOK, SyncedIsOnRecord, NEW k \in Keys, Remove(k)
  PROVE  M!Drop(k)
<1>1. InPass /\ InPass' /\ remote # <<>>
  BY SomeManifest DEF Remove, InPass
<1>2. k \in Managed(state) /\ k \notin Named(remote)
  BY DEF Remove, TypeOK
<1>3. k \in named /\ remote[k] = "none"
  BY <1>1, <1>2 DEF SyncedIsOnRecord, Named, Managed
<1> QED
  BY <1>1, <1>3 DEF Remove, M!Drop, world, counts

LEMMA EndCloses ==
  ASSUME Save \/ SaveFails \/ Crash
  PROVE  M!Close
BY DEF Save, SaveFails, Crash, EndPass, Fault, M!Close, InPass, world, counts

(* Steps that Mirror does not see.                                         *)
LEMMA Unseen ==
  ASSUME UNCHANGED <<upstream, files, remote, named, touched>>, InPass' <=> InPass
  PROVE  UNCHANGED M!vars
BY DEF M!vars

LEMMA PublishPublishes ==
  ASSUME NEW k \in Keys, NEW e \in Etags \cup {"none"}, Publish(k, e)
  PROVE  M!Publish(k, e)
BY DEF Publish, M!Publish, InPass, pass, counts

LEMMA TouchTouches ==
  ASSUME NEW p \in Paths, NEW content \in {"none", "user"}, Touch(p, content)
  PROVE  M!Touch(p, content)
BY DEF Touch, M!Touch, InPass, pass, world

LEMMA MirrorNext ==
  TypeOK /\ SyncedIsOnRecord /\ [Next]_vars => [M!Next]_(M!vars)
<1> SUFFICES ASSUME TypeOK, SyncedIsOnRecord, [Next]_vars
             PROVE  M!Next \/ UNCHANGED M!vars
  OBVIOUS
<1>1. CASE Fetch(TRUE) \/ Fetch(FALSE)
  BY <1>1, FetchOffers DEF M!Next
<1>2. ASSUME NEW k \in Keys, Download(k) PROVE M!Next
  BY <1>2, DownloadPuts DEF M!Next
<1>3. ASSUME NEW k \in Keys, Remove(k) PROVE M!Next
  BY <1>3, RemoveDrops DEF M!Next
<1>4. ASSUME NEW k \in Keys, Skip(k) \/ DownloadFails(k) \/ RemoveFails(k)
      PROVE  UNCHANGED M!vars
  BY <1>4, Unseen DEF Skip, DownloadFails, RemoveFails, InPass, world, counts
<1>5. CASE ToStale \/ Forbidden
  BY <1>5, Unseen DEF ToStale, Forbidden, InPass, world, counts
<1>6. CASE Save \/ SaveFails \/ Crash
  BY <1>6, EndCloses DEF M!Next
<1>7. ASSUME NEW k \in Keys, NEW e \in Etags \cup {"none"}, Publish(k, e)
      PROVE  M!Next
  BY <1>7, PublishPublishes DEF M!Next
<1>8. ASSUME NEW p \in Paths, NEW content \in {"none", "user"}, Touch(p, content)
      PROVE  M!Next
  BY <1>8, TouchTouches DEF M!Next
<1>9. CASE UNCHANGED vars
  BY <1>9, Unseen DEF vars, world, pass, counts, InPass
<1> QED
  BY <1>1, <1>2, <1>3, <1>4, <1>5, <1>6, <1>7, <1>8, <1>9 DEF Next, Pass

(* The sync implements Mirror: it touches no file but those a manifest has *)
(* named, puts there what the server holds, and removes the file of a key  *)
(* only when the manifest in force does not name that key, from whatever   *)
(* state file it started and wherever a pass before it was cut off.        *)
THEOREM ImplementsMirror == Spec => Mirrors
<1> QED
  BY MirrorInit, Types0, Types, Record0, Recorded, MirrorNext, PTL
     DEF Spec, Mirrors, M!Spec

-----------------------------------------------------------------------------
(* Keys with files of their own                                            *)

(* A file disappears, other than by somebody else's hand, only while a     *)
(* manifest is in force that does not name its key, and one before it did. *)
NamedStay ==
  \A k \in Keys :
    files[Path(k)] # "none" /\ files'[Path(k)] = "none" /\ UNCHANGED touched =>
      InPass /\ remote[k] = "none" /\ k \in named

OwnFiles == \A j, k \in Keys : Path(j) = Path(k) => j = k

LEMMA RemovesUnnamed ==
  ASSUME OwnFiles, TypeOK, SyncedIsOnRecord, Next
  PROVE  NamedStay
<1> SUFFICES ASSUME NEW k \in Keys, files[Path(k)] # "none", files'[Path(k)] = "none",
                    UNCHANGED touched
             PROVE  InPass /\ remote[k] = "none" /\ k \in named
  BY DEF NamedStay
<1>1. files' # files
  OBVIOUS
<1>2. ASSUME NEW j \in Keys, Download(j) PROVE FALSE
  <2>1. upstream[j] # "none" /\ files' = [files EXCEPT ![Path(j)] = upstream[j]]
    BY <1>2 DEF Download
  <2> QED
    BY <2>1, SyncAssumption DEF TypeOK
<1>3. ASSUME NEW j \in Keys, Remove(j)
      PROVE  InPass /\ remote[k] = "none" /\ k \in named
  <2>1. M!Drop(j)
    BY <1>3, RemoveDrops
  <2>2. InPass /\ j \in named /\ remote[j] = "none"
    BY <1>3, <2>1 DEF M!Drop, Remove, InPass
  <2>3. Path(j) = Path(k)
    BY <1>3, SyncAssumption DEF Remove, TypeOK
  <2> QED
    BY <2>2, <2>3 DEF OwnFiles
<1>4. ASSUME NEW p \in Paths, NEW content \in {"none", "user"}, Touch(p, content)
      PROVE  FALSE
  BY <1>4 DEF Touch, TypeOK
<1>5. CASE Fetch(TRUE) \/ Fetch(FALSE) \/ ToStale \/ Forbidden \/ Save \/ SaveFails \/ Crash
  BY <1>1, <1>5 DEF Fetch, ToStale, Forbidden, Save, SaveFails, Crash
<1>6. ASSUME NEW j \in Keys, Skip(j) \/ DownloadFails(j) \/ RemoveFails(j) PROVE FALSE
  BY <1>1, <1>6 DEF Skip, DownloadFails, RemoveFails
<1>7. ASSUME NEW j \in Keys, NEW e \in Etags \cup {"none"}, Publish(j, e) PROVE FALSE
  BY <1>1, <1>7 DEF Publish
<1> QED
  BY <1>2, <1>3, <1>4, <1>5, <1>6, <1>7 DEF Next, Pass

(* Where no two keys are spellings of one path, the sync removes no file   *)
(* that the manifest in force names, and none that no manifest has named.  *)
THEOREM NamedFilesStay ==
  ASSUME OwnFiles
  PROVE  Spec => [][NamedStay]_vars
<1>1. TypeOK /\ SyncedIsOnRecord /\ [Next]_vars => [NamedStay]_vars
  BY RemovesUnnamed
<1> QED
  BY <1>1, SyncTypes, WrittenIsRecorded, PTL DEF Spec
=============================================================================
