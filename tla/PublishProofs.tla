--------------------------- MODULE PublishProofs ---------------------------
(***************************************************************************)
(* Proofs about Publish, for any set of requests and packages, either      *)
(* publish mode, and any number of lost PUTs.                              *)
(***************************************************************************)
EXTENDS Publish, SequenceTheorems, FiniteSetTheorems, TLAPS

(* The inductive invariant.  The safety properties are not inductive alone:  *)
(* each leans on what a request has done by the time it reaches a step.      *)

\* The reserved versions are those of the requests that hold one.
VersionsHeld ==
    \A k : k \in reservedVersions <=>
               \E r \in Request : HoldsVersion(r) /\ VersionKey(pkg[r]) = k

\* A reserved name has a holder of that UUID that will release it.
NamesHeld ==
    \A k \in NameKeys : reservedNames[k] # Nil => \E r \in Request :
        HoldsName(r) /\ NameKey(pkg[r]) = k /\ pkg[r].id = reservedNames[k]

\* A manifest is only sent, and only outstanding, once its archive is stored
\* or together with it.
ArchiveFirst ==
    /\ \A r \in Request :
           pc[r] = "uploadManifest" => archives[VersionDir(pkg[r])] # Nil
    /\ \A put \in late :
           "manifest" \in put.objects =>
               "archive" \in put.objects \/ archives[put.dir] # Nil

\* From Add on a request's package is stored, and listed once Add is done.
SuccessIsStored ==
    \A r \in Request :
        /\ pc[r] = "add" => Published(pkg[r])
        /\ pc[r] = "respond" \/ status[r] = CreatedStatus =>
               Published(pkg[r]) /\ pkg[r] \in Range(entries)

\* A 201 is only sent at the end.
CreatedAtEnd ==
    \A r \in Request :
        status[r] = CreatedStatus => pc[r] \in {"releaseVersion", "releaseName", "done"}

IInv ==
    /\ TypeOK
    /\ VersionExclusion
    /\ VersionsHeld
    /\ NamesHeld
    /\ ManifestHasArchive
    /\ ArchiveFirst
    /\ ListedIsStored
    /\ SuccessIsStored
    /\ CreatedAtEnd

-----------------------------------------------------------------------------
(* Lemmas about the data.                                                    *)

LEMMA RangeAppend ==
    ASSUME NEW S, NEW s \in Seq(S), NEW x \in S
    PROVE  Range(Append(s, x)) = Range(s) \cup {x}
<1>1. /\ Append(s, x) \in Seq(S)
      /\ DOMAIN Append(s, x) = 1 .. Len(s) + 1
      /\ \A i \in 1 .. Len(s) : Append(s, x)[i] = s[i]
      /\ Append(s, x)[Len(s) + 1] = x
      /\ Len(s) \in Nat
      /\ DOMAIN s = 1 .. Len(s)
  BY AppendProperties, LenProperties
<1>2. \A i : i \in 1 .. Len(s) + 1 <=> i \in 1 .. Len(s) \/ i = Len(s) + 1
  BY <1>1
<1>3. QED
  BY <1>1, <1>2 DEF Range

LEMMA PutTypes ==
    ASSUME NEW m \in Manifest
    PROVE  /\ VersionDir(m) \in Dir
           /\ Bundle(m) \in Put
           /\ ArchivePut(m) \in Put
           /\ ManifestPut(m) \in Put
           /\ VersionKey(m) \in Uuid \X Version
           /\ NameKey(m) \in NameKeys
           /\ m.id \in Uuid
           /\ m.digest \in Digest
BY DEF Manifest, VersionDir, Dir, Bundle, ArchivePut, ManifestPut, Put, Object,
       VersionKey, NameKey, NameKeys

\* Applying a PUT keeps what is stored and adds the objects it carries.
LEMMA ApplyStores ==
    ASSUME NEW put \in Put, StorageTypeOK, Apply(put)
    PROVE  /\ archives' \in [Dir -> Digest \cup {Nil}]
           /\ manifests' \in [Dir -> Digest \cup {Nil}]
           /\ \A d \in Dir : archives[d] # Nil => archives'[d] # Nil
           /\ \A d \in Dir : manifests[d] # Nil => manifests'[d] # Nil
           /\ "archive" \in put.objects => archives'[put.dir] # Nil
           /\ "manifest" \in put.objects => manifests'[put.dir] # Nil
           /\ \A d \in Dir : manifests'[d] # Nil =>
                  manifests[d] # Nil \/ (d = put.dir /\ "manifest" \in put.objects)
<1>1. put.dir \in Dir /\ put.digest \in Digest /\ put.digest # Nil
  BY NilAssumption DEF Put
<1>2. QED
  BY <1>1 DEF Apply, StorageTypeOK

-----------------------------------------------------------------------------
(* The invariant holds initially and every step keeps it.                    *)

LEMMA InitIInv == Init => IInv
<1> SUFFICES ASSUME Init PROVE IInv
  OBVIOUS
<1> USE DEF Init, StorageInit
<1>1. TypeOK
  <2>1. entries \in Seq(Submissions)
    BY EmptySeq
  <2>2. CreatedStatus \in Status /\ NoStatus \in Status /\ "receive" \in Step
    BY DEF Status, Step
  <2>3. QED
    BY <2>1, <2>2 DEF TypeOK, StorageTypeOK
<1>2. \A r \in Request : ~HoldsVersion(r) /\ ~HoldsName(r)
  BY DEF HoldsVersion, HoldsName
<1>3. VersionExclusion /\ VersionsHeld /\ NamesHeld
  BY <1>2 DEF VersionExclusion, VersionsHeld, NamesHeld
<1>4. ManifestHasArchive /\ ArchiveFirst
  BY DEF ManifestHasArchive, ArchiveFirst
<1>5. ListedIsStored
  BY DEF ListedIsStored, Range
<1>6. SuccessIsStored /\ CreatedAtEnd
  BY DEF SuccessIsStored, CreatedAtEnd, NoStatus, CreatedStatus
<1>7. QED
  BY <1>1, <1>3, <1>4, <1>5, <1>6 DEF IInv

\* A step of one request that leaves the index, the reservations and storage
\* alone, and gives up nothing it has reserved.
LEMMA QuietStep ==
    ASSUME IInv, NEW r \in Request, NEW step \in Step, Goto(r, step),
           step \notin {"uploadManifest", "add", "respond"},
           UNCHANGED <<entries, Reservations, storageVars>>,
           UNCHANGED status \/
               \E code \in Status \ {CreatedStatus} : Answer(r, code),
           HoldsVersion(r)' <=> HoldsVersion(r),
           HoldsName(r) => HoldsName(r)',
           status[r] # CreatedStatus
    PROVE  IInv'
<1> USE DEF IInv, Goto, Reservations, storageVars, Answer
<1>1. TypeOK'
  BY DEF TypeOK, StorageTypeOK
<1>2. \A s \in Request : /\ HoldsVersion(s)' <=> HoldsVersion(s)
                         /\ HoldsName(s) => HoldsName(s)'
  BY DEF HoldsVersion, HoldsName, TypeOK
<1>3. VersionExclusion' /\ VersionsHeld' /\ NamesHeld'
  BY <1>2 DEF VersionExclusion, VersionsHeld, NamesHeld
<1>4. ManifestHasArchive' /\ ArchiveFirst'
  BY DEF ManifestHasArchive, ArchiveFirst, TypeOK
<1>5. ListedIsStored'
  BY DEF ListedIsStored, Published
<1>6. \A s \in Request : status'[s] = CreatedStatus => s # r /\ status[s] = CreatedStatus
  BY DEF TypeOK, Status
<1>7. SuccessIsStored' /\ CreatedAtEnd'
  BY <1>6 DEF SuccessIsStored, CreatedAtEnd, Published, TypeOK
<1>8. QED
  BY <1>1, <1>3, <1>4, <1>5, <1>7

\* The steps before the upload that reserve something.
LEMMA ReserveNameStep ==
    ASSUME IInv, NEW r \in Request, ReserveName(r)
    PROVE  IInv'
<1> USE DEF IInv
<1>0. /\ pkg[r] \in Manifest /\ NameKey(pkg[r]) \in NameKeys /\ pkg[r].id \in Uuid
      /\ pkg[r].id # Nil
      /\ pc[r] = "reserveName" /\ status[r] # CreatedStatus
      /\ "checkVersion" \in Step /\ "done" \in Step
      /\ Conflict \in Status \ {CreatedStatus}
  BY SubmissionsAssumption, NilAssumption, PutTypes
  DEF TypeOK, ReserveName, CreatedAtEnd, Step, Status, Conflict, CreatedStatus
<1>1. CASE UNCHANGED reservedNames
  <2>1. UNCHANGED <<entries, Reservations, storageVars>>
    BY <1>1 DEF ReserveName, Reservations
  <2>2. ~HoldsVersion(r) /\ ~HoldsName(r)
    BY <1>0 DEF HoldsVersion, HoldsName
  <2>3. CASE Goto(r, "checkVersion") /\ UNCHANGED status
    <3>1. ~HoldsVersion(r)'
      BY <2>3 DEF Goto, HoldsVersion, TypeOK
    <3>2. QED
      BY <1>0, <2>1, <2>2, <2>3, <3>1, QuietStep
  <2>4. CASE Goto(r, "done") /\ Answer(r, Conflict)
    <3>1. ~HoldsVersion(r)'
      BY <2>4 DEF Goto, HoldsVersion, TypeOK
    <3>2. QED
      BY <1>0, <2>1, <2>2, <2>4, <3>1, QuietStep
  <2>5. QED
    BY <1>1, <2>3, <2>4 DEF ReserveName
<1>2. CASE /\ reservedNames[NameKey(pkg[r])] = Nil
           /\ reservedNames' = [reservedNames EXCEPT ![NameKey(pkg[r])] = pkg[r].id]
           /\ Goto(r, "checkVersion")
           /\ UNCHANGED status
  <2> USE <1>0, <1>2 DEF Goto
  <2>1. UNCHANGED <<entries, reservedVersions, storageVars>>
    BY DEF ReserveName
  <2>2. TypeOK'
    BY <2>1 DEF TypeOK, StorageTypeOK, storageVars
  <2>3. \A s \in Request : /\ HoldsVersion(s)' <=> HoldsVersion(s)
                           /\ HoldsName(s) => HoldsName(s)'
    BY DEF HoldsVersion, HoldsName, TypeOK
  <2>4. VersionExclusion' /\ VersionsHeld'
    BY <2>1, <2>3 DEF VersionExclusion, VersionsHeld
  <2>5. NamesHeld'
    <3>1. HoldsName(r)'
      BY DEF HoldsName, HoldsVersion, TypeOK
    <3>2. QED
      BY <2>3, <3>1 DEF NamesHeld, TypeOK
  <2>6. ManifestHasArchive' /\ ArchiveFirst'
    BY <2>1 DEF ManifestHasArchive, ArchiveFirst, TypeOK, storageVars
  <2>7. ListedIsStored' /\ SuccessIsStored' /\ CreatedAtEnd'
    BY <2>1 DEF ListedIsStored, SuccessIsStored, CreatedAtEnd, Published, TypeOK,
                storageVars
  <2>8. QED
    BY <2>2, <2>4, <2>5, <2>6, <2>7
<1>3. QED
  BY <1>1, <1>2 DEF ReserveName

LEMMA ReserveVersionStep ==
    ASSUME IInv, NEW r \in Request, ReserveVersion(r)
    PROVE  IInv'
<1> USE DEF IInv
<1>0. /\ pkg[r] \in Manifest /\ VersionKey(pkg[r]) \in Uuid \X Version
      /\ pc[r] = "reserveVersion" /\ status[r] # CreatedStatus
      /\ "upload" \in Step /\ "releaseName" \in Step
      /\ Conflict \in Status \ {CreatedStatus}
  BY SubmissionsAssumption, PutTypes
  DEF TypeOK, ReserveVersion, CreatedAtEnd, Step, Status, Conflict, CreatedStatus
<1>1. CASE VersionKey(pkg[r]) \in reservedVersions
  <2>1. /\ UNCHANGED <<entries, Reservations, storageVars>>
        /\ Goto(r, "releaseName") /\ Answer(r, Conflict)
    BY <1>1 DEF ReserveVersion, Reservations
  <2>2. ~HoldsVersion(r) /\ ~HoldsVersion(r)' /\ HoldsName(r)'
    BY <1>0, <2>1 DEF Goto, HoldsVersion, HoldsName, TypeOK
  <2>3. QED
    BY <1>0, <2>1, <2>2, QuietStep
<1>2. CASE VersionKey(pkg[r]) \notin reservedVersions
  <2>1. /\ UNCHANGED <<entries, reservedNames, storageVars, status, pkg, mode>>
        /\ pc' = [pc EXCEPT ![r] = "upload"]
        /\ reservedVersions' = reservedVersions \cup {VersionKey(pkg[r])}
    BY <1>2 DEF ReserveVersion, Goto
  <2> USE <1>0, <2>1
  <2>2. TypeOK'
    BY DEF TypeOK, StorageTypeOK, storageVars
  <2>3. /\ \A s \in Request \ {r} : HoldsVersion(s)' <=> HoldsVersion(s)
        /\ \A s \in Request : HoldsName(s) => HoldsName(s)'
        /\ ~HoldsVersion(r) /\ HoldsVersion(r)'
    BY DEF HoldsVersion, HoldsName, TypeOK
  <2>4. VersionExclusion'
    BY <1>2, <2>3 DEF VersionExclusion, VersionsHeld
  <2>5. VersionsHeld'
    BY <2>3 DEF VersionsHeld
  <2>6. NamesHeld'
    BY <2>3 DEF NamesHeld
  <2>7. ManifestHasArchive' /\ ArchiveFirst'
    BY DEF ManifestHasArchive, ArchiveFirst, TypeOK, storageVars
  <2>8. ListedIsStored' /\ SuccessIsStored' /\ CreatedAtEnd'
    BY DEF ListedIsStored, SuccessIsStored, CreatedAtEnd, Published, TypeOK,
           storageVars
  <2>9. QED
    BY <2>2, <2>4, <2>5, <2>6, <2>7, <2>8
<1>3. QED
  BY <1>1, <1>2

\* What a PUT that reaches storage does to the storage invariants, whoever
\* sent it.
LEMMA ApplyKeepsInvariants ==
    ASSUME IInv, NEW put \in Put, Apply(put),
           "manifest" \in put.objects =>
               "archive" \in put.objects \/ archives[put.dir] # Nil
    PROVE  /\ ManifestHasArchive'
           /\ \A m \in Manifest : Published(m) => Published(m)'
<1>1. StorageTypeOK
  BY DEF IInv, TypeOK
<1>2. ManifestHasArchive'
  BY <1>1, ApplyStores DEF IInv, ManifestHasArchive
<1>3. \A m \in Manifest : Published(m) => Published(m)'
  BY <1>1, ApplyStores, PutTypes DEF Published
<1>4. QED
  BY <1>2, <1>3

LEMMA PutAcceptedStep ==
    ASSUME IInv, NEW r \in Request, PutAccepted(r)
    PROVE  IInv'
<1> DEFINE put == NextPut(r)
<1>1. /\ pc[r] \in {"upload", "uploadManifest"} /\ pkg[r] \in Manifest
      /\ mode \in {"atomic", "two-step"}
      /\ Apply(put)
      /\ pc' = [pc EXCEPT ![r] = AfterPut(r)]
      /\ UNCHANGED <<status, entries, Reservations, late, pkg, mode>>
  BY SubmissionsAssumption, ModesAssumption
  DEF PutAccepted, Uploading, Goto, IInv, TypeOK
<1>2. /\ put \in Put /\ put.dir = VersionDir(pkg[r])
      /\ "manifest" \in put.objects =>
             "archive" \in put.objects \/ archives[put.dir] # Nil
      /\ AfterPut(r) = "uploadManifest" => "archive" \in put.objects
      /\ AfterPut(r) = "add" => "manifest" \in put.objects
      /\ AfterPut(r) \in {"uploadManifest", "add"}
  <2>1. CASE pc[r] = "uploadManifest"
    <3>1. put = ManifestPut(pkg[r]) /\ AfterPut(r) = "add"
      BY <2>1 DEF NextPut, AfterPut
    <3>2. archives[VersionDir(pkg[r])] # Nil
      BY <2>1 DEF IInv, ArchiveFirst
    <3>3. QED
      BY <1>1, <3>1, <3>2, PutTypes DEF ManifestPut
  <2>2. CASE pc[r] = "upload" /\ mode = "atomic"
    <3>1. put = Bundle(pkg[r]) /\ AfterPut(r) = "add"
      BY <2>2 DEF NextPut, AfterPut
    <3>2. QED
      BY <1>1, <3>1, PutTypes DEF Bundle, Object
  <2>3. CASE pc[r] = "upload" /\ mode = "two-step"
    <3>1. put = ArchivePut(pkg[r]) /\ AfterPut(r) = "uploadManifest"
      BY <2>3 DEF NextPut, AfterPut
    <3>2. QED
      BY <1>1, <3>1, PutTypes DEF ArchivePut
  <2>4. QED
    BY <1>1, <2>1, <2>2, <2>3
<1> HIDE DEF put
<1>3. StorageTypeOK
  BY DEF IInv, TypeOK
<1>4. /\ ManifestHasArchive'
      /\ \A m \in Manifest : Published(m) => Published(m)'
  BY <1>1, <1>2, ApplyKeepsInvariants
<1>5. TypeOK'
  BY <1>1, <1>2, <1>3, ApplyStores
  DEF IInv, TypeOK, StorageTypeOK, Reservations, Step
<1>6. \A s \in Request : /\ HoldsVersion(s)' <=> HoldsVersion(s)
                         /\ HoldsName(s)' <=> HoldsName(s)
  BY <1>1, <1>2 DEF IInv, HoldsVersion, HoldsName, TypeOK
<1>7. VersionExclusion' /\ VersionsHeld' /\ NamesHeld'
  BY <1>1, <1>6 DEF IInv, VersionExclusion, VersionsHeld, NamesHeld, Reservations
<1>8. ArchiveFirst'
  <2>1. \A d \in Dir : archives[d] # Nil => archives'[d] # Nil
    BY <1>1, <1>2, <1>3, ApplyStores
  <2>2. \A s \in Request : VersionDir(pkg[s]) \in Dir
    BY SubmissionsAssumption, PutTypes DEF IInv, TypeOK
  <2>3. ASSUME NEW s \in Request, pc'[s] = "uploadManifest"
        PROVE  archives'[VersionDir(pkg'[s])] # Nil
    <3>1. CASE s = r
      BY <1>1, <1>2, <1>3, <2>3, <3>1, ApplyStores DEF IInv, TypeOK
    <3>2. CASE s # r
      BY <1>1, <2>1, <2>2, <2>3, <3>2 DEF IInv, TypeOK, ArchiveFirst
    <3>3. QED
      BY <3>1, <3>2
  <2>4. \A p \in late' : p.dir \in Dir /\ p \in late
    BY <1>1, <1>3 DEF StorageTypeOK, Put
  <2>5. QED
    BY <2>1, <2>3, <2>4 DEF IInv, ArchiveFirst
<1>9. ListedIsStored'
  <2>1. Range(entries) \subseteq Manifest
    BY RangeOfSeq, SubmissionsAssumption DEF IInv, TypeOK
  <2>2. QED
    BY <1>1, <1>4, <2>1 DEF IInv, ListedIsStored
<1>10. SuccessIsStored'
  <2>1. \A s \in Request : pkg[s] \in Manifest
    BY SubmissionsAssumption DEF IInv, TypeOK
  <2>2. pc'[r] = "add" => Published(pkg[r])'
    BY <1>1, <1>2, <1>3, ApplyStores DEF IInv, TypeOK, Published
  <2>3. status[r] # CreatedStatus
    BY <1>1 DEF IInv, CreatedAtEnd
  <2>4. QED
    BY <1>1, <1>2, <1>4, <2>1, <2>2, <2>3 DEF IInv, SuccessIsStored, TypeOK, Published
<1>11. CreatedAtEnd'
  BY <1>1 DEF IInv, CreatedAtEnd, TypeOK
<1>12. QED
  BY <1>4, <1>5, <1>7, <1>8, <1>9, <1>10, <1>11 DEF IInv

LEMMA PutLostStep ==
    ASSUME IInv, NEW r \in Request, PutLost(r)
    PROVE  IInv'
<1> DEFINE put == NextPut(r)
<1>1. /\ pc[r] \in {"upload", "uploadManifest"} /\ pkg[r] \in Manifest
      /\ mode \in {"atomic", "two-step"}
      /\ late' = late \cup {put}
      /\ pc' = [pc EXCEPT ![r] = "releaseVersion"]
      /\ status' = [status EXCEPT ![r] = BadGateway]
      /\ UNCHANGED <<archives, manifests, entries, Reservations, pkg, mode>>
      /\ BadGateway \in Status \ {CreatedStatus}
  BY SubmissionsAssumption, ModesAssumption
  DEF PutLost, Lose, Uploading, Goto, Answer, IInv, TypeOK, Status, BadGateway,
      CreatedStatus
<1>2. /\ put \in Put /\ put.dir = VersionDir(pkg[r])
      /\ "manifest" \in put.objects =>
             "archive" \in put.objects \/ archives[put.dir] # Nil
  <2>1. CASE pc[r] = "uploadManifest"
    <3>1. put = ManifestPut(pkg[r])
      BY <2>1 DEF NextPut
    <3>2. archives[VersionDir(pkg[r])] # Nil
      BY <2>1 DEF IInv, ArchiveFirst
    <3>3. QED
      BY <1>1, <3>1, <3>2, PutTypes DEF ManifestPut
  <2>2. CASE pc[r] = "upload" /\ mode = "atomic"
    <3>1. put = Bundle(pkg[r])
      BY <2>2 DEF NextPut
    <3>2. QED
      BY <1>1, <3>1, PutTypes DEF Bundle, Object
  <2>3. CASE pc[r] = "upload" /\ mode = "two-step"
    <3>1. put = ArchivePut(pkg[r])
      BY <2>3 DEF NextPut
    <3>2. QED
      BY <1>1, <3>1, PutTypes DEF ArchivePut
  <2>4. QED
    BY <1>1, <2>1, <2>2, <2>3
<1> HIDE DEF put
<1>3. TypeOK'
  BY <1>1, <1>2 DEF IInv, TypeOK, StorageTypeOK, Reservations, Step
<1>4. \A s \in Request : /\ HoldsVersion(s)' <=> HoldsVersion(s)
                         /\ HoldsName(s)' <=> HoldsName(s)
  BY <1>1 DEF IInv, HoldsVersion, HoldsName, TypeOK
<1>5. VersionExclusion' /\ VersionsHeld' /\ NamesHeld'
  BY <1>1, <1>4 DEF IInv, VersionExclusion, VersionsHeld, NamesHeld, Reservations
<1>6. ManifestHasArchive' /\ ListedIsStored'
  BY <1>1 DEF IInv, ManifestHasArchive, ListedIsStored, Published
<1>7. ArchiveFirst'
  BY <1>1, <1>2 DEF IInv, ArchiveFirst, TypeOK
<1>8. SuccessIsStored' /\ CreatedAtEnd'
  BY <1>1 DEF IInv, SuccessIsStored, CreatedAtEnd, TypeOK, Published
<1>9. QED
  BY <1>3, <1>5, <1>6, <1>7, <1>8 DEF IInv

LEMMA StorageCatchesUpStep ==
    ASSUME IInv, StorageCatchesUp
    PROVE  IInv'
<1>1. PICK put \in late : ApplyLate(put)
  BY DEF StorageCatchesUp
<1>2. /\ put \in Put /\ Apply(put) /\ late' = late \ {put}
      /\ "manifest" \in put.objects =>
             "archive" \in put.objects \/ archives[put.dir] # Nil
      /\ UNCHANGED <<mode, pkg, pc, status, entries, reservedVersions, reservedNames>>
      /\ StorageTypeOK
  BY <1>1 DEF StorageCatchesUp, ApplyLate, IInv, ArchiveFirst, TypeOK, StorageTypeOK,
              requestVars, Reservations
<1>3. /\ ManifestHasArchive'
      /\ \A m \in Manifest : Published(m) => Published(m)'
  BY <1>2, ApplyKeepsInvariants
<1>4. TypeOK'
  BY <1>2, ApplyStores DEF IInv, TypeOK, StorageTypeOK
<1>5. \A s \in Request : /\ HoldsVersion(s)' <=> HoldsVersion(s)
                         /\ HoldsName(s)' <=> HoldsName(s)
  BY <1>2 DEF HoldsVersion, HoldsName
<1>6. VersionExclusion' /\ VersionsHeld' /\ NamesHeld'
  BY <1>2, <1>5 DEF IInv, VersionExclusion, VersionsHeld, NamesHeld
<1>7. ArchiveFirst'
  <2>1. \A d \in Dir : archives[d] # Nil => archives'[d] # Nil
    BY <1>2, ApplyStores
  <2>2. \A s \in Request : VersionDir(pkg[s]) \in Dir
    BY SubmissionsAssumption, PutTypes DEF IInv, TypeOK
  <2>3. \A p \in late' : p.dir \in Dir /\ p \in late
    BY <1>2 DEF StorageTypeOK, Put
  <2>4. QED
    BY <1>2, <2>1, <2>2, <2>3 DEF IInv, ArchiveFirst
<1>8. ListedIsStored'
  <2>1. Range(entries) \subseteq Manifest
    BY RangeOfSeq, SubmissionsAssumption DEF IInv, TypeOK
  <2>2. QED
    BY <1>2, <1>3, <2>1 DEF IInv, ListedIsStored
<1>9. SuccessIsStored' /\ CreatedAtEnd'
  <2>1. \A s \in Request : pkg[s] \in Manifest
    BY SubmissionsAssumption DEF IInv, TypeOK
  <2>2. QED
    BY <1>2, <1>3, <2>1 DEF IInv, SuccessIsStored, CreatedAtEnd, Published
<1>10. QED
  BY <1>3, <1>4, <1>6, <1>7, <1>8, <1>9 DEF IInv

LEMMA AddStep ==
    ASSUME IInv, NEW r \in Request, Add(r)
    PROVE  IInv'
<1>1. /\ pc[r] = "add" /\ pkg[r] \in Submissions /\ entries \in Seq(Submissions)
      /\ entries' = Append(entries, pkg[r])
      /\ pc' = [pc EXCEPT ![r] = "respond"]
      /\ UNCHANGED <<status, Reservations, storageVars, pkg, mode>>
  BY DEF Add, Goto, IInv, TypeOK
<1>2. Range(entries') = Range(entries) \cup {pkg[r]}
  BY <1>1, RangeAppend
<1>3. TypeOK'
  <2>1. entries' \in Seq(Submissions)
    BY <1>1, AppendProperties
  <2>2. QED
    BY <1>1, <2>1 DEF IInv, TypeOK, StorageTypeOK, storageVars, Reservations, Step
<1>4. \A s \in Request : /\ HoldsVersion(s)' <=> HoldsVersion(s)
                         /\ HoldsName(s)' <=> HoldsName(s)
  BY <1>1 DEF IInv, HoldsVersion, HoldsName, TypeOK
<1>5. VersionExclusion' /\ VersionsHeld' /\ NamesHeld'
  BY <1>1, <1>4 DEF IInv, VersionExclusion, VersionsHeld, NamesHeld, Reservations
<1>6. ManifestHasArchive' /\ ArchiveFirst'
  BY <1>1 DEF IInv, ManifestHasArchive, ArchiveFirst, TypeOK, storageVars
<1>7. Published(pkg[r])
  BY <1>1 DEF IInv, SuccessIsStored
<1>8. ListedIsStored'
  BY <1>1, <1>2, <1>7 DEF IInv, ListedIsStored, Published, storageVars
<1>9. SuccessIsStored' /\ CreatedAtEnd'
  BY <1>1, <1>2, <1>7
  DEF IInv, SuccessIsStored, CreatedAtEnd, TypeOK, Published, storageVars
<1>10. QED
  BY <1>3, <1>5, <1>6, <1>8, <1>9 DEF IInv

LEMMA RespondStep ==
    ASSUME IInv, NEW r \in Request, Respond(r)
    PROVE  IInv'
<1>1. /\ pc[r] = "respond"
      /\ pc' = [pc EXCEPT ![r] = "releaseVersion"]
      /\ status' = [status EXCEPT ![r] = CreatedStatus]
      /\ UNCHANGED <<entries, reservedVersions, reservedNames, pkg, mode>>
      /\ UNCHANGED <<archives, manifests, late>>
      /\ CreatedStatus \in Status
  BY DEF Respond, Goto, Answer, Reservations, storageVars, Status
<1>2. TypeOK'
  BY <1>1 DEF IInv, TypeOK, StorageTypeOK, Step
<1>3. \A s \in Request : /\ HoldsVersion(s)' <=> HoldsVersion(s)
                         /\ HoldsName(s)' <=> HoldsName(s)
  BY <1>1 DEF IInv, HoldsVersion, HoldsName, TypeOK
<1>4. VersionExclusion' /\ VersionsHeld' /\ NamesHeld'
  BY <1>1, <1>3 DEF IInv, VersionExclusion, VersionsHeld, NamesHeld
<1>5. ManifestHasArchive' /\ ArchiveFirst' /\ ListedIsStored'
  BY <1>1 DEF IInv, ManifestHasArchive, ArchiveFirst, ListedIsStored, Published, TypeOK
<1>6. SuccessIsStored' /\ CreatedAtEnd'
  BY <1>1 DEF IInv, SuccessIsStored, CreatedAtEnd, Published, TypeOK
<1>7. QED
  BY <1>2, <1>4, <1>5, <1>6 DEF IInv

LEMMA ReleaseVersionStep ==
    ASSUME IInv, NEW r \in Request, ReleaseVersion(r)
    PROVE  IInv'
<1>1. /\ pc[r] = "releaseVersion"
      /\ pc' = [pc EXCEPT ![r] = "releaseName"]
      /\ reservedVersions' = reservedVersions \ {VersionKey(pkg[r])}
      /\ UNCHANGED <<entries, status, reservedNames, pkg, mode>>
      /\ UNCHANGED <<archives, manifests, late>>
  BY DEF ReleaseVersion, Goto, Answer, Reservations, storageVars
<1>2. TypeOK'
  BY <1>1 DEF IInv, TypeOK, StorageTypeOK, Step
<1>3. /\ \A s \in Request \ {r} : HoldsVersion(s)' <=> HoldsVersion(s)
      /\ \A s \in Request : HoldsName(s)' <=> HoldsName(s)
      /\ HoldsVersion(r) /\ ~HoldsVersion(r)'
  BY <1>1 DEF IInv, HoldsVersion, HoldsName, TypeOK
<1>4. VersionExclusion'
  BY <1>1, <1>3 DEF IInv, VersionExclusion
<1>5. VersionsHeld'
  BY <1>1, <1>3 DEF IInv, VersionExclusion, VersionsHeld
<1>6. NamesHeld'
  BY <1>1, <1>3 DEF IInv, NamesHeld
<1>7. ManifestHasArchive' /\ ArchiveFirst' /\ ListedIsStored'
  BY <1>1 DEF IInv, ManifestHasArchive, ArchiveFirst, ListedIsStored, Published, TypeOK
<1>8. SuccessIsStored' /\ CreatedAtEnd'
  BY <1>1 DEF IInv, SuccessIsStored, CreatedAtEnd, Published, TypeOK
<1>9. QED
  BY <1>2, <1>4, <1>5, <1>6, <1>7, <1>8 DEF IInv

\* Deleting the reservation may take it from a sibling of the same UUID, never
\* leaving one behind: every other key keeps its holder.
LEMMA ReleaseNameStep ==
    ASSUME IInv, NEW r \in Request, ReleaseName(r)
    PROVE  IInv'
<1>1. /\ pc[r] = "releaseName"
      /\ pc' = [pc EXCEPT ![r] = "done"]
      /\ reservedNames' = [reservedNames EXCEPT ![NameKey(pkg[r])] = Nil]
      /\ UNCHANGED <<entries, status, reservedVersions, pkg, mode>>
      /\ UNCHANGED <<archives, manifests, late>>
  BY DEF ReleaseName, Goto, Answer, Reservations, storageVars
<1>2. TypeOK'
  BY <1>1 DEF IInv, TypeOK, StorageTypeOK, Step
<1>3. /\ \A s \in Request : HoldsVersion(s)' <=> HoldsVersion(s)
      /\ \A s \in Request \ {r} : HoldsName(s)' <=> HoldsName(s)
  BY <1>1 DEF IInv, HoldsVersion, HoldsName, TypeOK
<1>4. VersionExclusion' /\ VersionsHeld'
  BY <1>1, <1>3 DEF IInv, VersionExclusion, VersionsHeld
<1>5. NamesHeld'
  BY <1>1, <1>3 DEF IInv, NamesHeld, TypeOK
<1>6. ManifestHasArchive' /\ ArchiveFirst' /\ ListedIsStored'
  BY <1>1 DEF IInv, ManifestHasArchive, ArchiveFirst, ListedIsStored, Published, TypeOK
<1>7. SuccessIsStored' /\ CreatedAtEnd'
  BY <1>1 DEF IInv, SuccessIsStored, CreatedAtEnd, Published, TypeOK
<1>8. QED
  BY <1>2, <1>4, <1>5, <1>6, <1>7 DEF IInv

LEMMA NextIInv == IInv /\ [Next]_vars => IInv'
<1> SUFFICES ASSUME IInv, [Next]_vars
             PROVE  IInv'
  OBVIOUS
<1>1. ASSUME NEW r \in Request, Serve(r)
      PROVE  IInv'
  <2>0. /\ {"receive", "checkName", "reserveName", "checkVersion", "reserveVersion",
            "releaseVersion", "releaseName", "done"} \subseteq Step
        /\ {BadRequest, Conflict, BadGateway} \subseteq Status \ {CreatedStatus}
        /\ pc \in [Request -> Step]
    BY DEF Step, Status, BadRequest, Conflict, BadGateway, CreatedStatus, IInv, TypeOK
  <2>1. pc[r] \notin {"releaseVersion", "releaseName", "done"} =>
            status[r] # CreatedStatus
    BY DEF IInv, CreatedAtEnd
  <2>2. CASE Receive(r)
    <3>1. pc[r] = "receive" /\ pc' = [pc EXCEPT ![r] = "checkName"]
      BY <2>2 DEF Receive, Goto
    <3>2. ~HoldsVersion(r) /\ ~HoldsVersion(r)' /\ ~HoldsName(r)
      BY <2>0, <3>1 DEF HoldsVersion, HoldsName
    <3>3. QED
      BY <2>0, <2>1, <2>2, <3>1, <3>2, QuietStep DEF Receive
  <2>3. CASE Refuse(r)
    <3>1. pc[r] = "receive" /\ pc' = [pc EXCEPT ![r] = "done"]
      BY <2>3 DEF Refuse, Goto
    <3>2. ~HoldsVersion(r) /\ ~HoldsVersion(r)' /\ ~HoldsName(r)
      BY <2>0, <3>1 DEF HoldsVersion, HoldsName
    <3>3. QED
      BY <2>0, <2>1, <2>3, <3>1, <3>2, QuietStep DEF Refuse
  <2>4. CASE CheckName(r)
    <3>1. /\ pc[r] = "checkName"
          /\ \/ pc' = [pc EXCEPT ![r] = "done"]
             \/ pc' = [pc EXCEPT ![r] = "reserveName"]
      BY <2>4 DEF CheckName, Goto
    <3>2. ~HoldsVersion(r) /\ ~HoldsVersion(r)' /\ ~HoldsName(r)
      BY <2>0, <3>1 DEF HoldsVersion, HoldsName
    <3>3. QED
      BY <2>0, <2>1, <2>4, <3>1, <3>2, QuietStep DEF CheckName
  <2>5. CASE ReserveName(r)
    BY <2>5, ReserveNameStep
  <2>6. CASE CheckVersion(r)
    <3>1. /\ pc[r] = "checkVersion"
          /\ \/ pc' = [pc EXCEPT ![r] = "releaseName"]
             \/ pc' = [pc EXCEPT ![r] = "reserveVersion"]
      BY <2>6 DEF CheckVersion, Goto
    <3>2. ~HoldsVersion(r) /\ ~HoldsVersion(r)' /\ HoldsName(r)'
      BY <2>0, <3>1 DEF HoldsVersion, HoldsName
    <3>3. QED
      BY <2>0, <2>1, <2>6, <3>1, <3>2, QuietStep DEF CheckVersion
  <2>7. CASE ReserveVersion(r)
    BY <2>7, ReserveVersionStep
  <2>8. CASE PutAccepted(r)
    BY <2>8, PutAcceptedStep
  <2>9. CASE PutRejected(r) \/ PutConflict(r)
    <3>1. /\ pc[r] \in {"upload", "uploadManifest"}
          /\ pc' = [pc EXCEPT ![r] = "releaseVersion"]
      BY <2>9 DEF PutRejected, PutConflict, Uploading, Goto
    <3>2. HoldsVersion(r) /\ HoldsVersion(r)' /\ HoldsName(r)'
      BY <2>0, <3>1 DEF HoldsVersion, HoldsName
    <3>3. QED
      BY <2>0, <2>1, <2>9, <3>1, <3>2, QuietStep DEF PutRejected, PutConflict
  <2>10. CASE PutLost(r)
    BY <2>10, PutLostStep
  <2>11. CASE Add(r)
    BY <2>11, AddStep
  <2>12. CASE Respond(r)
    BY <2>12, RespondStep
  <2>13. CASE ReleaseVersion(r)
    BY <2>13, ReleaseVersionStep
  <2>14. CASE ReleaseName(r)
    BY <2>14, ReleaseNameStep
  <2>15. QED
    BY <1>1, <2>2, <2>3, <2>4, <2>5, <2>6, <2>7, <2>8, <2>9, <2>10, <2>11, <2>12,
       <2>13, <2>14 DEF Serve
<1>2. CASE StorageCatchesUp
  BY <1>2, StorageCatchesUpStep
<1>3. CASE UNCHANGED vars
  BY <1>3
  DEF IInv, TypeOK, StorageTypeOK, VersionExclusion, VersionsHeld, NamesHeld,
      ManifestHasArchive, ArchiveFirst, ListedIsStored, SuccessIsStored, CreatedAtEnd,
      HoldsVersion, HoldsName, Published, vars, requestVars, storageVars
<1>4. QED
  BY <1>1, <1>2, <1>3 DEF Next, AllServed

THEOREM InductiveInvariant == Spec => []IInv
BY InitIInv, NextIInv, PTL DEF Spec

-----------------------------------------------------------------------------
(* The theorems.                                                             *)

\* Every variable keeps its type, the stored objects and outstanding PUTs
\* included.
THEOREM TypeCorrect == Spec => []TypeOK
<1>1. IInv => TypeOK
  BY DEF IInv
<1>2. QED
  BY <1>1, InductiveInvariant, PTL

\* reserveVersion and its deferred release give mutual exclusion per version,
\* for any number of requests (publish.go:150-155).
THEOREM VersionsExclusive == Spec => []VersionExclusion
<1>1. IInv => VersionExclusion
  BY DEF IInv
<1>2. QED
  BY <1>1, InductiveInvariant, PTL

\* No reservation is left behind by a publish that fails, is refused or loses a
\* race, although releaseName deletes reservations it does not own
\* (publish.go:53-55, 142, 155).
THEOREM ReservationsOwned == Spec => []NoStrayReservation
<1>1. IInv => NoStrayReservation
  BY DEF IInv, NoStrayReservation, VersionsHeld, NamesHeld
<1>2. QED
  BY <1>1, InductiveInvariant, PTL

\* A manifest never points at a missing archive, in either mode, with any
\* number of PUTs failing, lost, or applied late (uploader.go:45-129).
THEOREM ManifestsComplete == Spec => []ManifestHasArchive
<1>1. IInv => ManifestHasArchive
  BY DEF IInv
<1>2. QED
  BY <1>1, InductiveInvariant, PTL

\* The index lists only what storage holds (publish.go:157-168).
THEOREM ListedStored == Spec => []ListedIsStored
<1>1. IInv => ListedIsStored
  BY DEF IInv
<1>2. QED
  BY <1>1, InductiveInvariant, PTL

\* A publish answered 201 is stored and listed (publish.go:157-171).
THEOREM CreatedListed == Spec => []CreatedIsListed
<1>1. IInv => CreatedIsListed
  BY DEF IInv, SuccessIsStored, CreatedIsListed
<1>2. QED
  BY <1>1, InductiveInvariant, PTL

\* A 409 is never sent without a rival that justifies it: were a reservation
\* ever stale, a lone publisher would be turned away (publish.go:129-162).
THEOREM ConflictsJustified == Spec => ConflictHasRival
<1>1. ASSUME IInv, [Next]_vars, NEW r \in Request,
             status[r] # Conflict, status'[r] = Conflict
      PROVE  Rival(r)
  <2>0. /\ status \in [Request -> Status] /\ pkg[r] \in Manifest
        /\ BadRequest # Conflict /\ BadGateway # Conflict /\ CreatedStatus # Conflict
    BY <1>1, SubmissionsAssumption
    DEF IInv, TypeOK, BadRequest, BadGateway, CreatedStatus, Conflict
  <2>1. PICK s \in Request : Serve(s)
    BY <1>1 DEF Next, AllServed, StorageCatchesUp, vars, requestVars
  <2>2. \A c : UNCHANGED status \/ Answer(s, c) => s = r \/ status'[r] = status[r]
    BY <2>0, <2>1 DEF Answer
  <2>3. \/ CheckName(r) \/ ReserveName(r) \/ CheckVersion(r) \/ ReserveVersion(r)
        \/ PutConflict(r)
    <3>1. s = r
      BY <1>1, <2>1, <2>2
      DEF Serve, Receive, Refuse, CheckName, ReserveName, CheckVersion,
          ReserveVersion, PutAccepted, PutRejected, PutConflict, PutLost, Add, Respond,
          ReleaseVersion, ReleaseName
    <3>2. QED
      BY <1>1, <2>0, <2>1, <3>1
      DEF Serve, Receive, Refuse, PutAccepted, PutRejected, PutLost, Add, Respond,
          ReleaseVersion, ReleaseName, Answer
  <2>4. CASE CheckName(r)
    BY <1>1, <2>4 DEF CheckName, Rival
  <2>5. CASE ReserveName(r)
    <3>1. reservedNames[NameKey(pkg[r])] \notin {Nil, pkg[r].id}
      BY <1>1, <2>5 DEF ReserveName
    <3>2. PICK t \in Request : /\ HoldsName(t)
                               /\ NameKey(pkg[t]) = NameKey(pkg[r])
                               /\ pkg[t].id = reservedNames[NameKey(pkg[r])]
      BY <1>1, <2>0, <3>1, PutTypes DEF IInv, NamesHeld
    <3>3. QED
      BY <3>1, <3>2 DEF Rival
  <2>6. CASE CheckVersion(r)
    BY <1>1, <2>6 DEF CheckVersion, Rival
  <2>7. CASE ReserveVersion(r)
    <3>1. VersionKey(pkg[r]) \in reservedVersions /\ ~HoldsVersion(r)
      BY <1>1, <2>7 DEF ReserveVersion, HoldsVersion
    <3>2. PICK t \in Request : HoldsVersion(t) /\ VersionKey(pkg[t]) = VersionKey(pkg[r])
      BY <1>1, <3>1 DEF IInv, VersionsHeld
    <3>3. QED
      BY <3>1, <3>2 DEF Rival
  <2>8. CASE PutConflict(r)
    BY <2>8 DEF PutConflict, Rival
  <2>9. QED
    BY <2>3, <2>4, <2>5, <2>6, <2>7, <2>8
<1>2. IInv /\ [Next]_vars =>
          [\A r \in Request : status[r] # Conflict /\ status'[r] = Conflict
                                  => Rival(r)]_vars
  BY <1>1
<1>3. QED
  BY <1>2, InductiveInvariant, PTL DEF Spec, ConflictHasRival

-----------------------------------------------------------------------------
(* Archives and manifests of one version.                                    *)

Failed(r) == status[r] = BadGateway

\* A 502 is only sent at the end, and no later answer replaces it.
FailedAtEnd ==
    \A r \in Request : Failed(r) => pc[r] \in {"releaseVersion", "releaseName", "done"}

\* A PUT that may still arrive belongs to a request that has failed.
LateFailed ==
    \A put \in late : \E r \in Request :
        Failed(r) /\ VersionDir(pkg[r]) = put.dir /\ pkg[r].digest = put.digest

\* Between its two PUTs a request finds its own archive, or that of a request
\* that has failed.
OwnArchive ==
    \A r \in Request : pc[r] = "uploadManifest" =>
        /\ mode = "two-step"
        /\ \/ archives[VersionDir(pkg[r])] = pkg[r].digest
           \/ \E s \in Request : /\ Failed(s) /\ VersionDir(pkg[s]) = VersionDir(pkg[r])
                                 /\ pkg[s].digest = archives[VersionDir(pkg[r])]

MixInv == UploadsDoNotMix /\ FailedAtEnd /\ LateFailed /\ OwnArchive

\* Once failed, always failed.
LEMMA FailedStays ==
    ASSUME IInv, FailedAtEnd, [Next]_vars
    PROVE  /\ FailedAtEnd'
           /\ \A r \in Request : Failed(r) => Failed(r)'
           /\ UNCHANGED <<pkg, mode>>
<1>1. /\ pc \in [Request -> Step] /\ status \in [Request -> Status]
      /\ BadRequest # BadGateway /\ Conflict # BadGateway /\ CreatedStatus # BadGateway
  BY DEF IInv, TypeOK, BadRequest, Conflict, BadGateway, CreatedStatus
<1>2. UNCHANGED <<pkg, mode>>
  BY DEF Next, Serve, AllServed, vars, requestVars, StorageCatchesUp, Receive, Refuse,
         CheckName, ReserveName, CheckVersion, ReserveVersion, PutAccepted, PutRejected,
         PutConflict, PutLost, Add, Respond, ReleaseVersion, ReleaseName, Goto
<1>3. CASE UNCHANGED <<pc, status>>
  BY <1>2, <1>3 DEF FailedAtEnd, Failed
<1>4. ASSUME NEW s \in Request, Serve(s)
      PROVE  /\ \A r \in Request \ {s} : pc'[r] = pc[r] /\ status'[r] = status[r]
             /\ Failed(s) => Failed(s)'
             /\ Failed(s)' => pc'[s] \in {"releaseVersion", "releaseName", "done"}
  <2>1. CASE Receive(s) \/ Refuse(s) \/ CheckName(s) \/ ReserveName(s)
    BY <1>1, <2>1
    DEF Receive, Refuse, CheckName, ReserveName, Goto, Answer, Failed, FailedAtEnd
  <2>2. CASE CheckVersion(s) \/ ReserveVersion(s)
    BY <1>1, <2>2
    DEF CheckVersion, ReserveVersion, Goto, Answer, Failed, FailedAtEnd
  <2>3. CASE PutAccepted(s) \/ PutRejected(s) \/ PutConflict(s) \/ PutLost(s)
    BY <1>1, <2>3
    DEF PutAccepted, PutRejected, PutConflict, PutLost, Uploading, Goto, Answer, Failed,
        FailedAtEnd
  <2>4. CASE Add(s) \/ Respond(s) \/ ReleaseVersion(s) \/ ReleaseName(s)
    BY <1>1, <2>4
    DEF Add, Respond, ReleaseVersion, ReleaseName, Goto, Answer, Failed, FailedAtEnd
  <2>5. QED
    BY <1>4, <2>1, <2>2, <2>3, <2>4 DEF Serve
<1>5. CASE \E s \in Request : Serve(s)
  <2>1. PICK s \in Request : Serve(s)
    BY <1>5
  <2>2. /\ \A r \in Request \ {s} : pc'[r] = pc[r] /\ status'[r] = status[r]
        /\ Failed(s) => Failed(s)'
        /\ Failed(s)' => pc'[s] \in {"releaseVersion", "releaseName", "done"}
    BY <1>4, <2>1
  <2>3. QED
    BY <1>2, <2>2 DEF FailedAtEnd, Failed
<1>6. QED
  BY <1>2, <1>3, <1>5 DEF Next, AllServed, StorageCatchesUp, vars, requestVars

\* A step that stores nothing, sends nothing and begins no second PUT.
LEMMA UnmixedQuiet ==
    ASSUME IInv, MixInv, [Next]_vars, UNCHANGED storageVars,
           \A r \in Request : pc'[r] = "uploadManifest" => pc[r] = "uploadManifest",
           \A r \in Request :
               pc[r] = "uploadManifest" => pc'[r] = "uploadManifest" \/ Failed(r)'
    PROVE  MixInv'
<1>1. /\ FailedAtEnd' /\ UNCHANGED <<pkg, mode>>
      /\ \A r \in Request : Failed(r) => Failed(r)'
  BY FailedStays DEF MixInv
<1>2. UNCHANGED <<archives, manifests, late>>
  BY DEF storageVars
<1>3. UploadsDoNotMix'
  BY <1>1, <1>2 DEF MixInv, UploadsDoNotMix, Failed
<1>4. LateFailed' /\ OwnArchive'
  BY <1>1, <1>2 DEF MixInv, LateFailed, OwnArchive
<1>5. QED
  BY <1>1, <1>3, <1>4 DEF MixInv

\* What a PUT does to the directory it is for, and to no other.
LEMMA ApplyIn ==
    ASSUME StorageTypeOK, NEW put \in Put, Apply(put)
    PROVE  /\ \A d \in Dir \ {put.dir} :
                  archives'[d] = archives[d] /\ manifests'[d] = manifests[d]
           /\ archives'[put.dir] = IF "archive" \in put.objects THEN put.digest
                                   ELSE archives[put.dir]
           /\ manifests'[put.dir] = IF "manifest" \in put.objects THEN put.digest
                                    ELSE manifests[put.dir]
<1>1. put.dir \in Dir
  BY DEF Put
<1>2. QED
  BY <1>1 DEF Apply, StorageTypeOK

LEMMA UnmixedAccepted ==
    ASSUME IInv, MixInv, [Next]_vars, NEW r \in Request, PutAccepted(r)
    PROVE  MixInv'
<1> DEFINE put == NextPut(r)
           dir == VersionDir(pkg[r])
<1>1. /\ FailedAtEnd' /\ UNCHANGED <<pkg, mode>>
      /\ \A s \in Request : Failed(s) => Failed(s)'
  BY FailedStays DEF MixInv
<1>2. /\ pc[r] \in {"upload", "uploadManifest"} /\ pkg[r] \in Manifest
      /\ mode \in {"atomic", "two-step"} /\ Apply(put) /\ UNCHANGED <<status, late>>
      /\ pc' = [pc EXCEPT ![r] = AfterPut(r)] /\ StorageTypeOK
      /\ pc \in [Request -> Step]
  BY SubmissionsAssumption, ModesAssumption
  DEF PutAccepted, Uploading, Goto, IInv, TypeOK
<1>3. /\ put \in Put /\ put.dir = dir /\ put.digest = pkg[r].digest /\ dir \in Dir
      /\ put = Bundle(pkg[r]) \/ put = ArchivePut(pkg[r]) \/ put = ManifestPut(pkg[r])
  <2>1. put = Bundle(pkg[r]) \/ put = ArchivePut(pkg[r]) \/ put = ManifestPut(pkg[r])
    BY DEF NextPut
  <2>2. put.dir = dir /\ put.digest = pkg[r].digest
    BY <2>1 DEF Bundle, ArchivePut, ManifestPut
  <2> HIDE DEF put
  <2>3. put \in Put /\ dir \in Dir
    BY <1>2, <2>1, PutTypes
  <2>4. QED
    BY <2>1, <2>2, <2>3
<1> HIDE DEF dir
<1>4. ASSUME NEW s \in Request, s # r, pc[s] = "uploadManifest"
      PROVE  VersionDir(pkg[s]) \in Dir \ {dir}
  <2>1. pkg[s] \in Manifest
    BY SubmissionsAssumption DEF IInv, TypeOK
  <2>2. VersionKey(pkg[s]) # VersionKey(pkg[r])
    BY <1>2, <1>4 DEF IInv, VersionExclusion, HoldsVersion
  <2>3. QED
    BY <2>1, <2>2, PutTypes DEF VersionDir, VersionKey, dir
<1>5. /\ \A d \in Dir \ {dir} : archives'[d] = archives[d] /\ manifests'[d] = manifests[d]
      /\ archives'[dir] = IF "archive" \in put.objects THEN pkg[r].digest ELSE archives[dir]
      /\ manifests'[dir] = IF "manifest" \in put.objects THEN pkg[r].digest
                           ELSE manifests[dir]
  BY <1>2, <1>3, ApplyIn
<1>6. \A s \in Request \ {r} : pc'[s] = pc[s]
  BY <1>2
<1>7. pc'[r] = AfterPut(r)
  BY <1>2
<1> HIDE DEF put
\* The other directories.
<1>8. \A d \in Dir \ {dir} : manifests'[d] \notin {Nil, archives'[d]} =>
          \E s \in Request :
              /\ VersionDir(pkg'[s]) = d
              /\ pkg'[s].digest \in {archives'[d], manifests'[d]}
              /\ status'[s] = BadGateway \/ pc'[s] = "uploadManifest"
  <2> SUFFICES ASSUME NEW d \in Dir \ {dir}, manifests'[d] \notin {Nil, archives'[d]}
               PROVE  \E s \in Request :
                          /\ VersionDir(pkg'[s]) = d
                          /\ pkg'[s].digest \in {archives'[d], manifests'[d]}
                          /\ status'[s] = BadGateway \/ pc'[s] = "uploadManifest"
    OBVIOUS
  <2>1. PICK s \in Request : /\ VersionDir(pkg[s]) = d
                             /\ pkg[s].digest \in {archives[d], manifests[d]}
                             /\ status[s] = BadGateway \/ pc[s] = "uploadManifest"
    BY <1>5 DEF MixInv, UploadsDoNotMix
  <2>2. s # r
    BY <2>1 DEF dir
  <2>3. QED
    BY <1>1, <1>2, <1>5, <1>6, <2>1, <2>2
<1>9. LateFailed'
  BY <1>1, <1>2 DEF MixInv, LateFailed
<1>10. \A s \in Request \ {r} : pc'[s] = "uploadManifest" =>
           /\ mode' = "two-step"
           /\ \/ archives'[VersionDir(pkg'[s])] = pkg'[s].digest
              \/ \E t \in Request :
                     /\ Failed(t)' /\ VersionDir(pkg'[t]) = VersionDir(pkg'[s])
                     /\ pkg'[t].digest = archives'[VersionDir(pkg'[s])]
  BY <1>1, <1>4, <1>5, <1>6 DEF MixInv, OwnArchive
\* Its own directory.
<1>11. CASE pc[r] = "upload" /\ mode = "two-step"
  <2>1. put = ArchivePut(pkg[r]) /\ pc'[r] = "uploadManifest"
    BY <1>7, <1>11 DEF put, NextPut, AfterPut
  <2>2. archives'[dir] = pkg[r].digest /\ pkg' = pkg
    BY <1>1, <1>5, <2>1 DEF ArchivePut
  <2>3. UploadsDoNotMix'
    BY <1>8, <2>1, <2>2 DEF UploadsDoNotMix, dir
  <2>4. OwnArchive'
    BY <1>1, <1>10, <1>11, <2>1, <2>2 DEF OwnArchive, dir
  <2>5. QED
    BY <1>1, <1>9, <2>3, <2>4 DEF MixInv
<1>12. CASE ~(pc[r] = "upload" /\ mode = "two-step")
  <2>1. pc'[r] = "add" /\ "manifest" \in put.objects
    BY <1>2, <1>7, <1>12
    DEF put, NextPut, AfterPut, Bundle, ManifestPut, Object
  <2>2. OwnArchive'
    BY <1>10, <2>1 DEF OwnArchive
  <2>3. manifests'[dir] = pkg[r].digest
    BY <1>5, <2>1
  <2>4. \/ archives'[dir] = pkg[r].digest
        \/ \E s \in Request : /\ Failed(s) /\ VersionDir(pkg[s]) = dir
                              /\ pkg[s].digest = archives'[dir]
    <3>1. CASE "archive" \in put.objects
      BY <1>5, <3>1
    <3>2. CASE "archive" \notin put.objects
      <4>1. pc[r] = "uploadManifest"
        BY <1>2, <1>12, <3>2 DEF put, NextPut, Bundle, Object
      <4>2. QED
        BY <1>5, <3>2, <4>1 DEF MixInv, OwnArchive, dir
    <3>3. QED
      BY <3>1, <3>2
  <2>5. manifests'[dir] \notin {Nil, archives'[dir]} =>
            \E s \in Request : /\ VersionDir(pkg'[s]) = dir
                               /\ pkg'[s].digest \in {archives'[dir], manifests'[dir]}
                               /\ status'[s] = BadGateway \/ pc'[s] = "uploadManifest"
    BY <1>1, <1>2, <2>3, <2>4 DEF Failed
  <2>6. UploadsDoNotMix'
    BY <1>8, <2>5 DEF UploadsDoNotMix
  <2>7. QED
    BY <1>1, <1>9, <2>2, <2>6 DEF MixInv
<1>13. QED
  BY <1>11, <1>12

LEMMA UnmixedLost ==
    ASSUME IInv, MixInv, [Next]_vars, NEW r \in Request, PutLost(r)
    PROVE  MixInv'
<1>1. /\ FailedAtEnd' /\ UNCHANGED <<pkg, mode>>
      /\ \A s \in Request : Failed(s) => Failed(s)'
  BY FailedStays DEF MixInv
<1>2. /\ late' = late \cup {NextPut(r)} /\ UNCHANGED <<archives, manifests>>
      /\ status' = [status EXCEPT ![r] = BadGateway]
      /\ pc' = [pc EXCEPT ![r] = "releaseVersion"]
      /\ pc \in [Request -> Step] /\ status \in [Request -> Status]
  BY DEF PutLost, Lose, Answer, Goto, IInv, TypeOK
<1>3. NextPut(r).dir = VersionDir(pkg[r]) /\ NextPut(r).digest = pkg[r].digest
  BY DEF NextPut, Bundle, ArchivePut, ManifestPut
<1>4. /\ Failed(r)'
      /\ \A s \in Request : pc'[s] = "uploadManifest" => pc[s] = "uploadManifest"
      /\ \A s \in Request : pc[s] = "uploadManifest" =>
             pc'[s] = "uploadManifest" \/ Failed(s)'
  BY <1>2 DEF Failed
<1>5. UploadsDoNotMix'
  BY <1>1, <1>2, <1>4 DEF MixInv, UploadsDoNotMix, Failed
<1>6. LateFailed'
  <2> SUFFICES ASSUME NEW put \in late'
               PROVE  \E s \in Request : /\ Failed(s)' /\ VersionDir(pkg'[s]) = put.dir
                                         /\ pkg'[s].digest = put.digest
    BY DEF LateFailed
  <2>1. CASE put = NextPut(r)
    BY <1>1, <1>3, <1>4, <2>1
  <2>2. CASE put \in late
    BY <1>1, <2>2 DEF MixInv, LateFailed
  <2>3. QED
    BY <1>2, <2>1, <2>2
<1>7. OwnArchive'
  BY <1>1, <1>2, <1>4 DEF MixInv, OwnArchive
<1>8. QED
  BY <1>1, <1>5, <1>6, <1>7 DEF MixInv

LEMMA UnmixedLate ==
    ASSUME IInv, MixInv, [Next]_vars, StorageCatchesUp
    PROVE  MixInv'
<1>1. /\ FailedAtEnd' /\ UNCHANGED <<pkg, mode>>
      /\ \A s \in Request : Failed(s) => Failed(s)'
  BY FailedStays DEF MixInv
<1>2. PICK put \in late : ApplyLate(put)
  BY DEF StorageCatchesUp
<1>3. /\ put \in Put /\ Apply(put) /\ late' \subseteq late /\ StorageTypeOK
      /\ UNCHANGED <<pc, status>>
  BY <1>2 DEF ApplyLate, IInv, TypeOK, StorageTypeOK, StorageCatchesUp, requestVars
<1>4. PICK t \in Request :
          Failed(t) /\ VersionDir(pkg[t]) = put.dir /\ pkg[t].digest = put.digest
  BY DEF MixInv, LateFailed
<1>5. /\ \A d \in Dir \ {put.dir} : archives'[d] = archives[d] /\ manifests'[d] = manifests[d]
      /\ archives'[put.dir] = IF "archive" \in put.objects THEN put.digest
                              ELSE archives[put.dir]
      /\ manifests'[put.dir] = IF "manifest" \in put.objects THEN put.digest
                               ELSE manifests[put.dir]
  BY <1>3, ApplyIn
<1>6. UploadsDoNotMix'
  <2> SUFFICES ASSUME NEW d \in Dir, manifests'[d] \notin {Nil, archives'[d]}
               PROVE  \E s \in Request :
                          /\ VersionDir(pkg'[s]) = d
                          /\ pkg'[s].digest \in {archives'[d], manifests'[d]}
                          /\ status'[s] = BadGateway \/ pc'[s] = "uploadManifest"
    BY DEF UploadsDoNotMix
  <2>1. CASE d = put.dir /\ (archives'[d] = put.digest \/ manifests'[d] = put.digest)
    BY <1>1, <1>4, <2>1 DEF Failed
  <2>2. CASE archives'[d] = archives[d] /\ manifests'[d] = manifests[d]
    BY <1>1, <1>3, <2>2 DEF MixInv, UploadsDoNotMix
  <2>3. QED
    BY <1>5, <2>1, <2>2
<1>7. LateFailed'
  BY <1>1, <1>3 DEF MixInv, LateFailed
<1>8. OwnArchive'
  <2> SUFFICES ASSUME NEW r \in Request, pc'[r] = "uploadManifest"
               PROVE  /\ mode' = "two-step"
                      /\ \/ archives'[VersionDir(pkg'[r])] = pkg'[r].digest
                         \/ \E s \in Request :
                                /\ Failed(s)' /\ VersionDir(pkg'[s]) = VersionDir(pkg'[r])
                                /\ pkg'[s].digest = archives'[VersionDir(pkg'[r])]
    BY DEF OwnArchive
  <2>1. VersionDir(pkg[r]) \in Dir /\ pc[r] = "uploadManifest"
    BY <1>3, PutTypes, SubmissionsAssumption DEF IInv, TypeOK
  <2>2. CASE VersionDir(pkg[r]) = put.dir /\ archives'[put.dir] = put.digest
    BY <1>1, <1>4, <2>1, <2>2 DEF MixInv, OwnArchive
  <2>3. CASE archives'[VersionDir(pkg[r])] = archives[VersionDir(pkg[r])]
    BY <1>1, <2>1, <2>3 DEF MixInv, OwnArchive
  <2>4. QED
    BY <1>5, <2>1, <2>2, <2>3
<1>9. QED
  BY <1>1, <1>6, <1>7, <1>8 DEF MixInv

\* Which steps are quiet: a PUT that is turned away leaves its request failed.
LEMMA UnmixedStep == IInv /\ MixInv /\ [Next]_vars => MixInv'
<1> SUFFICES ASSUME IInv, MixInv, [Next]_vars
             PROVE  MixInv'
  OBVIOUS
<1>1. pc \in [Request -> Step] /\ status \in [Request -> Status]
  BY DEF IInv, TypeOK
<1>2. ASSUME NEW r \in Request, Serve(r)
      PROVE  MixInv'
  <2>1. CASE PutAccepted(r)
    BY <2>1, UnmixedAccepted
  <2>2. CASE PutLost(r)
    BY <2>2, UnmixedLost
  <2>3. CASE ~PutAccepted(r) /\ ~PutLost(r)
    <3>1. UNCHANGED storageVars
      BY <1>2, <2>3
      DEF Serve, Receive, Refuse, CheckName, ReserveName, CheckVersion, ReserveVersion,
          PutRejected, PutConflict, Add, Respond, ReleaseVersion, ReleaseName
    <3>2. /\ \A s \in Request \ {r} : pc'[s] = pc[s]
          /\ pc'[r] # "uploadManifest"
      BY <1>1, <1>2, <2>3
      DEF Serve, Receive, Refuse, CheckName, ReserveName, CheckVersion, ReserveVersion,
          PutRejected, PutConflict, Add, Respond, ReleaseVersion, ReleaseName, Goto
    <3>3. pc[r] = "uploadManifest" => Failed(r)'
      <4>1. CASE PutRejected(r)
        BY <1>1, <4>1 DEF PutRejected, Answer, Failed
      <4>2. CASE PutConflict(r)
        BY <4>2 DEF PutConflict, MixInv, OwnArchive
      <4>3. QED
        BY <1>2, <2>3, <4>1, <4>2
        DEF Serve, Receive, Refuse, CheckName, ReserveName, CheckVersion, ReserveVersion,
            Add, Respond, ReleaseVersion, ReleaseName
    <3>4. QED
      BY <3>1, <3>2, <3>3, UnmixedQuiet
  <2>4. QED
    BY <2>1, <2>2, <2>3
<1>3. CASE StorageCatchesUp
  BY <1>3, UnmixedLate
<1>4. CASE UNCHANGED vars
  BY <1>4, UnmixedQuiet DEF vars, requestVars
<1>5. QED
  BY <1>2, <1>3, <1>4 DEF Next, AllServed

\* Successful uploads of one version never mix: a manifest that describes
\* another archive than the one beside it betrays an upload that failed, or one
\* still under way (publish.go:150-155, uploader.go:107-127).
THEOREM UploadsUnmixed == Spec => []UploadsDoNotMix
<1>1. Init => MixInv
  BY DEF Init, StorageInit, MixInv, UploadsDoNotMix, FailedAtEnd, Failed, LateFailed,
         OwnArchive, NoStatus, BadGateway
<1>2. MixInv => UploadsDoNotMix
  BY DEF MixInv
<1>3. QED
  BY <1>1, <1>2, UnmixedStep, InductiveInvariant, PTL DEF Spec

-----------------------------------------------------------------------------
(* Who holds a name.                                                         *)

\* Until a shared reservation was released, every holder of a name is of the
\* UUID that has it reserved.
HoldersAgree ==
    \A r \in Request :
        HoldsName(r) => \/ reservedNames[NameKey(pkg[r])] = pkg[r].id
                       \/ SharedAndReleased(NameKey(pkg[r]))

\* What a request has released stays released.
LEMMA ReleasedStays ==
    ASSUME IInv, [Next]_vars, NEW key, SharedAndReleased(key)
    PROVE  SharedAndReleased(key)'
<1>1. PICK t \in Request, u \in Request :
          /\ t # u /\ pkg[t].id = pkg[u].id
          /\ NameKey(pkg[t]) = key /\ NameKey(pkg[u]) = key
          /\ pc[t] = "done" /\ status[t] # BadRequest
  BY DEF SharedAndReleased
<1>2. /\ pc \in [Request -> Step] /\ status \in [Request -> Status]
  BY DEF IInv, TypeOK
<1>3. pkg' = pkg
  BY DEF Next, Serve, AllServed, vars, requestVars, StorageCatchesUp, Receive, Refuse,
         CheckName, ReserveName, CheckVersion, ReserveVersion, PutAccepted, PutRejected,
         PutConflict, PutLost, Add, Respond, ReleaseVersion, ReleaseName, Goto
<1>4. CASE UNCHANGED <<pc, status>>
  BY <1>1, <1>3, <1>4 DEF SharedAndReleased
<1>5. ASSUME NEW s \in Request, Serve(s)
      PROVE  pc'[t] = pc[t] /\ status'[t] = status[t]
  <2>1. s # t
    BY <1>1, <1>5
    DEF Serve, Receive, Refuse, CheckName, ReserveName, CheckVersion, ReserveVersion,
        PutAccepted, PutRejected, PutConflict, PutLost, Uploading, Add, Respond,
        ReleaseVersion, ReleaseName
  <2>2. QED
    BY <1>2, <1>5, <2>1
    DEF Serve, Receive, Refuse, CheckName, ReserveName, CheckVersion, ReserveVersion,
        PutAccepted, PutRejected, PutConflict, PutLost, Add, Respond, ReleaseVersion,
        ReleaseName, Goto, Answer
<1>6. pc'[t] = pc[t] /\ status'[t] = status[t]
  BY <1>4, <1>5 DEF Next, AllServed, StorageCatchesUp, vars, requestVars
<1>7. QED
  BY <1>1, <1>3, <1>6 DEF SharedAndReleased

\* A step that leaves the names alone and makes nobody a holder.
LEMMA HoldersQuiet ==
    ASSUME IInv, HoldersAgree, [Next]_vars, UNCHANGED <<reservedNames, pkg>>,
           \A s \in Request : HoldsName(s)' => HoldsName(s)
    PROVE  HoldersAgree'
BY ReleasedStays DEF HoldersAgree

LEMMA HoldersReserve ==
    ASSUME IInv, HoldersAgree, [Next]_vars, NEW r \in Request, ReserveName(r)
    PROVE  HoldersAgree'
<1> DEFINE key == NameKey(pkg[r])
<1>1. /\ pkg[r] \in Manifest /\ key \in NameKeys /\ pkg[r].id # Nil
      /\ pkg' = pkg /\ pc \in [Request -> Step]
      /\ reservedNames \in [NameKeys -> Uuid \cup {Nil}]
  BY SubmissionsAssumption, PutTypes, NilAssumption DEF IInv, TypeOK, ReserveName, Goto
<1>2. \A s \in Request \ {r} : HoldsName(s)' => HoldsName(s)
  BY <1>1 DEF ReserveName, Goto, HoldsName, HoldsVersion
<1> HIDE DEF key
<1>3. CASE reservedNames[key] = Nil
  <2>1. reservedNames' = [reservedNames EXCEPT ![key] = pkg[r].id]
    BY <1>1, <1>3 DEF ReserveName, key
  <2>2. reservedNames'[key] = pkg[r].id
    BY <1>1, <2>1
  <2>3. ASSUME NEW s \in Request \ {r}, HoldsName(s), NameKey(pkg[s]) = key
        PROVE  SharedAndReleased(key)
    <3>1. pkg[s].id # Nil
      BY SubmissionsAssumption, PutTypes, NilAssumption DEF IInv, TypeOK
    <3>2. QED
      BY <1>3, <2>3, <3>1 DEF HoldersAgree
  <2>4. ASSUME NEW s \in Request, HoldsName(s)'
        PROVE  \/ reservedNames'[NameKey(pkg'[s])] = pkg'[s].id
               \/ SharedAndReleased(NameKey(pkg[s]))'
    <3>1. CASE s = r
      BY <1>1, <2>2, <3>1 DEF key
    <3>2. CASE s # r /\ NameKey(pkg[s]) = key
      BY <1>1, <1>2, <2>3, <2>4, <3>2, ReleasedStays
    <3>3. CASE s # r /\ NameKey(pkg[s]) # key
      <4>1. NameKey(pkg[s]) \in NameKeys
        BY SubmissionsAssumption, PutTypes DEF IInv, TypeOK
      <4>2. QED
        BY <1>1, <1>2, <2>1, <2>4, <3>3, <4>1, ReleasedStays DEF HoldersAgree
    <3>4. QED
      BY <3>1, <3>2, <3>3
  <2>5. QED
    BY <2>4 DEF HoldersAgree
<1>4. CASE reservedNames[key] = pkg[r].id
  <2>1. UNCHANGED reservedNames
    BY <1>1, <1>4 DEF ReserveName, key
  <2>2. QED
    BY <1>1, <1>2, <1>4, <2>1, ReleasedStays DEF HoldersAgree, key
<1>5. CASE reservedNames[key] \notin {Nil, pkg[r].id}
  <2>1. UNCHANGED reservedNames /\ pc'[r] = "done"
    BY <1>1, <1>5 DEF ReserveName, Goto, key
  <2>2. ~HoldsName(r)'
    BY <2>1 DEF HoldsName, HoldsVersion
  <2>3. QED
    BY <1>1, <1>2, <2>1, <2>2, HoldersQuiet
<1>6. QED
  BY <1>3, <1>4, <1>5

\* A request that held the name alone among its UUID leaves no holder behind.
LEMMA HoldersRelease ==
    ASSUME IInv, HoldersAgree, [Next]_vars, NEW r \in Request, ReleaseName(r),
           status[r] # BadRequest
    PROVE  HoldersAgree'
<1> DEFINE key == NameKey(pkg[r])
<1>1. /\ pkg' = pkg /\ pc \in [Request -> Step] /\ key \in NameKeys
      /\ reservedNames \in [NameKeys -> Uuid \cup {Nil}]
      /\ reservedNames' = [reservedNames EXCEPT ![key] = Nil]
      /\ pc[r] = "releaseName" /\ pc' = [pc EXCEPT ![r] = "done"] /\ status' = status
  BY SubmissionsAssumption, PutTypes DEF IInv, TypeOK, ReleaseName, Goto
<1>2. /\ HoldsName(r) /\ pc'[r] = "done" /\ ~HoldsName(r)'
      /\ \A s \in Request \ {r} : HoldsName(s)' => HoldsName(s)
  BY <1>1 DEF HoldsName, HoldsVersion
<1> HIDE DEF key
<1>3. ASSUME NEW s \in Request, HoldsName(s)'
      PROVE  \/ reservedNames'[NameKey(pkg'[s])] = pkg'[s].id
             \/ SharedAndReleased(NameKey(pkg[s]))'
  <2>1. s # r /\ HoldsName(s)
    BY <1>2, <1>3
  <2>2. CASE NameKey(pkg[s]) # key
    <3>1. NameKey(pkg[s]) \in NameKeys
      BY SubmissionsAssumption, PutTypes DEF IInv, TypeOK
    <3>2. QED
      BY <1>1, <2>1, <2>2, <3>1, ReleasedStays DEF HoldersAgree
  <2>3. CASE SharedAndReleased(NameKey(pkg[s]))
    BY <1>1, <2>3, ReleasedStays
  <2>4. CASE NameKey(pkg[s]) = key /\ ~SharedAndReleased(key)
    <3>1. pkg[s].id = pkg[r].id
      BY <1>2, <2>1, <2>4 DEF HoldersAgree, key
    <3>2. /\ r # s /\ pkg'[r].id = pkg'[s].id
          /\ NameKey(pkg'[r]) = NameKey(pkg[s]) /\ NameKey(pkg'[s]) = NameKey(pkg[s])
          /\ pc'[r] = "done" /\ status'[r] # BadRequest
      BY <1>1, <1>2, <2>1, <2>4, <3>1 DEF key
    <3>3. SharedAndReleased(NameKey(pkg[s]))'
      BY <1>1, <3>2 DEF SharedAndReleased
    <3>4. QED
      BY <3>3
  <2>5. QED
    BY <2>2, <2>3, <2>4
<1>4. QED
  BY <1>3 DEF HoldersAgree

\* A request that was refused at the door is over.
RefusedIsDone == \A r \in Request : status[r] = BadRequest => pc[r] = "done"

LEMMA HoldersStep == IInv /\ HoldersAgree /\ RefusedIsDone /\ [Next]_vars
                         => HoldersAgree' /\ RefusedIsDone'
<1> SUFFICES ASSUME IInv, HoldersAgree, RefusedIsDone, [Next]_vars
             PROVE  HoldersAgree' /\ RefusedIsDone'
  OBVIOUS
<1>1. /\ pc \in [Request -> Step] /\ status \in [Request -> Status]
      /\ BadRequest # CreatedStatus /\ Conflict # BadRequest /\ BadGateway # BadRequest
  BY DEF IInv, TypeOK, BadRequest, Conflict, BadGateway, CreatedStatus
<1>2. pkg' = pkg
  BY DEF Next, Serve, AllServed, vars, requestVars, StorageCatchesUp, Receive, Refuse,
         CheckName, ReserveName, CheckVersion, ReserveVersion, PutAccepted, PutRejected,
         PutConflict, PutLost, Add, Respond, ReleaseVersion, ReleaseName, Goto
<1>3. ASSUME NEW r \in Request, Serve(r)
      PROVE  HoldersAgree' /\ RefusedIsDone'
  <2>1. CASE ReserveName(r)
    <3>1. RefusedIsDone'
      BY <1>1, <2>1 DEF ReserveName, Goto, Answer, RefusedIsDone
    <3>2. QED
      BY <2>1, <3>1, HoldersReserve
  <2>2. CASE ReleaseName(r)
    <3>1. status[r] # BadRequest /\ RefusedIsDone'
      BY <1>1, <2>2 DEF ReleaseName, Goto, RefusedIsDone
    <3>2. QED
      BY <2>2, <3>1, HoldersRelease
  <2>3. CASE Receive(r) \/ Refuse(r) \/ CheckName(r)
    <3>1. UNCHANGED reservedNames /\ \A s \in Request : HoldsName(s)' => HoldsName(s)
      BY <1>1, <2>3
      DEF Receive, Refuse, CheckName, Reservations, Goto, HoldsName, HoldsVersion
    <3>2. RefusedIsDone'
      BY <1>1, <2>3 DEF Receive, Refuse, CheckName, Goto, Answer, RefusedIsDone
    <3>3. QED
      BY <1>2, <3>1, <3>2, HoldersQuiet
  <2>4. CASE \/ CheckVersion(r) \/ ReserveVersion(r)
             \/ PutAccepted(r) \/ PutRejected(r) \/ PutConflict(r) \/ PutLost(r)
             \/ Add(r) \/ Respond(r) \/ ReleaseVersion(r)
    <3>1. HoldsName(r)
      BY <2>4
      DEF CheckVersion, ReserveVersion, PutAccepted, PutRejected, PutConflict, PutLost,
          Uploading, Add, Respond, ReleaseVersion, HoldsName, HoldsVersion
    <3>2. /\ UNCHANGED reservedNames
          /\ \A s \in Request \ {r} : pc'[s] = pc[s]
      BY <1>1, <2>4
      DEF CheckVersion, ReserveVersion, PutAccepted, PutRejected, PutConflict, PutLost,
          Add, Respond, ReleaseVersion, Reservations, Goto
    <3>3. \A s \in Request : HoldsName(s)' => HoldsName(s)
      BY <3>1, <3>2 DEF HoldsName, HoldsVersion
    <3>4. RefusedIsDone'
      <4>1. status'[r] # BadRequest /\ \A s \in Request \ {r} : status'[s] = status[s]
        BY <1>1, <2>4, <3>1
        DEF CheckVersion, ReserveVersion, PutAccepted, PutRejected, PutConflict, PutLost,
            Add, Respond, ReleaseVersion, Answer, RefusedIsDone, HoldsName, HoldsVersion
      <4>2. QED
        BY <3>2, <4>1 DEF RefusedIsDone
    <3>5. QED
      BY <1>2, <3>2, <3>3, <3>4, HoldersQuiet
  <2>5. QED
    BY <1>3, <2>1, <2>2, <2>3, <2>4 DEF Serve
<1>4. CASE UNCHANGED <<pc, status, reservedNames>>
  <2>1. \A s \in Request : HoldsName(s)' => HoldsName(s)
    BY <1>4 DEF HoldsName, HoldsVersion
  <2>2. QED
    BY <1>2, <1>4, <2>1, HoldersQuiet DEF RefusedIsDone
<1>5. QED
  BY <1>3, <1>4
  DEF Next, AllServed, StorageCatchesUp, vars, requestVars, Reservations

\* The name reservation keeps two UUIDs apart, for any number of requests, until
\* a reservation that requests of one UUID shared is deleted by the first of
\* them to end (publish.go:44-55).
THEOREM NamesHeldByOneUuid == Spec => []NameHeldByOneUuid
<1>1. Init => HoldersAgree /\ RefusedIsDone
  BY DEF Init, HoldersAgree, HoldsName, HoldsVersion, RefusedIsDone, NoStatus, BadRequest
<1>2. HoldersAgree => NameHeldByOneUuid
  BY DEF HoldersAgree, NameHeldByOneUuid
<1>3. QED
  BY <1>1, <1>2, HoldersStep, InductiveInvariant, PTL DEF Spec

-----------------------------------------------------------------------------
(* The index counts the successful publishes.                                *)

Counted(r) == status[r] = CreatedStatus \/ pc[r] = "respond"
CountedRequests == {r \in Request : Counted(r)}

\* Finiteness needs no assumption: one entry is added at a time.
CountInv == /\ IsFiniteSet(CountedRequests)
            /\ Len(entries) = Cardinality(CountedRequests)

\* Only Add counts a request, and no step stops counting one.
LEMMA CountedStep ==
    ASSUME IInv, [Next]_vars
    PROVE  \/ UNCHANGED <<entries, CountedRequests>>
           \/ \E r \in Request : /\ entries' = Append(entries, pkg[r])
                                 /\ r \notin CountedRequests
                                 /\ CountedRequests' = CountedRequests \cup {r}
<1>1. /\ pc \in [Request -> Step] /\ status \in [Request -> Status]
      /\ BadRequest # CreatedStatus /\ Conflict # CreatedStatus
      /\ BadGateway # CreatedStatus
  BY DEF IInv, TypeOK, BadRequest, Conflict, BadGateway, CreatedStatus
<1>2. CASE UNCHANGED <<entries, pc, status>>
  BY <1>2 DEF CountedRequests, Counted
<1>3. ASSUME NEW r \in Request, Serve(r), ~Add(r)
      PROVE  UNCHANGED <<entries, CountedRequests>>
  <2>1. UNCHANGED entries
    BY <1>3
    DEF Serve, Receive, Refuse, CheckName, ReserveName, CheckVersion, ReserveVersion,
        PutAccepted, PutRejected, PutConflict, PutLost, Respond, ReleaseVersion,
        ReleaseName
  <2>2. \A s \in Request \ {r} : Counted(s)' <=> Counted(s)
    BY <1>1, <1>3
    DEF Serve, Receive, Refuse, CheckName, ReserveName, CheckVersion, ReserveVersion,
        PutAccepted, PutRejected, PutConflict, PutLost, Respond, ReleaseVersion,
        ReleaseName, Goto, Answer, Counted
  <2>3. Counted(r)' <=> Counted(r)
    <3>1. CASE Receive(r) \/ Refuse(r) \/ CheckName(r)
      BY <1>1, <3>1
      DEF Receive, Refuse, CheckName, Goto, Answer, Counted, IInv, CreatedAtEnd
    <3>2. CASE ReserveName(r)
      BY <1>1, <3>2 DEF ReserveName, Goto, Answer, Counted, IInv, CreatedAtEnd
    <3>3. CASE CheckVersion(r) \/ ReserveVersion(r)
      BY <1>1, <3>3
      DEF CheckVersion, ReserveVersion, Goto, Answer, Counted, IInv, CreatedAtEnd
    <3>4. CASE PutAccepted(r)
      BY <1>1, <3>4
      DEF PutAccepted, AfterPut, Uploading, Goto, Counted, IInv, CreatedAtEnd
    <3>5. CASE PutRejected(r) \/ PutConflict(r) \/ PutLost(r)
      BY <1>1, <3>5
      DEF PutRejected, PutConflict, PutLost, Uploading, Goto, Answer, Counted, IInv,
          CreatedAtEnd
    <3>6. CASE Respond(r)
      BY <1>1, <3>6 DEF Respond, Goto, Answer, Counted
    <3>7. CASE ReleaseVersion(r) \/ ReleaseName(r)
      BY <1>1, <3>7 DEF ReleaseVersion, ReleaseName, Goto, Counted
    <3>8. QED
      BY <1>3, <3>1, <3>2, <3>3, <3>4, <3>5, <3>6, <3>7 DEF Serve
  <2>4. QED
    BY <2>1, <2>2, <2>3 DEF CountedRequests
<1>4. ASSUME NEW r \in Request, Add(r)
      PROVE  /\ entries' = Append(entries, pkg[r])
             /\ r \notin CountedRequests
             /\ CountedRequests' = CountedRequests \cup {r}
  BY <1>1, <1>4 DEF Add, Goto, CountedRequests, Counted, IInv, CreatedAtEnd
<1>5. QED
  BY <1>2, <1>3, <1>4 DEF Next, AllServed, StorageCatchesUp, vars, requestVars, Reservations

\* The index holds one entry per publish that succeeded, however often a version
\* is published, and none for one that did not (publish.go:157-168).
THEOREM EntriesCounted == Spec => []OneEntryPerPublish
<1>1. Init => CountInv
  <2>1. ASSUME Init PROVE CountedRequests = {} /\ Len(entries) = 0
    BY <2>1, EmptySeq DEF Init, CountedRequests, Counted, NoStatus, CreatedStatus
  <2>2. QED
    BY <2>1, FS_EmptySet DEF CountInv
<1>2. IInv /\ [Next]_vars /\ CountInv => CountInv'
  <2> SUFFICES ASSUME IInv, [Next]_vars, CountInv PROVE CountInv'
    OBVIOUS
  <2>1. CASE UNCHANGED <<entries, CountedRequests>>
    BY <2>1 DEF CountInv
  <2>2. ASSUME NEW r \in Request, entries' = Append(entries, pkg[r]),
               r \notin CountedRequests, CountedRequests' = CountedRequests \cup {r}
        PROVE  CountInv'
    <3>1. Len(entries') = Len(entries) + 1
      BY <2>2, AppendProperties DEF IInv, TypeOK
    <3>2. /\ IsFiniteSet(CountedRequests')
          /\ Cardinality(CountedRequests') = Cardinality(CountedRequests) + 1
      BY <2>2, FS_AddElement DEF CountInv
    <3>3. QED
      BY <3>1, <3>2 DEF CountInv
  <2>3. QED
    BY <2>1, <2>2, CountedStep
<1>3. CountInv => OneEntryPerPublish
  BY DEF CountInv, OneEntryPerPublish, CountedRequests, Counted
<1>4. QED
  BY <1>1, <1>2, <1>3, InductiveInvariant, PTL DEF Spec

=============================================================================
