------------------------- MODULE RepoServiceProofs -------------------------
(***************************************************************************)
(* Proofs about RepoService, for any set of publishes and loads and any    *)
(* number of kills and lost PUTs.  The index is replaced here, so the      *)
(* invariant of PublishProofs does not carry over: what remains true rests *)
(* on storage, which only grows.                                           *)
(***************************************************************************)
EXTENDS RepoService, PublishProofs

(* The inductive invariant.                                                  *)

\* What the clients have submitted; no step changes it.
Sent == {pkg[r] : r \in Request}

Loading == [step : {"idle", "list", "fetch", "done", "failed"},
            urls : SUBSET Dir,
            found : Seq(Sent),
            acknowledged : SUBSET (Uuid \X Version)]

\* The types, with every manifest in memory one that a client submitted.
Typed ==
    /\ StorageTypeOK
    /\ mode \in Modes
    /\ reservedVersions \subseteq Uuid \X Version
    /\ reservedNames \in [NameKeys -> Uuid \cup {Nil}]
    /\ pkg \in [Request -> Submissions]
    /\ pc \in [Request -> Step]
    /\ status \in [Request -> Status]
    /\ server \in {"down", "booting", "serving"}
    /\ crashes \in 0 .. MaxCrashes
    /\ entries \in Seq(Sent)
    /\ load \in [Load -> Loading]

\* A PUT that carries a manifest describes a submission, and its archive is
\* stored or comes with it.
Sound(put) ==
    "manifest" \in put.objects =>
        /\ "archive" \in put.objects \/ archives[put.dir] # Nil
        /\ \E m \in Sent : VersionDir(m) = put.dir /\ m.digest = put.digest

StorageSound ==
    /\ \A put \in late : Sound(put)
    /\ \A r \in Request :
           pc[r] = "uploadManifest" => archives[VersionDir(pkg[r])] # Nil
    /\ \A d \in Stored : archives[d] # Nil /\ Fetched(d) \in Sent

\* The index, and every load under way, only know stored packages.
ListsStored ==
    /\ \A m \in Range(entries) : VersionDir(m) \in Stored
    /\ \A l \in Load : Pictured(l) \subseteq Stored

\* What was acknowledged when a load took its listing is in its picture.
AcknowledgedPictured ==
    \A l \in Load : load[l].step = "fetch" =>
        \A key \in load[l].acknowledged :
            \E d \in Pictured(l) : d[2] = key[1] /\ d[3] = key[2]

SuccessStored ==
    \A r \in Request :
        pc[r] \in {"add", "respond"} \/ status[r] = CreatedStatus =>
            VersionDir(pkg[r]) \in Stored

SInv ==
    /\ Typed
    /\ StorageSound
    /\ ListsStored
    /\ AcknowledgedPictured
    /\ SuccessStored
    /\ CreatedAtEnd

-----------------------------------------------------------------------------
(* Lemmas.                                                                   *)

LEMMA SentTypes ==
    ASSUME Typed
    PROVE  /\ Sent \subseteq Submissions
           /\ Sent \subseteq Manifest
           /\ \A r \in Request : pkg[r] \in Sent
BY SubmissionsAssumption DEF Typed, Sent

\* The directory of what is read at a URL is that URL.
LEMMA FetchedDir ==
    ASSUME NEW d \in Dir
    PROVE  VersionDir(Fetched(d)) = d
BY DEF VersionDir, Fetched, Dir

\* A sound PUT keeps what storage promises, and storage only grows.
LEMMA StorageGrows ==
    ASSUME SInv, NEW put \in Put, Sound(put), Apply(put), pkg' = pkg
    PROVE  /\ archives' \in [Dir -> Digest \cup {Nil}]
           /\ manifests' \in [Dir -> Digest \cup {Nil}]
           /\ \A d \in Dir : archives[d] # Nil => archives'[d] # Nil
           /\ Stored' = IF "manifest" \in put.objects THEN Stored \cup {put.dir}
                        ELSE Stored
           /\ \A d \in Stored' : archives'[d] # Nil /\ Fetched(d)' \in Sent'
<1> USE DEF SInv
<1>1. StorageTypeOK /\ put.dir \in Dir /\ put.digest \in Digest /\ put.digest # Nil
  BY NilAssumption DEF Typed, Put
<1>2. /\ archives' \in [Dir -> Digest \cup {Nil}]
      /\ manifests' \in [Dir -> Digest \cup {Nil}]
      /\ \A d \in Dir : archives[d] # Nil => archives'[d] # Nil
      /\ "archive" \in put.objects => archives'[put.dir] # Nil
  BY <1>1, ApplyStores
<1>3. Stored' = IF "manifest" \in put.objects THEN Stored \cup {put.dir} ELSE Stored
  BY <1>1 DEF Stored, Apply, StorageTypeOK
<1>4. Sent' = Sent
  BY DEF Sent
<1>5. ASSUME NEW d \in Stored'
      PROVE  archives'[d] # Nil /\ Fetched(d)' \in Sent'
  <2>1. d \in Dir
    BY <1>5 DEF Stored
  <2>2. CASE "manifest" \in put.objects /\ d = put.dir
    <3>1. PICK m \in Sent : VersionDir(m) = put.dir /\ m.digest = put.digest
      BY <2>2 DEF Sound
    <3>2. archives'[d] # Nil
      BY <1>1, <1>2, <2>2 DEF Sound
    <3>3. manifests'[VersionDir(m)] = m.digest
      BY <1>1, <2>2, <3>1 DEF Apply, StorageTypeOK
    <3>4. Fetched(d)' = m
      BY <2>2, <3>1, <3>3, SentTypes DEF Manifest, VersionDir, Fetched
    <3>5. QED
      BY <1>4, <3>1, <3>2, <3>4
  <2>3. CASE ~("manifest" \in put.objects /\ d = put.dir)
    <3>1. d \in Stored /\ manifests'[d] = manifests[d]
      BY <1>1, <1>3, <1>5, <2>1, <2>3 DEF Apply, StorageTypeOK
    <3>2. Fetched(d)' = Fetched(d)
      BY <3>1 DEF Fetched
    <3>3. QED
      BY <1>2, <1>4, <2>1, <3>1, <3>2 DEF StorageSound
  <2>4. QED
    BY <2>2, <2>3
<1>6. QED
  BY <1>2, <1>3, <1>5

\* What is sent is sound, and stays so while storage grows.
LEMMA NextPutSound ==
    ASSUME SInv, NEW r \in Request, Uploading(r)
    PROVE  /\ NextPut(r) \in Put
           /\ Sound(NextPut(r))
           /\ NextPut(r).dir = VersionDir(pkg[r])
           /\ AfterPut(r) \in {"uploadManifest", "add"}
           /\ AfterPut(r) = "uploadManifest" => "archive" \in NextPut(r).objects
           /\ AfterPut(r) = "add" => "manifest" \in NextPut(r).objects
<1>1. /\ pc[r] \in {"upload", "uploadManifest"} /\ pkg[r] \in Manifest
      /\ mode \in {"atomic", "two-step"} /\ pkg[r] \in Sent
  BY SentTypes, ModesAssumption DEF Uploading, SInv, Typed
<1>2. CASE pc[r] = "uploadManifest"
  <2>1. NextPut(r) = ManifestPut(pkg[r]) /\ AfterPut(r) = "add"
    BY <1>2 DEF NextPut, AfterPut
  <2>2. archives[VersionDir(pkg[r])] # Nil
    BY <1>2 DEF SInv, StorageSound
  <2>3. QED
    BY <1>1, <2>1, <2>2, PutTypes DEF ManifestPut, Sound
<1>3. CASE pc[r] = "upload" /\ mode = "atomic"
  <2>1. NextPut(r) = Bundle(pkg[r]) /\ AfterPut(r) = "add"
    BY <1>3 DEF NextPut, AfterPut
  <2>2. QED
    BY <1>1, <2>1, PutTypes DEF Bundle, Object, Sound
<1>4. CASE pc[r] = "upload" /\ mode = "two-step"
  <2>1. NextPut(r) = ArchivePut(pkg[r]) /\ AfterPut(r) = "uploadManifest"
    BY <1>4 DEF NextPut, AfterPut
  <2>2. QED
    BY <1>1, <2>1, PutTypes DEF ArchivePut, Sound
<1>5. QED
  BY <1>1, <1>2, <1>3, <1>4

\* While storage grows or stays, the lists a step leaves alone stay within it.
LEMMA ListsKept ==
    ASSUME SInv, Stored \subseteq Stored', UNCHANGED <<entries, load>>
    PROVE  ListsStored' /\ AcknowledgedPictured'
<1>1. \A l \in Load : Pictured(l)' = Pictured(l)
  BY DEF Pictured
<1>2. QED
  BY <1>1 DEF SInv, ListsStored, AcknowledgedPictured

\* Nor does it matter to them what a request or the process does.
LEMMA StorageKept ==
    ASSUME SInv, UNCHANGED <<archives, manifests, pkg>>,
           \A put \in late' : put \in late \/ Sound(put),
           \A r \in Request : pc'[r] = "uploadManifest" => pc[r] = "uploadManifest"
    PROVE  StorageSound' /\ Stored' = Stored /\ Sent' = Sent
<1>1. Stored' = Stored /\ Sent' = Sent /\ \A d \in Dir : Fetched(d)' = Fetched(d)
  BY DEF Stored, Sent, Fetched
<1>2. \A put \in late' : Sound(put)'
  BY <1>1 DEF SInv, StorageSound, Sound
<1>3. \A d \in Stored' : archives'[d] # Nil /\ Fetched(d)' \in Sent'
  BY <1>1 DEF SInv, StorageSound, Stored
<1>4. QED
  BY <1>1, <1>2, <1>3 DEF SInv, StorageSound

-----------------------------------------------------------------------------
(* The invariant holds initially.                                            *)

LEMMA InitSInv == ServiceInit => SInv
<1> SUFFICES ASSUME ServiceInit PROVE SInv
  OBVIOUS
<1> USE DEF ServiceInit, Init, StorageInit
<1>1. Typed
  <2>1. entries \in Seq(Sent) /\ <<>> \in Seq(Sent)
    BY EmptySeq
  <2>2. load \in [Load -> Loading]
    BY <2>1 DEF Fresh, Loading
  <2>3. CreatedStatus \in Status /\ NoStatus \in Status /\ "receive" \in Step
    BY DEF Status, Step
  <2>4. crashes \in 0 .. MaxCrashes
    BY MaxCrashesAssumption
  <2>5. QED
    BY <2>1, <2>2, <2>3, <2>4 DEF Typed, StorageTypeOK
<1>2. Stored = {}
  BY DEF Stored
<1>3. StorageSound
  BY <1>2 DEF StorageSound
<1>4. ListsStored /\ AcknowledgedPictured
  BY <1>2 DEF ListsStored, AcknowledgedPictured, Pictured, Fresh, Range
<1>5. SuccessStored /\ CreatedAtEnd
  BY DEF SuccessStored, CreatedAtEnd, NoStatus, CreatedStatus
<1>6. QED
  BY <1>1, <1>3, <1>4, <1>5 DEF SInv

-----------------------------------------------------------------------------
(* The steps of a publish.                                                   *)

\* Steps that send nothing and list nothing.
Quiet(r) ==
    \/ Receive(r) \/ Refuse(r) \/ CheckName(r) \/ ReserveName(r) \/ CheckVersion(r)
    \/ ReserveVersion(r) \/ PutRejected(r) \/ PutConflict(r) \/ ReleaseVersion(r)
    \/ ReleaseName(r)

\* What all of them have in common.
LEMMA QuietEffect ==
    ASSUME SInv, NEW r \in Request, Quiet(r)
    PROVE  /\ UNCHANGED <<mode, pkg, entries, archives, manifests, late>>
           /\ \E step \in Step \ {"uploadManifest", "add", "respond"} :
                  pc' = [pc EXCEPT ![r] = step]
           /\ \/ UNCHANGED status
              \/ \E code \in Status \ {CreatedStatus} :
                     status' = [status EXCEPT ![r] = code]
           /\ status[r] = CreatedStatus =>
                  UNCHANGED status /\ pc'[r] \in {"releaseName", "done"}
           /\ reservedVersions' \subseteq Uuid \X Version
           /\ reservedNames' \in [NameKeys -> Uuid \cup {Nil}]
<1>0. /\ {"receive", "checkName", "reserveName", "checkVersion", "reserveVersion",
          "upload", "releaseVersion", "releaseName", "done"}
             \subseteq Step \ {"uploadManifest", "add", "respond"}
      /\ {BadRequest, Conflict, BadGateway} \subseteq Status \ {CreatedStatus}
      /\ pkg[r] \in Manifest /\ pc \in [Request -> Step]
      /\ NameKey(pkg[r]) \in NameKeys /\ pkg[r].id \in Uuid
      /\ VersionKey(pkg[r]) \in Uuid \X Version
      /\ reservedVersions \subseteq Uuid \X Version
      /\ reservedNames \in [NameKeys -> Uuid \cup {Nil}]
      /\ status[r] = CreatedStatus => pc[r] \in {"releaseVersion", "releaseName", "done"}
  BY SubmissionsAssumption, PutTypes
  DEF Step, Status, BadRequest, Conflict, BadGateway, CreatedStatus, SInv, Typed,
      CreatedAtEnd
<1> USE DEF Goto, Answer, Reservations, storageVars
<1>1. CASE Receive(r)
  BY <1>0, <1>1 DEF Receive
<1>2. CASE Refuse(r)
  BY <1>0, <1>2 DEF Refuse
<1>3. CASE CheckName(r)
  BY <1>0, <1>3 DEF CheckName
<1>4. CASE ReserveName(r)
  BY <1>0, <1>4 DEF ReserveName
<1>5. CASE CheckVersion(r)
  BY <1>0, <1>5 DEF CheckVersion
<1>6. CASE ReserveVersion(r)
  BY <1>0, <1>6 DEF ReserveVersion
<1>7. CASE PutRejected(r)
  BY <1>0, <1>7 DEF PutRejected, Uploading
<1>8. CASE PutConflict(r)
  BY <1>0, <1>8 DEF PutConflict, Uploading
<1>9. CASE ReleaseVersion(r)
  BY <1>0, <1>9 DEF ReleaseVersion
<1>10. CASE ReleaseName(r)
  BY <1>0, <1>10 DEF ReleaseName
<1>11. QED
  BY <1>1, <1>2, <1>3, <1>4, <1>5, <1>6, <1>7, <1>8, <1>9, <1>10 DEF Quiet

LEMMA QuietKeeps ==
    ASSUME SInv, NEW r \in Request, Quiet(r), UNCHANGED serviceVars
    PROVE  SInv' /\ UNCHANGED <<Stored, Acknowledged, Listed, Pictures>>
<1> USE DEF SInv
<1>1. /\ UNCHANGED <<mode, pkg, entries, archives, manifests, late>>
      /\ \E step \in Step \ {"uploadManifest", "add", "respond"} :
             pc' = [pc EXCEPT ![r] = step]
      /\ \/ UNCHANGED status
         \/ \E code \in Status \ {CreatedStatus} :
                status' = [status EXCEPT ![r] = code]
      /\ status[r] = CreatedStatus =>
             UNCHANGED status /\ pc'[r] \in {"releaseName", "done"}
      /\ reservedVersions' \subseteq Uuid \X Version
      /\ reservedNames' \in [NameKeys -> Uuid \cup {Nil}]
      /\ UNCHANGED <<server, load, crashes>>
  BY QuietEffect DEF serviceVars
<1>2. \A s \in Request : /\ status'[s] = CreatedStatus <=> status[s] = CreatedStatus
                         /\ pc'[s] \in {"uploadManifest", "add", "respond"} =>
                                pc'[s] = pc[s]
  BY <1>1 DEF Typed
<1>3. StorageSound' /\ Stored' = Stored /\ Sent' = Sent
  BY <1>1, <1>2, StorageKept
<1>4. Typed'
  BY <1>1, <1>3 DEF Typed, StorageTypeOK, Loading
<1>5. ListsStored' /\ AcknowledgedPictured'
  BY <1>1, <1>3, ListsKept
<1>6. SuccessStored' /\ CreatedAtEnd'
  <2>1. SuccessStored'
    BY <1>1, <1>2, <1>3 DEF SuccessStored
  <2>2. CreatedAtEnd'
    BY <1>1, <1>2 DEF CreatedAtEnd, Typed
  <2>3. QED
    BY <2>1, <2>2
<1>7. Acknowledged' = Acknowledged
  BY <1>1, <1>2 DEF Acknowledged
<1>8. Listed' = Listed /\ Pictures' = Pictures
  BY <1>1 DEF Listed, Pictures, Pictured
<1>9. QED
  BY <1>3, <1>4, <1>5, <1>6, <1>7, <1>8

\* An accepted PUT stores a package when it carries the manifest.
LEMMA PutAcceptedKeeps ==
    ASSUME SInv, NEW r \in Request, PutAccepted(r), UNCHANGED serviceVars
    PROVE  SInv' /\ [Books!Next]_Books!books
<1> DEFINE put == NextPut(r)
<1> USE DEF SInv
<1>1. /\ Apply(put) /\ Uploading(r)
      /\ pc' = [pc EXCEPT ![r] = AfterPut(r)]
      /\ UNCHANGED <<mode, pkg, status, entries, reservedVersions, reservedNames, late>>
      /\ UNCHANGED <<server, load, crashes>>
  BY DEF PutAccepted, Goto, Reservations, serviceVars
<1>2. /\ put \in Put /\ Sound(put) /\ put.dir = VersionDir(pkg[r])
      /\ AfterPut(r) \in {"uploadManifest", "add"}
      /\ AfterPut(r) = "uploadManifest" => "archive" \in put.objects
      /\ AfterPut(r) = "add" => "manifest" \in put.objects
  BY <1>1, NextPutSound
<1>3. put.dir \in Dir /\ put.digest # Nil /\ Sent' = Sent
  BY <1>1, <1>2, NilAssumption DEF Put, Sent
<1> HIDE DEF put
<1>4. /\ archives' \in [Dir -> Digest \cup {Nil}]
      /\ manifests' \in [Dir -> Digest \cup {Nil}]
      /\ \A d \in Dir : archives[d] # Nil => archives'[d] # Nil
      /\ Stored' = IF "manifest" \in put.objects THEN Stored \cup {put.dir} ELSE Stored
      /\ \A d \in Stored' : archives'[d] # Nil /\ Fetched(d)' \in Sent'
  BY <1>1, <1>2, StorageGrows
<1>5. Typed'
  BY <1>1, <1>2, <1>3, <1>4 DEF Typed, StorageTypeOK, Loading, Step
<1>6. StorageSound'
  <2>1. \A p \in late' : p.dir \in Dir /\ Sound(p)
    BY <1>1 DEF StorageSound, Typed, StorageTypeOK, Put
  <2>2. \A p \in late' : Sound(p)'
    BY <1>3, <1>4, <2>1 DEF Sound
  <2>3. ASSUME NEW s \in Request, pc'[s] = "uploadManifest"
        PROVE  archives'[VersionDir(pkg'[s])] # Nil
    <3>1. VersionDir(pkg[s]) \in Dir
      BY SentTypes, PutTypes
    <3>2. CASE s = r
      <4>1. archives'[put.dir] # Nil
        BY <1>1, <1>2, <1>3, <2>3, <3>2 DEF Apply, Typed, StorageTypeOK
      <4>2. QED
        BY <1>1, <1>2, <3>2, <4>1
    <3>3. CASE s # r
      BY <1>1, <1>4, <2>3, <3>1, <3>3 DEF StorageSound, Typed
    <3>4. QED
      BY <3>2, <3>3
  <2>4. QED
    BY <1>4, <2>2, <2>3 DEF StorageSound
<1>7. ListsStored' /\ AcknowledgedPictured'
  BY <1>1, <1>4, ListsKept
<1>8. SuccessStored' /\ CreatedAtEnd'
  BY <1>1, <1>2, <1>4 DEF SuccessStored, CreatedAtEnd, Typed, Uploading
<1>9. UNCHANGED <<Acknowledged, Listed, Pictures>>
  BY <1>1 DEF Acknowledged, Listed, Pictures, Pictured
<1>10. [Books!Next]_Books!books
  BY <1>3, <1>4, <1>9 DEF Books!Next, Books!Store, Books!books
<1>11. QED
  BY <1>5, <1>6, <1>7, <1>8, <1>10

LEMMA PutLostKeeps ==
    ASSUME SInv, NEW r \in Request, PutLost(r), UNCHANGED serviceVars
    PROVE  SInv' /\ UNCHANGED <<Stored, Acknowledged, Listed, Pictures>>
<1> USE DEF SInv
<1>1. /\ Uploading(r)
      /\ late' = late \cup {NextPut(r)}
      /\ pc' = [pc EXCEPT ![r] = "releaseVersion"]
      /\ status' = [status EXCEPT ![r] = BadGateway]
      /\ UNCHANGED <<mode, pkg, entries, reservedVersions, reservedNames>>
      /\ UNCHANGED <<archives, manifests>>
      /\ UNCHANGED <<server, load, crashes>>
  BY DEF PutLost, Lose, Goto, Answer, Reservations, serviceVars
<1>2. NextPut(r) \in Put /\ Sound(NextPut(r))
  BY <1>1, NextPutSound
<1>3. \A s \in Request : /\ status'[s] = CreatedStatus <=> status[s] = CreatedStatus
                         /\ pc'[s] \in {"uploadManifest", "add", "respond"} =>
                                pc'[s] = pc[s]
  BY <1>1 DEF Typed, CreatedAtEnd, Uploading, BadGateway, CreatedStatus
<1>4. StorageSound' /\ Stored' = Stored /\ Sent' = Sent
  BY <1>1, <1>2, <1>3, StorageKept
<1>5. Typed'
  BY <1>1, <1>2, <1>4 DEF Typed, StorageTypeOK, Loading, Step, Status
<1>6. ListsStored' /\ AcknowledgedPictured'
  BY <1>1, <1>4, ListsKept
<1>7. SuccessStored' /\ CreatedAtEnd'
  BY <1>1, <1>3, <1>4 DEF SuccessStored, CreatedAtEnd, Typed
<1>8. UNCHANGED <<Acknowledged, Listed, Pictures>>
  BY <1>1, <1>3 DEF Acknowledged, Listed, Pictures, Pictured
<1>9. QED
  BY <1>4, <1>5, <1>6, <1>7, <1>8

\* A stored package is listed ...
LEMMA AddKeeps ==
    ASSUME SInv, NEW r \in Request, Add(r), UNCHANGED serviceVars
    PROVE  SInv' /\ [Books!Next]_Books!books
<1> USE DEF SInv
<1>1. /\ pc[r] = "add"
      /\ pc' = [pc EXCEPT ![r] = "respond"]
      /\ entries' = Append(entries, pkg[r])
      /\ UNCHANGED <<mode, pkg, status, reservedVersions, reservedNames>>
      /\ UNCHANGED <<archives, manifests, late>>
      /\ UNCHANGED <<server, load, crashes>>
  BY DEF Add, Goto, Reservations, storageVars, serviceVars
<1>2. pkg[r] \in Sent /\ entries \in Seq(Sent) /\ VersionDir(pkg[r]) \in Stored
  BY <1>1, SentTypes DEF Typed, SuccessStored
<1>3. entries' \in Seq(Sent) /\ Range(entries') = Range(entries) \cup {pkg[r]}
  BY <1>1, <1>2, RangeAppend, AppendProperties
<1>4. StorageSound' /\ Stored' = Stored /\ Sent' = Sent
  <2>1. \A s \in Request : pc'[s] = "uploadManifest" => pc[s] = "uploadManifest"
    BY <1>1 DEF Typed
  <2>2. QED
    BY <1>1, <2>1, StorageKept
<1>5. Typed'
  BY <1>1, <1>3, <1>4 DEF Typed, StorageTypeOK, Loading, Step
<1>6. Pictures' = Pictures /\ \A l \in Load : Pictured(l)' = Pictured(l)
  BY <1>1 DEF Pictures, Pictured
<1>7. ListsStored' /\ AcknowledgedPictured'
  BY <1>1, <1>2, <1>3, <1>4, <1>6 DEF ListsStored, AcknowledgedPictured
<1>8. SuccessStored' /\ CreatedAtEnd'
  BY <1>1, <1>2, <1>4 DEF SuccessStored, CreatedAtEnd, Typed
<1>9. /\ Listed' = Listed \cup {VersionDir(pkg[r])}
      /\ UNCHANGED <<Stored, Acknowledged, Pictures>>
  BY <1>1, <1>3, <1>4, <1>6 DEF Listed, Acknowledged
<1>10. [Books!Next]_Books!books
  BY <1>2, <1>9 DEF Books!Next, Books!List, Books!books
<1>11. QED
  BY <1>4, <1>5, <1>7, <1>8, <1>10

\* ... and then acknowledged.
LEMMA RespondKeeps ==
    ASSUME SInv, NEW r \in Request, Respond(r), UNCHANGED serviceVars
    PROVE  SInv' /\ [Books!Next]_Books!books
<1> USE DEF SInv
<1>1. /\ pc[r] = "respond"
      /\ pc' = [pc EXCEPT ![r] = "releaseVersion"]
      /\ status' = [status EXCEPT ![r] = CreatedStatus]
      /\ UNCHANGED <<mode, pkg, entries, reservedVersions, reservedNames>>
      /\ UNCHANGED <<archives, manifests, late>>
      /\ UNCHANGED <<server, load, crashes>>
  BY DEF Respond, Goto, Answer, Reservations, storageVars, serviceVars
<1>2. VersionDir(pkg[r]) \in Stored
  BY <1>1 DEF SuccessStored
<1>3. StorageSound' /\ Stored' = Stored /\ Sent' = Sent
  <2>1. \A s \in Request : pc'[s] = "uploadManifest" => pc[s] = "uploadManifest"
    BY <1>1 DEF Typed
  <2>2. QED
    BY <1>1, <2>1, StorageKept
<1>4. Typed'
  BY <1>1, <1>3 DEF Typed, StorageTypeOK, Loading, Step, Status
<1>5. ListsStored' /\ AcknowledgedPictured'
  BY <1>1, <1>3, ListsKept
<1>6. SuccessStored' /\ CreatedAtEnd'
  BY <1>1, <1>2, <1>3 DEF SuccessStored, CreatedAtEnd, Typed
<1>7. Acknowledged' = Acknowledged \cup {VersionDir(pkg[r])}
  BY <1>1 DEF Acknowledged, Typed
<1>8. UNCHANGED <<Stored, Listed, Pictures>>
  BY <1>1, <1>3 DEF Listed, Pictures, Pictured
<1>9. [Books!Next]_Books!books
  BY <1>2, <1>7, <1>8 DEF Books!Next, Books!Acknowledge, Books!books
<1>10. QED
  BY <1>3, <1>4, <1>5, <1>6, <1>9

\* A late PUT may still store its package.
LEMMA StorageStepKeeps ==
    ASSUME SInv, StorageStep
    PROVE  SInv' /\ [Books!Next]_Books!books
<1> USE DEF SInv
<1>1. PICK put \in late : ApplyLate(put)
  BY DEF StorageStep, StorageCatchesUp
<1>2. /\ put \in Put /\ Sound(put) /\ Apply(put) /\ late' = late \ {put}
      /\ UNCHANGED <<mode, pkg, pc, status, entries, reservedVersions, reservedNames>>
      /\ UNCHANGED <<server, load, crashes>>
  BY <1>1
  DEF StorageStep, StorageCatchesUp, ApplyLate, StorageSound, Typed, StorageTypeOK,
      requestVars, Reservations, serviceVars
<1>3. put.dir \in Dir /\ Sent' = Sent
  BY <1>2 DEF Put, Sent
<1>4. /\ archives' \in [Dir -> Digest \cup {Nil}]
      /\ manifests' \in [Dir -> Digest \cup {Nil}]
      /\ \A d \in Dir : archives[d] # Nil => archives'[d] # Nil
      /\ Stored' = IF "manifest" \in put.objects THEN Stored \cup {put.dir} ELSE Stored
      /\ \A d \in Stored' : archives'[d] # Nil /\ Fetched(d)' \in Sent'
  BY <1>2, StorageGrows
<1>5. Typed'
  BY <1>2, <1>3, <1>4 DEF Typed, StorageTypeOK, Loading
<1>6. StorageSound'
  <2>1. \A p \in late' : p.dir \in Dir /\ Sound(p)
    BY <1>2 DEF StorageSound, Typed, StorageTypeOK, Put
  <2>2. \A p \in late' : Sound(p)'
    BY <1>3, <1>4, <2>1 DEF Sound
  <2>3. \A s \in Request : VersionDir(pkg[s]) \in Dir
    BY SentTypes, PutTypes
  <2>4. QED
    BY <1>2, <1>4, <2>2, <2>3 DEF StorageSound
<1>7. ListsStored' /\ AcknowledgedPictured'
  BY <1>2, <1>4, ListsKept
<1>8. SuccessStored' /\ CreatedAtEnd'
  BY <1>2, <1>4 DEF SuccessStored, CreatedAtEnd
<1>9. UNCHANGED <<Acknowledged, Listed, Pictures>>
  BY <1>2 DEF Acknowledged, Listed, Pictures, Pictured
<1>10. [Books!Next]_Books!books
  BY <1>3, <1>4, <1>9 DEF Books!Next, Books!Store, Books!books
<1>11. QED
  BY <1>5, <1>6, <1>7, <1>8, <1>10

-----------------------------------------------------------------------------
(* The steps of a load.                                                      *)

\* What is left to show of a step that publishes nothing.
LEMMA LoadKeeps ==
    ASSUME SInv, PublishersWait, UNCHANGED crashes,
           server' \in {"down", "booting", "serving"},
           entries' \in Seq(Sent), \A m \in Range(entries') : VersionDir(m) \in Stored,
           NEW l \in Load, NEW new \in Loading, load' = [load EXCEPT ![l] = new],
           new.urls \subseteq Stored,
           \A m \in Range(new.found) : VersionDir(m) \in Stored,
           new.step = "fetch" => \A key \in new.acknowledged :
               \E d \in new.urls \cup {VersionDir(m) : m \in Range(new.found)} :
                   d[2] = key[1] /\ d[3] = key[2]
    PROVE  SInv' /\ UNCHANGED <<Stored, Acknowledged>>
<1> USE DEF SInv
<1>1. /\ UNCHANGED <<mode, reservedVersions, reservedNames, pkg, pc, status>>
      /\ UNCHANGED <<archives, manifests, late>>
  BY DEF PublishersWait, requestVars, storageVars
<1>2. StorageSound' /\ Stored' = Stored /\ Sent' = Sent
  BY <1>1, StorageKept
<1>3. /\ load'[l] = new
      /\ \A k \in Load \ {l} : load'[k] = load[k]
  BY DEF Typed
<1>4. Typed'
  BY <1>1, <1>2 DEF Typed, StorageTypeOK, Loading
<1>5. /\ Pictured(l)' = new.urls \cup {VersionDir(m) : m \in Range(new.found)}
      /\ \A k \in Load \ {l} : Pictured(k)' = Pictured(k)
  BY <1>3 DEF Pictured
<1>6. ListsStored'
  BY <1>2, <1>5 DEF ListsStored
<1>7. AcknowledgedPictured'
  <2>1. ASSUME NEW k \in Load, load'[k].step = "fetch", NEW key \in load'[k].acknowledged
        PROVE  \E d \in Pictured(k)' : d[2] = key[1] /\ d[3] = key[2]
    <3>1. CASE k = l
      BY <1>3, <1>5, <2>1, <3>1
    <3>2. CASE k # l
      BY <1>3, <1>5, <2>1, <3>2 DEF AcknowledgedPictured
    <3>3. QED
      BY <3>1, <3>2
  <2>2. QED
    BY <2>1 DEF AcknowledgedPictured
<1>8. SuccessStored' /\ CreatedAtEnd'
  BY <1>1, <1>2 DEF SuccessStored, CreatedAtEnd
<1>9. Acknowledged' = Acknowledged
  BY <1>1 DEF Acknowledged
<1>10. QED
  BY <1>2, <1>4, <1>6, <1>7, <1>8, <1>9

\* A load that has not listed yet, or is over.
LEMMA FreshIsEmpty ==
    ASSUME NEW step \in {"idle", "list", "failed", "done"}
    PROVE  /\ Fresh(step) \in Loading
           /\ Fresh(step).step = step
           /\ Fresh(step).urls = {}
           /\ Range(Fresh(step).found) = {}
<1>1. <<>> \in Seq(Sent)
  BY EmptySeq
<1>2. QED
  BY <1>1 DEF Fresh, Loading, Range

\* How the pictures change when one load does.
LEMMA PicturesOf ==
    ASSUME Typed, NEW l \in Load, NEW new, load' = [load EXCEPT ![l] = new]
    PROVE  Pictures' = [Pictures EXCEPT ![l] =
               IF new.step = "fetch"
               THEN {new.urls \cup {VersionDir(m) : m \in Range(new.found)}} ELSE {}]
<1>1. /\ load'[l] = new
      /\ \A k \in Load \ {l} : load'[k] = load[k]
  BY DEF Typed
<1>2. QED
  BY <1>1 DEF Pictures, Pictured

\* A load that begins: nothing is pictured yet.
LEMMA StartKeeps ==
    ASSUME SInv, NEW l \in Load, StartRefresh(l) \/ (l = Boot /\ StartServer)
    PROVE  SInv' /\ [Books!Next]_Books!books
<1> USE DEF SInv
<1>1. PICK step \in {"list", "failed"} : load' = [load EXCEPT ![l] = Fresh(step)]
  BY DEF StartRefresh, StartServer
<1>2. /\ PublishersWait /\ UNCHANGED <<entries, crashes>>
      /\ server' \in {"down", "booting", "serving"}
  BY DEF StartRefresh, StartServer, Typed
<1>3. /\ Fresh(step) \in Loading /\ Fresh(step).step # "fetch"
      /\ Fresh(step).urls = {} /\ Range(Fresh(step).found) = {}
  BY FreshIsEmpty
<1>4. SInv' /\ UNCHANGED <<Stored, Acknowledged>>
  BY <1>1, <1>2, <1>3, LoadKeeps DEF Typed, ListsStored
<1>5. Pictures' = [Pictures EXCEPT ![l] = {}]
  BY <1>1, <1>3, PicturesOf
<1>6. Listed' = Listed
  BY <1>2 DEF Listed
<1>7. [Books!Next]_Books!books
  BY <1>4, <1>5, <1>6 DEF Books!Next, Books!GiveUp
<1>8. QED
  BY <1>4, <1>7

LEMMA ListUrlsKeeps ==
    ASSUME SInv, NEW l \in Load, ListUrls(l)
    PROVE  SInv' /\ [Books!Next]_Books!books
<1> DEFINE new == [step |-> "fetch", urls |-> Stored, found |-> <<>>,
                   acknowledged |-> Created]
<1> USE DEF SInv
<1>1. /\ load' = [load EXCEPT ![l] = new]
      /\ PublishersWait /\ UNCHANGED <<entries, server, crashes>>
  BY DEF ListUrls, Stored
<1>2. Range(<<>>) = {} /\ <<>> \in Seq(Sent)
  BY EmptySeq DEF Range
<1>3. Created \subseteq Uuid \X Version
  BY SentTypes, PutTypes DEF Created
<1>4. /\ new \in Loading /\ new.step = "fetch" /\ new.acknowledged = Created
      /\ new.urls \cup {VersionDir(m) : m \in Range(new.found)} = Stored
      /\ new.urls = Stored /\ Range(new.found) = {}
  BY <1>2, <1>3 DEF Loading, Stored
<1>5. ASSUME NEW key \in Created
      PROVE  \E d \in Stored : d[2] = key[1] /\ d[3] = key[2]
  <2>1. PICK r \in Request : status[r] = CreatedStatus /\ key = VersionKey(pkg[r])
    BY DEF Created
  <2>2. VersionDir(pkg[r]) \in Stored
    BY <2>1 DEF SuccessStored
  <2>3. VersionDir(pkg[r])[2] = key[1] /\ VersionDir(pkg[r])[3] = key[2]
    BY <2>1 DEF VersionDir, VersionKey
  <2>4. QED
    BY <2>2, <2>3
<1> HIDE DEF new
<1>6. SInv' /\ UNCHANGED <<Stored, Acknowledged>>
  BY <1>1, <1>4, <1>5, LoadKeeps DEF Typed, ListsStored
<1>7. Pictures' = [Pictures EXCEPT ![l] = {Stored}]
  BY <1>1, <1>4, PicturesOf
<1>8. Listed' = Listed
  BY <1>1 DEF Listed
<1>9. [Books!Next]_Books!books
  BY <1>6, <1>7, <1>8 DEF Books!Next, Books!Take
<1>10. QED
  BY <1>6, <1>9

\* A manifest moves from the URLs to the manifests found: the picture stays.
LEMMA FetchManifestKeeps ==
    ASSUME SInv, NEW l \in Load, FetchManifest(l)
    PROVE  SInv' /\ [Books!Next]_Books!books
<1> USE DEF SInv
<1>1. PICK d \in load[l].urls :
          load' = [load EXCEPT ![l].urls = @ \ {d}, ![l].found = Append(@, Fetched(d))]
  BY DEF FetchManifest
<1> DEFINE new == [load[l] EXCEPT !.urls = @ \ {d}, !.found = Append(@, Fetched(d))]
<1>2. /\ load' = [load EXCEPT ![l] = new] /\ load[l].step = "fetch"
      /\ PublishersWait /\ UNCHANGED <<entries, server, crashes>>
      /\ load[l] \in Loading
  BY <1>1 DEF FetchManifest, Typed, Loading
<1>3. d \in Stored /\ d \in Dir /\ Fetched(d) \in Sent /\ VersionDir(Fetched(d)) = d
  BY <1>2, FetchedDir DEF ListsStored, Pictured, StorageSound, Stored
<1>4. /\ Append(load[l].found, Fetched(d)) \in Seq(Sent)
      /\ Range(new.found) = Range(load[l].found) \cup {Fetched(d)}
  BY <1>2, <1>3, RangeAppend, AppendProperties DEF Loading
<1>5. /\ new \in Loading /\ new.urls = load[l].urls \ {d} /\ new.step = "fetch"
      /\ new.acknowledged = load[l].acknowledged
  BY <1>2, <1>4 DEF Loading
<1> HIDE DEF new
<1>6. new.urls \cup {VersionDir(m) : m \in Range(new.found)} = Pictured(l)
  BY <1>3, <1>4, <1>5 DEF Pictured
<1>7. \A key \in new.acknowledged :
          \E e \in new.urls \cup {VersionDir(m) : m \in Range(new.found)} :
              e[2] = key[1] /\ e[3] = key[2]
  BY <1>2, <1>5, <1>6 DEF AcknowledgedPictured
<1>8. Pictured(l) \subseteq Stored
  BY DEF ListsStored
<1>9. SInv' /\ UNCHANGED <<Stored, Acknowledged>>
  BY <1>2, <1>5, <1>6, <1>7, <1>8, LoadKeeps DEF Typed, ListsStored
<1>10. Pictures' = Pictures
  <2>1. Pictures' = [Pictures EXCEPT ![l] = {Pictured(l)}]
    BY <1>2, <1>5, <1>6, PicturesOf
  <2>2. QED
    BY <1>2, <2>1 DEF Pictures
<1>11. Listed' = Listed
  BY <1>2 DEF Listed
<1>12. QED
  BY <1>9, <1>10, <1>11 DEF Books!books

LEMMA LoadFailsKeeps ==
    ASSUME SInv, NEW l \in Load, LoadFails(l)
    PROVE  SInv' /\ [Books!Next]_Books!books
<1> USE DEF SInv
<1>1. PICK step \in {"idle", "failed"} : load' = [load EXCEPT ![l] = Fresh(step)]
  BY DEF LoadFails
<1>2. /\ PublishersWait /\ UNCHANGED <<entries, crashes>>
      /\ server' \in {"down", "booting", "serving"}
  BY DEF LoadFails, Typed
<1>3. /\ Fresh(step) \in Loading /\ Fresh(step).step # "fetch"
      /\ Fresh(step).urls = {} /\ Range(Fresh(step).found) = {}
  BY FreshIsEmpty
<1>4. SInv' /\ UNCHANGED <<Stored, Acknowledged>>
  BY <1>1, <1>2, <1>3, LoadKeeps DEF Typed, ListsStored
<1>5. Pictures' = [Pictures EXCEPT ![l] = {}]
  BY <1>1, <1>3, PicturesOf
<1>6. Listed' = Listed
  BY <1>2 DEF Listed
<1>7. [Books!Next]_Books!books
  BY <1>4, <1>5, <1>6 DEF Books!Next, Books!GiveUp
<1>8. QED
  BY <1>4, <1>7

\* The picture is put up.
LEMMA BuildKeeps ==
    ASSUME SInv, NEW l \in Load, Build(l)
    PROVE  SInv' /\ [Books!Next]_Books!books
<1> USE DEF SInv
<1>1. PICK step \in {"idle", "done"} : load' = [load EXCEPT ![l] = Fresh(step)]
  BY DEF Build
<1>2. /\ PublishersWait /\ UNCHANGED crashes /\ server' = "serving"
      /\ entries' = load[l].found /\ load[l].step = "fetch" /\ load[l].urls = {}
      /\ load[l] \in Loading
  BY DEF Build, Typed
<1>3. /\ Fresh(step) \in Loading /\ Fresh(step).step # "fetch"
      /\ Fresh(step).urls = {} /\ Range(Fresh(step).found) = {}
  BY FreshIsEmpty
<1>4. entries' \in Seq(Sent) /\ \A m \in Range(entries') : VersionDir(m) \in Stored
  BY <1>2 DEF Loading, ListsStored, Pictured
<1>5. SInv' /\ UNCHANGED <<Stored, Acknowledged>>
  BY <1>1, <1>2, <1>3, <1>4, LoadKeeps
<1>6. Pictures' = [Pictures EXCEPT ![l] = {}]
  BY <1>1, <1>3, PicturesOf
<1>7. Listed' = Pictured(l) /\ Pictured(l) \in Pictures[l]
  BY <1>2 DEF Listed, Pictured, Pictures
<1>8. [Books!Next]_Books!books
  BY <1>5, <1>6, <1>7 DEF Books!Next, Books!Show
<1>9. QED
  BY <1>5, <1>8

-----------------------------------------------------------------------------
(* A kill, and the whole.                                                    *)

\* A kill forgets the index and the pictures and nothing else.
LEMMA KillKeeps ==
    ASSUME SInv, Kill
    PROVE  SInv' /\ [Books!Next]_Books!books
<1> USE DEF SInv
<1>1. /\ server' = "down" /\ entries' = <<>> /\ crashes' = crashes + 1
      /\ crashes < MaxCrashes /\ reservedVersions' = {}
      /\ reservedNames' = [k \in NameKeys |-> Nil]
      /\ pc' = [r \in Request |-> IF pc[r] = "receive" THEN "receive" ELSE "done"]
      /\ UNCHANGED <<mode, pkg, status, archives, manifests>>
  BY DEF Kill
<1>2. PICK sent \in SUBSET {NextPut(r) : r \in {s \in Request : Uploading(s)}} :
          late' = late \cup sent
  BY DEF Kill
<1>3. \A put \in sent : put \in Put /\ Sound(put)
  BY <1>2, NextPutSound
<1>4. \A l \in Load : \/ load'[l] = load[l] /\ load[l].step \notin {"list", "fetch"}
                      \/ \E step \in {"idle", "failed"} : load'[l] = Fresh(step)
  BY DEF Kill
<1>5. StorageSound' /\ Stored' = Stored /\ Sent' = Sent
  BY <1>1, <1>2, <1>3, StorageKept
<1>6. <<>> \in Seq(Sent) /\ Range(<<>>) = {}
  BY EmptySeq DEF Range
<1>7. load' \in [Load -> Loading]
  <2>1. \A l \in Load : load'[l] \in Loading
    BY <1>4, FreshIsEmpty DEF Typed
  <2>2. QED
    BY <2>1 DEF Kill
<1>8. Typed'
  <2>1. crashes' \in 0 .. MaxCrashes
    BY <1>1, MaxCrashesAssumption DEF Typed
  <2>2. StorageTypeOK'
    BY <1>1, <1>2, <1>3 DEF Typed, StorageTypeOK
  <2>3. pc' \in [Request -> Step] /\ status' \in [Request -> Status]
    BY <1>1 DEF Typed, Step
  <2>4. QED
    BY <1>1, <1>5, <1>6, <1>7, <2>1, <2>2, <2>3 DEF Typed, Loading
<1>9. \A l \in Load : /\ Pictured(l)' \subseteq Stored
                      /\ load'[l].step # "fetch"
  BY <1>4, FreshIsEmpty DEF ListsStored, Pictured
<1>10. ListsStored' /\ AcknowledgedPictured'
  BY <1>1, <1>5, <1>6, <1>9 DEF ListsStored, AcknowledgedPictured
<1>11. SuccessStored' /\ CreatedAtEnd'
  BY <1>1, <1>5 DEF SuccessStored, CreatedAtEnd
<1>12. /\ Listed' = {} /\ UNCHANGED <<Stored, Acknowledged>>
       /\ Pictures' = [l \in Load |-> {}]
  BY <1>1, <1>5, <1>6, <1>9 DEF Listed, Acknowledged, Pictures
<1>13. [Books!Next]_Books!books
  BY <1>12 DEF Books!Next, Books!Crash
<1>14. QED
  BY <1>5, <1>8, <1>10, <1>11, <1>13

LEMMA ServiceStep ==
    ASSUME SInv, [ServiceNext]_allVars
    PROVE  SInv' /\ [Books!Next]_Books!books
<1>1. ASSUME NEW r \in Request, ServePublish(r)
      PROVE  SInv' /\ [Books!Next]_Books!books
  <2>1. UNCHANGED serviceVars
    BY <1>1 DEF ServePublish
  <2>2. CASE Quiet(r)
    BY <2>1, <2>2, QuietKeeps DEF Books!books
  <2>3. CASE PutAccepted(r)
    BY <2>1, <2>3, PutAcceptedKeeps
  <2>4. CASE PutLost(r)
    BY <2>1, <2>4, PutLostKeeps DEF Books!books
  <2>5. CASE Add(r)
    BY <2>1, <2>5, AddKeeps
  <2>6. CASE Respond(r)
    BY <2>1, <2>6, RespondKeeps
  <2>7. QED
    BY <1>1, <2>2, <2>3, <2>4, <2>5, <2>6 DEF ServePublish, Serve, Quiet
<1>2. CASE StorageStep
  BY <1>2, StorageStepKeeps
<1>3. CASE StartServer
  BY <1>3, StartKeeps DEF Load
<1>4. CASE \E l \in Refresh : StartRefresh(l)
  BY <1>4, StartKeeps DEF Load
<1>5. CASE \E l \in Load : LoadStep(l)
  BY <1>5, ListUrlsKeeps, FetchManifestKeeps, LoadFailsKeeps, BuildKeeps DEF LoadStep
<1>6. CASE Kill
  BY <1>6, KillKeeps
<1>7. CASE UNCHANGED allVars
  <2>1. UNCHANGED <<Stored, Acknowledged, Listed, Pictures>>
    BY <1>7
    DEF allVars, vars, requestVars, storageVars, serviceVars, Stored, Acknowledged,
        Listed, Pictures, Pictured
  <2>2. SInv'
    BY <1>7
    DEF SInv, Typed, StorageTypeOK, Loading, Sent, StorageSound, Sound, Stored, Fetched,
        ListsStored, Pictured, AcknowledgedPictured, SuccessStored, CreatedAtEnd,
        allVars, vars, requestVars, storageVars, serviceVars
  <2>3. QED
    BY <2>1, <2>2 DEF Books!books
<1>8. QED
  BY <1>1, <1>2, <1>3, <1>4, <1>5, <1>6, <1>7
  DEF ServiceNext, AllOver, AllServed, allVars

THEOREM ServiceInvariant == ServiceSpec => []SInv
<1>1. SInv /\ [ServiceNext]_allVars => SInv'
  BY ServiceStep
<1>2. QED
  BY InitSInv, <1>1, PTL DEF ServiceSpec

-----------------------------------------------------------------------------
(* The theorems.                                                             *)

\* The whole service is a ledger: stored and acknowledged packages are never
\* lost, what is acknowledged and what is listed is stored, and a load shows the
\* repository of one instant, for any publishes, loads and kills
\* (publish.go:57-173, source.go:64-85, refresh.go:36-53, main.go:52-58).
THEOREM ServiceIsLedger == ServiceSpec => IsLedger
<1>1. ServiceInit => Books!Init
  BY DEF ServiceInit, Init, StorageInit, Books!Init, Stored, Acknowledged, Listed,
         Pictures, Fresh, Range, NoStatus, CreatedStatus
<1>2. SInv /\ [ServiceNext]_allVars => [Books!Next]_Books!books
  BY ServiceStep
<1>3. QED
  BY <1>1, <1>2, ServiceInvariant, PTL DEF ServiceSpec, IsLedger, Books!Spec

\* Every variable of the service keeps its type: what a load reads back are
\* manifests that clients submitted (source.go:64-85, main.go:52-98).
THEOREM ServiceTypeCorrect == ServiceSpec => []ServiceTypeOK
<1>1. SInv => ServiceTypeOK
  <2> SUFFICES ASSUME SInv PROVE ServiceTypeOK
    OBVIOUS
  <2>1. Typed /\ Sent \subseteq Submissions /\ Sent \subseteq Manifest
    BY SentTypes DEF SInv
  <2>2. entries \in Seq(Submissions) /\ Seq(Sent) \subseteq Seq(Manifest)
    BY <2>1, SeqMonotonic DEF Typed
  <2>3. load \in [Load -> LoadState]
    BY <2>1, <2>2 DEF Typed, Loading, LoadState
  <2>4. QED
    BY <2>1, <2>2, <2>3 DEF ServiceTypeOK, TypeOK, Typed
<1>2. QED
  BY <1>1, ServiceInvariant, PTL

\* Whoever built the index, every manifest in it is stored, and is one a client
\* submitted (publish.go:168, source.go:64-85).
THEOREM ListedGenuine == ServiceSpec => []ListedIsGenuine
<1>1. SInv => ListedIsGenuine
  <2> SUFFICES ASSUME SInv, NEW m \in Range(entries)
               PROVE  Published(m) /\ \E r \in Request : pkg[r] = m
    BY DEF ListedIsGenuine
  <2>1. m \in Sent
    BY RangeOfSeq DEF SInv, Typed
  <2>2. Published(m)
    BY DEF SInv, ListsStored, Stored, Published
  <2>3. QED
    BY <2>1, <2>2 DEF Sent
<1>2. QED
  BY <1>1, ServiceInvariant, PTL

\* A load builds an index with every version acknowledged before its listing.
LEMMA BuildLists ==
    ASSUME SInv, NEW l \in Load, Build(l), NEW key \in load[l].acknowledged
    PROVE  Exists(entries', key[1], key[2])
<1>1. load[l].step = "fetch" /\ load[l].urls = {} /\ entries' = load[l].found
  BY DEF Build
<1>2. PICK d \in Pictured(l) : d[2] = key[1] /\ d[3] = key[2]
  BY <1>1 DEF SInv, AcknowledgedPictured
<1>3. PICK m \in Range(entries') : d = VersionDir(m)
  BY <1>1, <1>2 DEF Pictured
<1>4. QED
  BY <1>2, <1>3 DEF Exists, WithUuid, VersionDir

\* A package that was acknowledged before a load took its listing is in the
\* index that load builds (refresh.go:36-44, main.go:52-58).
THEOREM LoadsKeepAcknowledged == ServiceSpec => LoadKeepsAcknowledged
<1>1. ASSUME SInv, NEW l \in Load, Build(l), NEW key \in load[l].acknowledged
      PROVE  Exists(entries', key[1], key[2])
  BY <1>1, BuildLists
<1>2. SInv /\ [ServiceNext]_allVars =>
          [\A l \in Load : Build(l) => \A key \in load[l].acknowledged :
               Exists(entries', key[1], key[2])]_allVars
  BY <1>1
<1>3. QED
  BY <1>2, ServiceInvariant, PTL DEF ServiceSpec, LoadKeepsAcknowledged

\* A publish may list one more package and drops none.
LEMMA ExistsIsStable ==
    ASSUME Typed, NEW s \in Request, Serve(s), NEW u, NEW v, Exists(entries, u, v)
    PROVE  Exists(entries', u, v)
<1>1. CASE UNCHANGED entries
  BY <1>1
<1>2. CASE Add(s)
  <2>1. Range(entries') = Range(entries) \cup {pkg[s]}
    BY <1>2, RangeAppend, SentTypes DEF Add, Typed
  <2>2. QED
    BY <2>1 DEF Exists, WithUuid
<1>3. UNCHANGED entries \/ Add(s)
  BY DEF Serve, Receive, Refuse, CheckName, ReserveName, CheckVersion, ReserveVersion,
         PutAccepted, PutRejected, PutConflict, PutLost, Respond, ReleaseVersion,
         ReleaseName
<1>4. QED
  BY <1>1, <1>2, <1>3

\* No publish step, its own included, brings a request back that is too late.
LEMMA TooLateIsStable ==
    ASSUME Typed, NEW r \in Request, TooLate(r), NEW s \in Request, Serve(s)
    PROVE  TooLate(r)'
<1>1. /\ pc \in [Request -> Step] /\ status \in [Request -> Status]
      /\ BadRequest # CreatedStatus /\ Conflict # CreatedStatus
      /\ BadGateway # CreatedStatus
  BY DEF Typed, BadRequest, Conflict, BadGateway, CreatedStatus
<1>2. pkg' = pkg
  BY DEF Serve, Receive, Refuse, CheckName, ReserveName, CheckVersion, ReserveVersion,
         PutAccepted, PutRejected, PutConflict, PutLost, Add, Respond, ReleaseVersion,
         ReleaseName, Goto
<1>3. Exists(entries', pkg'[r].id, pkg'[r].version)
  BY <1>2, ExistsIsStable DEF TooLate
<1>4. CASE s # r
  <2>1. pc'[r] = pc[r] /\ status'[r] = status[r]
    BY <1>1, <1>4
    DEF Serve, Receive, Refuse, CheckName, ReserveName, CheckVersion, ReserveVersion,
        PutAccepted, PutRejected, PutConflict, PutLost, Add, Respond, ReleaseVersion,
        ReleaseName, Goto, Answer
  <2>2. QED
    BY <1>3, <2>1 DEF TooLate
<1>5. CASE s = r
  <2>1. \/ Receive(r) \/ Refuse(r) \/ CheckName(r) \/ ReserveName(r) \/ CheckVersion(r)
        \/ ReleaseName(r)
    BY <1>5
    DEF TooLate, Serve, ReserveVersion, PutAccepted, PutRejected, PutConflict, PutLost,
        Uploading, Add, Respond, ReleaseVersion
  <2>2. /\ pc'[r] \in {"checkName", "reserveName", "checkVersion", "releaseName", "done"}
        /\ status'[r] # CreatedStatus
    <3>1. CASE Receive(r) \/ Refuse(r)
      BY <1>1, <3>1 DEF Receive, Refuse, Goto, Answer, TooLate
    <3>2. CASE CheckName(r)
      BY <1>1, <3>2 DEF CheckName, Goto, Answer, TooLate
    <3>3. CASE ReserveName(r)
      BY <1>1, <3>3 DEF ReserveName, Goto, Answer, TooLate
    <3>4. CASE CheckVersion(r)
      BY <1>1, <3>4 DEF CheckVersion, Goto, Answer, TooLate
    <3>5. CASE ReleaseName(r)
      BY <1>1, <3>5 DEF ReleaseName, Goto, TooLate
    <3>6. QED
      BY <2>1, <3>1, <3>2, <3>3, <3>4, <3>5
  <2>3. QED
    BY <1>3, <2>2 DEF TooLate
<1>6. QED
  BY <1>4, <1>5

\* Once a version is listed, a publish of it that has not passed the check stays
\* too late through every publish and every load, whoever runs them, as long as
\* the process lives and the load listed storage after the version was
\* acknowledged (publish.go:144, refresh.go:36-44).
THEOREM LaterPublishesRefused == ServiceSpec => LaterPublishRefused
<1>1. ASSUME SInv, [ServiceNext]_allVars, NEW r \in Request, TooLate(r), ~Kill,
             ~\E l \in Load : Build(l) /\ VersionKey(pkg[r]) \notin load[l].acknowledged
      PROVE  TooLate(r)'
  <2>1. CASE \E s \in Request : ServePublish(s)
    BY <1>1, <2>1, TooLateIsStable DEF ServePublish, SInv
  <2>2. CASE \E l \in Load : Build(l)
    <3>1. PICK l \in Load : Build(l)
      BY <2>2
    <3>2. UNCHANGED <<pkg, pc, status>>
      BY <3>1 DEF Build, PublishersWait, requestVars
    <3>3. VersionKey(pkg[r]) \in load[l].acknowledged
      BY <1>1, <3>1
    <3>4. Exists(entries', pkg[r].id, pkg[r].version)
      <4>1. Exists(entries', VersionKey(pkg[r])[1], VersionKey(pkg[r])[2])
        BY <1>1, <3>1, <3>3, BuildLists
      <4>2. QED
        BY <4>1 DEF VersionKey
    <3>5. QED
      BY <1>1, <3>2, <3>4 DEF TooLate
  <2>3. CASE UNCHANGED <<entries, requestVars>>
    BY <1>1, <2>3 DEF TooLate, requestVars
  <2>4. UNCHANGED <<entries, requestVars>>
            \/ (\E s \in Request : ServePublish(s)) \/ (\E l \in Load : Build(l))
    BY <1>1
    DEF ServiceNext, StorageStep, StorageCatchesUp, StartServer, StartRefresh, LoadStep,
        ListUrls, FetchManifest, LoadFails, PublishersWait, AllOver, AllServed, allVars,
        vars
  <2>5. QED
    BY <2>1, <2>2, <2>3, <2>4
<1>2. SInv /\ [ServiceNext]_allVars =>
          [\A r \in Request : TooLate(r) =>
               \/ TooLate(r)'
               \/ Kill
               \/ \E l \in Load :
                      Build(l) /\ VersionKey(pkg[r]) \notin load[l].acknowledged]_allVars
  BY <1>1
<1>3. QED
  BY <1>2, ServiceInvariant, PTL DEF ServiceSpec, LaterPublishRefused

\* A manifest never points at a missing archive, kills included
\* (uploader.go:45-129).
THEOREM ServiceManifestsComplete == ServiceSpec => []ManifestHasArchive
<1>1. SInv => ManifestHasArchive
  BY DEF SInv, StorageSound, Stored, ManifestHasArchive
<1>2. QED
  BY <1>1, ServiceInvariant, PTL

-----------------------------------------------------------------------------
(* A refresh repairs the index.                                              *)

\* Nothing is on its way to storage.
Settled == late = {} /\ \A r \in Request : pc[r] = "done"

\* A load that lists all there is: what it has not to fetch any more it found,
\* once each.
ListsAll(k) ==
    /\ load[k].urls \subseteq Stored
    /\ \A d \in Stored \ load[k].urls : Fetched(d) \in Range(load[k].found)
    /\ IsFiniteSet(Stored \ load[k].urls)
    /\ Len(load[k].found) = Cardinality(Stored \ load[k].urls)

\* From the moment refresh l sets out on a quiet repository.
Repairing(l) ==
    /\ Settled
    /\ load[l].step \in {"list", "fetch", "done", "failed"}
    /\ \A k \in Load : load[k].step = "fetch" => ListsAll(k)
    /\ load[l].step = "done" /\ server = "serving" => InStep

\* While it is settled storage stays as it is, and only loads change the index.
LEMMA SettledStays ==
    ASSUME SInv, Settled, ServiceNext
    PROVE  /\ Settled'
           /\ UNCHANGED manifests
           /\ \/ StartServer
              \/ \E l \in Refresh : StartRefresh(l)
              \/ \E l \in Load : LoadStep(l)
              \/ Kill
              \/ UNCHANGED <<entries, server, load>>
<1>1. ASSUME NEW r \in Request PROVE ~ServePublish(r)
  BY DEF Settled, ServePublish, Serve, Receive, Refuse, CheckName, ReserveName, CheckVersion,
         ReserveVersion, PutAccepted, PutRejected, PutConflict, PutLost, Add, Respond,
         ReleaseVersion, ReleaseName, Uploading
<1>2. ~StorageStep
  BY DEF Settled, StorageStep, StorageCatchesUp, ApplyLate
<1>3. ASSUME Kill PROVE Settled' /\ UNCHANGED manifests
  <2>1. PICK sent \in SUBSET {NextPut(r) : r \in {s \in Request : Uploading(s)}} :
            late' = late \cup sent
    BY <1>3 DEF Kill
  <2>2. sent = {}
    BY DEF Settled, Uploading
  <2>3. late' = {}
    BY <2>1, <2>2 DEF Settled
  <2>4. /\ pc' = [r \in Request |-> IF pc[r] = "receive" THEN "receive" ELSE "done"]
        /\ UNCHANGED manifests
    BY <1>3 DEF Kill
  <2>5. \A r \in Request : pc'[r] = "done"
    BY <2>4 DEF Settled
  <2>6. QED
    BY <2>3, <2>4, <2>5 DEF Settled
<1>4. ASSUME PublishersWait PROVE Settled' /\ UNCHANGED manifests
  <2>1. UNCHANGED <<late, pc, manifests>>
    BY <1>4 DEF PublishersWait, requestVars, storageVars
  <2>2. QED
    BY <2>1 DEF Settled
<1>5. ASSUME AllOver PROVE Settled' /\ UNCHANGED <<manifests, entries, server, load>>
  <2>1. UNCHANGED <<late, pc, manifests, entries, server, load>>
    BY <1>5 DEF AllOver, AllServed, vars, serviceVars, requestVars, storageVars
  <2>2. QED
    BY <2>1 DEF Settled
<1>6. StartServer \/ (\E l \in Refresh : StartRefresh(l)) \/ (\E l \in Load : LoadStep(l))
        => PublishersWait
  BY DEF StartServer, StartRefresh, LoadStep, ListUrls, FetchManifest, LoadFails, Build
<1>7. CASE Kill
  BY <1>3, <1>7
<1>8. CASE StartServer \/ (\E l \in Refresh : StartRefresh(l)) \/ (\E l \in Load : LoadStep(l))
  BY <1>4, <1>6, <1>8
<1>9. CASE AllOver
  BY <1>5, <1>9
<1>10. QED
  BY <1>1, <1>2, <1>7, <1>8, <1>9 DEF ServiceNext

\* A load lists what is stored, and fetching goes on with it.
LEMMA ListingKept ==
    ASSUME UNCHANGED manifests, NEW k, UNCHANGED load[k]
    PROVE  /\ UNCHANGED Stored
           /\ ListsAll(k) => ListsAll(k)'
BY DEF ListsAll, Stored, Fetched

LEMMA ListingTaken ==
    ASSUME SInv, NEW k \in Load, ListUrls(k), UNCHANGED manifests
    PROVE  ListsAll(k)'
<1>1. load'[k].urls = Stored /\ load'[k].found = <<>>
  BY DEF SInv, Typed, ListUrls, Stored
<1>2. Stored' = Stored /\ Stored \ Stored = {}
  BY DEF Stored
<1>3. IsFiniteSet({}) /\ Cardinality({}) = 0
  BY FS_EmptySet
<1>4. QED
  BY <1>1, <1>2, <1>3 DEF ListsAll

LEMMA ListingFetched ==
    ASSUME SInv, NEW k \in Load, ListsAll(k), FetchManifest(k), UNCHANGED manifests
    PROVE  ListsAll(k)'
<1> DEFINE had == Stored \ load[k].urls
           found == load[k].found
<1>1. PICK d \in load[k].urls :
          load' = [load EXCEPT ![k].urls = @ \ {d}, ![k].found = Append(@, Fetched(d))]
  BY DEF FetchManifest
<1>2. /\ load'[k].urls = load[k].urls \ {d}
      /\ load'[k].found = Append(found, Fetched(d))
  BY <1>1 DEF SInv, Typed, Loading
<1>3. UNCHANGED Stored /\ \A e \in Stored : Fetched(e)' = Fetched(e)
  BY DEF Stored, Fetched
<1>4. d \in Stored /\ d \notin had /\ Stored \ load'[k].urls = had \cup {d}
  BY <1>2 DEF ListsAll
<1>5. IsFiniteSet(had \cup {d}) /\ Cardinality(had \cup {d}) = Cardinality(had) + 1
  BY <1>4, FS_AddElement DEF ListsAll
<1>6. found \in Seq(Sent) /\ Fetched(d) \in Sent
  BY <1>4 DEF SInv, Typed, Loading, StorageSound
<1>7. /\ Len(Append(found, Fetched(d))) = Len(found) + 1
      /\ Range(Append(found, Fetched(d))) = Range(found) \cup {Fetched(d)}
  BY <1>6, RangeAppend, AppendProperties
<1> HIDE DEF had, found
<1>8. \A e \in had \cup {d} : Fetched(e) \in Range(found) \cup {Fetched(d)}
  BY DEF ListsAll, had, found
<1>9. Len(found) = Cardinality(had)
  BY DEF ListsAll, had, found
<1>10. load'[k].urls \subseteq Stored
  BY <1>2 DEF ListsAll
<1>11. QED
  BY <1>2, <1>3, <1>4, <1>5, <1>7, <1>8, <1>9, <1>10 DEF ListsAll

\* A load with nothing left to fetch is the index InStep asks for.
LEMMA ListingBuilt ==
    ASSUME NEW k \in Load, ListsAll(k), Build(k), UNCHANGED manifests
    PROVE  InStep'
<1>1. load[k].urls = {} /\ entries' = load[k].found
  BY DEF Build
<1>2. UNCHANGED Stored /\ Stored \ {} = Stored /\ \A d \in Stored : Fetched(d)' = Fetched(d)
  BY DEF Stored, Fetched
<1>3. /\ \A d \in Stored : Fetched(d) \in Range(entries')
      /\ Len(entries') = Cardinality(Stored)
  BY <1>1, <1>2 DEF ListsAll
<1>4. QED
  BY <1>2, <1>3 DEF InStep, Stored

\* Where a step takes a load, and what it leaves alone unless it builds.
LEMMA LoadStepGoesOn ==
    ASSUME SInv, NEW k \in Load, LoadStep(k)
    PROVE  /\ k # Boot => load'[k].step \in {"fetch", "failed", "done"}
           /\ Build(k) \/ /\ UNCHANGED entries
                          /\ server' \in {server, "down"}
                          /\ load'[k].step # "done"
<1>1. load \in [Load -> Loading]
  BY DEF SInv, Typed
<1>2. CASE ListUrls(k)
  BY <1>1, <1>2 DEF ListUrls
<1>3. CASE FetchManifest(k)
  <2>1. PICK d \in load[k].urls :
            load' = [load EXCEPT ![k].urls = @ \ {d}, ![k].found = Append(@, Fetched(d))]
    BY <1>3 DEF FetchManifest
  <2>2. load'[k].step = load[k].step
    BY <1>1, <2>1 DEF Loading
  <2>3. QED
    BY <1>3, <2>2 DEF FetchManifest
<1>4. CASE LoadFails(k)
  BY <1>1, <1>4 DEF LoadFails, Fresh
<1>5. CASE Build(k)
  BY <1>1, <1>5 DEF Build, Fresh
<1>6. QED
  BY <1>2, <1>3, <1>4, <1>5 DEF LoadStep

LEMMA LoadStepRepairs ==
    ASSUME SInv, NEW l \in Refresh, Repairing(l), Settled', UNCHANGED manifests,
           NEW k \in Load, LoadStep(k)
    PROVE  Repairing(l)'
<1>1. PICK new : load' = [load EXCEPT ![k] = new]
  BY DEF LoadStep, ListUrls, FetchManifest, LoadFails, Build, SInv, Typed
<1>2. /\ load'[k] = new /\ l \in Load
      /\ \A j \in Load \ {k} : load'[j] = load[j]
  BY <1>1 DEF SInv, Typed, Load
<1>3. ListsAll(k)' \/ load'[k].step # "fetch"
  <2>1. CASE ListUrls(k)
    BY <2>1, ListingTaken
  <2>2. CASE FetchManifest(k)
    BY <2>2, ListingFetched DEF Repairing, FetchManifest
  <2>3. CASE LoadFails(k) \/ Build(k)
    BY <2>3 DEF LoadFails, Build, SInv, Typed, Fresh
  <2>4. QED
    BY <2>1, <2>2, <2>3 DEF LoadStep
<1>4. \A j \in Load : load'[j].step = "fetch" => ListsAll(j)'
  BY <1>2, <1>3, ListingKept DEF Repairing
<1>5. load'[l].step \in {"list", "fetch", "done", "failed"}
  <2>1. CASE k # l
    BY <1>2, <2>1 DEF Repairing
  <2>2. CASE k = l
    BY <2>2, LoadStepGoesOn, BootAssumption
  <2>3. QED
    BY <2>1, <2>2
<1>6. load'[l].step = "done" /\ server' = "serving" => InStep'
  <2>1. CASE Build(k)
    BY <2>1, ListingBuilt DEF Repairing, Build
  <2>2. CASE ~Build(k)
    <3>1. /\ UNCHANGED entries
          /\ server' \in {server, "down"}
          /\ load'[k].step # "done"
      BY <2>2, LoadStepGoesOn
    <3>2. UNCHANGED InStep
      BY <3>1 DEF InStep, Fetched
    <3>3. QED
      BY <1>2, <3>1, <3>2 DEF Repairing
  <2>3. QED
    BY <2>1, <2>2
<1>7. QED
  BY <1>4, <1>5, <1>6 DEF Repairing

LEMMA OtherStepRepairs ==
    ASSUME SInv, NEW l \in Refresh, Repairing(l), Settled', UNCHANGED manifests,
           \/ StartServer
           \/ \E k \in Refresh : StartRefresh(k)
           \/ Kill
           \/ UNCHANGED <<entries, server, load>>
    PROVE  Repairing(l)'
<1>1. \A k \in Load : load'[k] = load[k] \/ load'[k].step \in {"idle", "list", "failed"}
  BY DEF StartServer, StartRefresh, Kill, SInv, Typed, Fresh, Load
<1>2. \A k \in Load : load'[k].step = "fetch" => ListsAll(k)'
  BY <1>1, ListingKept DEF Repairing
<1>3. load'[l].step \in {"list", "fetch", "done", "failed"}
  BY BootAssumption DEF StartServer, StartRefresh, Kill, SInv, Typed, Fresh, Load, Repairing
<1>4. l \in Load
  BY DEF Load
<1>5. load'[l].step = "done" /\ server' = "serving" => InStep'
  <2>1. CASE server' = "serving"
    <3>1. UNCHANGED <<entries, server>>
      BY <2>1 DEF StartServer, StartRefresh, Kill
    <3>2. UNCHANGED InStep
      BY <3>1 DEF InStep, Fetched
    <3>3. QED
      BY <1>1, <1>4, <3>1, <3>2 DEF Repairing
  <2>2. QED
    BY <2>1
<1>6. QED
  BY <1>2, <1>3, <1>5 DEF Repairing

\* A refresh that sets out once publishing is over, with no load of before under
\* way, leaves the index and storage in step, and kills, restarts and other
\* refreshes keep them so (refresh.go:36-44, index.go:36-68).
THEOREM RefreshesRepair == ServiceSpec => RefreshRepairs
<1> SUFFICES ASSUME NEW l \in Refresh
             PROVE  ServiceSpec =>
        [](/\ \A r \in Request : pc[r] = "done"
           /\ late = {}
           /\ load[l].step = "list"
           /\ \A k \in Load \ {l} : load[k].step # "fetch"
           => [](load[l].step = "done" /\ server = "serving" => InStep))
  BY DEF RefreshRepairs
<1>1. /\ \A r \in Request : pc[r] = "done"
      /\ late = {}
      /\ load[l].step = "list"
      /\ \A k \in Load \ {l} : load[k].step # "fetch"
      => Repairing(l)
  BY DEF Repairing, Settled
<1>2. SInv /\ Repairing(l) /\ [ServiceNext]_allVars => Repairing(l)'
  <2> SUFFICES ASSUME SInv, Repairing(l), [ServiceNext]_allVars PROVE Repairing(l)'
    OBVIOUS
  <2>1. CASE ServiceNext
    BY <2>1, SettledStays, LoadStepRepairs, OtherStepRepairs DEF Repairing
  <2>2. CASE UNCHANGED allVars
    BY <2>2, OtherStepRepairs
    DEF Repairing, Settled, allVars, vars, serviceVars, requestVars, storageVars
  <2>3. QED
    BY <2>1, <2>2
<1>3. Repairing(l) => (load[l].step = "done" /\ server = "serving" => InStep)
  BY DEF Repairing
<1>4. QED
  BY <1>1, <1>2, <1>3, ServiceInvariant, PTL DEF ServiceSpec

=============================================================================
