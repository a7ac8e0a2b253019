------------------------------ MODULE Publish ------------------------------
(***************************************************************************)
(* Concurrent publish requests against one server: internal/handler/       *)
(* publish.go with the index it consults and extends (internal/index), the *)
(* two reservation maps and the uploader (internal/backend/uploader.go).   *)
(*                                                                         *)
(* net/http runs one goroutine per request.  Every call on the index is    *)
(* one critical section of its RWMutex and every call on a sync.Map is     *)
(* atomic, so each is one step here, and the steps of different requests   *)
(* interleave freely: nothing in HandlePublish holds a lock from one step  *)
(* to the next.                                                            *)
(***************************************************************************)
EXTENDS Storage, Naturals

CONSTANTS
    Request,      \* the publish requests
    Submissions,  \* the packages clients submit
    Modes         \* the publish modes the server may be configured with

ASSUME SubmissionsAssumption == Submissions \subseteq Manifest
ASSUME ModesAssumption == Modes \subseteq {"atomic", "two-step"} /\ Modes # {}

VARIABLES
    mode,              \* PUBLISH_MODE, fixed while the server runs
    entries,           \* the index: the manifests it lists, in order
    reservedVersions,  \* PublishHandler.reservedVersions: the keys present
    reservedNames,     \* PublishHandler.reservedNames: [folded name -> UUID or Nil]
    pkg,               \* [Request -> Submissions]: what each request uploads
    pc,                \* the next step of each request's goroutine
    status             \* the HTTP status each client has been sent

requestVars == <<pkg, pc, status>>
vars == <<mode, entries, reservedVersions, reservedNames, requestVars, storageVars>>

\* HTTP statuses.  BadRequest stands for every refusal before shared state is
\* touched: 400, 401, 413 and the 500 of a failed temporary file.
NoStatus == 0
CreatedStatus == 201
BadRequest == 400
Conflict == 409
BadGateway == 502
Status == {NoStatus, CreatedStatus, BadRequest, Conflict, BadGateway}

Step == {"receive", "checkName", "reserveName", "checkVersion", "reserveVersion",
         "upload", "uploadManifest", "add", "respond", "releaseVersion",
         "releaseName", "done"}

NameKeys == {Lower(n) : n \in Name}

\* Requests between LoadOrStore and Delete on the version's key.
HoldsVersion(r) ==
    pc[r] \in {"upload", "uploadManifest", "add", "respond", "releaseVersion"}

\* Requests between reserveName and the deferred releaseName.
HoldsName(r) ==
    HoldsVersion(r) \/ pc[r] \in {"checkVersion", "reserveVersion", "releaseName"}

TypeOK ==
    /\ StorageTypeOK
    /\ mode \in Modes
    /\ entries \in Seq(Submissions)
    /\ reservedVersions \subseteq Uuid \X Version
    /\ reservedNames \in [NameKeys -> Uuid \cup {Nil}]
    /\ pkg \in [Request -> Submissions]
    /\ pc \in [Request -> Step]
    /\ status \in [Request -> Status]

-----------------------------------------------------------------------------
(* Initial state: an empty repository and a server that has just started.    *)

Init ==
    /\ StorageInit
    /\ mode \in Modes
    /\ entries = <<>>
    /\ reservedVersions = {}
    /\ reservedNames = [k \in NameKeys |-> Nil]
    /\ pkg \in [Request -> Submissions]
    /\ pc = [r \in Request |-> "receive"]
    /\ status = [r \in Request |-> NoStatus]

-----------------------------------------------------------------------------
(* The handler, one action per step that shared state can tell apart.        *)

Goto(r, step) == pc' = [pc EXCEPT ![r] = step] /\ UNCHANGED <<mode, pkg>>
Answer(r, code) == status' = [status EXCEPT ![r] = code]
Reservations == <<reservedVersions, reservedNames>>

\* Authentication, the multipart form, the temporary copy and its digest,
\* ExtractMPackage and BuildManifest: all succeed, and the manifest is known.
Receive(r) ==
    /\ pc[r] = "receive"
    /\ Goto(r, "checkName")
    /\ UNCHANGED <<status, entries, Reservations, storageVars>>

\* ... or one of them fails.
Refuse(r) ==
    /\ pc[r] = "receive"
    /\ Answer(r, BadRequest)
    /\ Goto(r, "done")
    /\ UNCHANGED <<entries, Reservations, storageVars>>

\* idx.NameConflict, before anything is reserved.
CheckName(r) ==
    /\ pc[r] = "checkName"
    /\ IF NameConflict(entries, pkg[r].name, pkg[r].id)
       THEN Answer(r, Conflict) /\ Goto(r, "done")
       ELSE Goto(r, "reserveName") /\ UNCHANGED status
    /\ UNCHANGED <<entries, Reservations, storageVars>>

\* Mutants: the map holds the name instead of the UUID; the clause that lets a
\* UUID share its own reservation is missing; whose reservation it is does not
\* matter.
ReserveNameStoresName(r) ==
    /\ pc[r] = "reserveName"
    /\ IF reservedNames[NameKey(pkg[r])] = Nil
       THEN /\ reservedNames' = [reservedNames EXCEPT ![NameKey(pkg[r])] = NameKey(pkg[r])]
            /\ Goto(r, "checkVersion")
            /\ UNCHANGED status
       ELSE Answer(r, Conflict) /\ Goto(r, "done") /\ UNCHANGED reservedNames
    /\ UNCHANGED <<entries, reservedVersions, storageVars>>
ReserveNameUnshared(r) ==
    /\ pc[r] = "reserveName"
    /\ IF reservedNames[NameKey(pkg[r])] = Nil
       THEN /\ reservedNames' = [reservedNames EXCEPT ![NameKey(pkg[r])] = pkg[r].id]
            /\ Goto(r, "checkVersion")
            /\ UNCHANGED status
       ELSE Answer(r, Conflict) /\ Goto(r, "done") /\ UNCHANGED reservedNames
    /\ UNCHANGED <<entries, reservedVersions, storageVars>>

ReserveNameShared(r) ==
    /\ pc[r] = "reserveName"
    /\ \/ /\ reservedNames[NameKey(pkg[r])] = Nil
          /\ reservedNames' = [reservedNames EXCEPT ![NameKey(pkg[r])] = pkg[r].id]
       \/ reservedNames[NameKey(pkg[r])] # Nil /\ UNCHANGED reservedNames
    /\ Goto(r, "checkVersion")
    /\ UNCHANGED <<status, entries, reservedVersions, storageVars>>

\* reserveName: LoadOrStore; a reservation held by the same UUID is shared.
ReserveName(r) ==
    /\ pc[r] = "reserveName"
    /\ \/ /\ reservedNames[NameKey(pkg[r])] = Nil
          /\ reservedNames' = [reservedNames EXCEPT ![NameKey(pkg[r])] = pkg[r].id]
          /\ Goto(r, "checkVersion")
          /\ UNCHANGED status
       \/ /\ reservedNames[NameKey(pkg[r])] = pkg[r].id
          /\ Goto(r, "checkVersion")
          /\ UNCHANGED <<status, reservedNames>>
       \/ /\ reservedNames[NameKey(pkg[r])] \notin {Nil, pkg[r].id}
          /\ Answer(r, Conflict)
          /\ Goto(r, "done")
          /\ UNCHANGED reservedNames
    /\ UNCHANGED <<entries, reservedVersions, storageVars>>

\* Mutants: the name's release is deferred only after this check; the check is
\* left to the reservation.
CheckVersionKeepsName(r) ==
    /\ pc[r] = "checkVersion"
    /\ IF Exists(entries, pkg[r].id, pkg[r].version)
       THEN Answer(r, Conflict) /\ Goto(r, "done")
       ELSE Goto(r, "reserveVersion") /\ UNCHANGED status
    /\ UNCHANGED <<entries, Reservations, storageVars>>
CheckVersionSkipped(r) ==
    /\ pc[r] = "checkVersion"
    /\ Goto(r, "reserveVersion")
    /\ UNCHANGED <<status, entries, Reservations, storageVars>>

\* idx.Exists.  From here on every return runs the deferred releaseName.
CheckVersion(r) ==
    /\ pc[r] = "checkVersion"
    /\ IF Exists(entries, pkg[r].id, pkg[r].version)
       THEN Answer(r, Conflict) /\ Goto(r, "releaseName")
       ELSE Goto(r, "reserveVersion") /\ UNCHANGED status
    /\ UNCHANGED <<entries, Reservations, storageVars>>

\* Mutant: Store where the code has LoadOrStore.
ReserveVersionStores(r) ==
    /\ pc[r] = "reserveVersion"
    /\ reservedVersions' = reservedVersions \cup {VersionKey(pkg[r])}
    /\ Goto(r, "upload")
    /\ UNCHANGED <<status, entries, reservedNames, storageVars>>

\* reserveVersion: LoadOrStore on "uuid:version".
ReserveVersion(r) ==
    /\ pc[r] = "reserveVersion"
    /\ IF VersionKey(pkg[r]) \in reservedVersions
       THEN /\ Answer(r, Conflict)
            /\ Goto(r, "releaseName")
            /\ UNCHANGED reservedVersions
       ELSE /\ reservedVersions' = reservedVersions \cup {VersionKey(pkg[r])}
            /\ Goto(r, "upload")
            /\ UNCHANGED status
    /\ UNCHANGED <<entries, reservedNames, storageVars>>

-----------------------------------------------------------------------------
(* uploader.Publish: one PUT in atomic mode, two in two-step mode.           *)

Uploading(r) == pc[r] \in {"upload", "uploadManifest"}

\* Mutant: two-step mode sends the manifest first.
NextPutManifestFirst(r) ==
    IF pc[r] = "uploadManifest" THEN ArchivePut(pkg[r])
    ELSE IF mode = "atomic" THEN Bundle(pkg[r]) ELSE ManifestPut(pkg[r])

\* The PUT an uploading request is about to send.
NextPut(r) ==
    IF pc[r] = "uploadManifest" THEN ManifestPut(pkg[r])
    ELSE IF mode = "atomic" THEN Bundle(pkg[r]) ELSE ArchivePut(pkg[r])

\* Mutant: the index is not told.
AfterPutUnlisted(r) ==
    IF pc[r] = "upload" /\ mode = "two-step" THEN "uploadManifest" ELSE "respond"

\* What an uploading request does once its PUT is accepted.
AfterPut(r) ==
    IF pc[r] = "upload" /\ mode = "two-step" THEN "uploadManifest" ELSE "add"

\* A 2xx answer.  A plain PUT overwrites; so may the atomic one, where the
\* caller's token permits it.
PutAccepted(r) ==
    /\ Uploading(r)
    /\ Apply(NextPut(r))
    /\ Goto(r, AfterPut(r))
    /\ UNCHANGED <<status, entries, Reservations, late>>

\* Any other answer, or an error before the request left the server.  What an
\* earlier PUT stored stays.
PutRejected(r) ==
    /\ Uploading(r)
    /\ Answer(r, BadGateway)
    /\ Goto(r, "releaseVersion")
    /\ UNCHANGED <<entries, Reservations, storageVars>>

\* A 409 from the atomic PUT: Artifactory already holds the version.  putFile
\* knows no such case, in two-step mode a 409 is PutRejected.
PutConflict(r) ==
    /\ Uploading(r)
    /\ mode = "atomic"
    /\ Occupied(VersionDir(pkg[r]))
    /\ Answer(r, Conflict)
    /\ Goto(r, "releaseVersion")
    /\ UNCHANGED <<entries, Reservations, storageVars>>

\* Mutants: a lost answer counts as success; it is reported as a failure, but
\* the package is listed.
PutLostIsSuccess(r) ==
    /\ Uploading(r)
    /\ Lose(NextPut(r))
    /\ Goto(r, "add")
    /\ UNCHANGED <<status, entries, Reservations>>
PutLostIsListed(r) ==
    /\ Uploading(r)
    /\ Lose(NextPut(r))
    /\ entries' = Append(entries, pkg[r])
    /\ Answer(r, BadGateway)
    /\ Goto(r, "releaseVersion")
    /\ UNCHANGED Reservations

\* No answer within uploadTimeout.
PutLost(r) ==
    /\ Uploading(r)
    /\ Lose(NextPut(r))
    /\ Answer(r, BadGateway)
    /\ Goto(r, "releaseVersion")
    /\ UNCHANGED <<entries, Reservations>>

\* The repository catches up with a PUT that was given up.
StorageCatchesUp ==
    /\ \E put \in late : ApplyLate(put)
    /\ UNCHANGED <<mode, requestVars, entries, Reservations>>

-----------------------------------------------------------------------------
(* The end of a request.                                                     *)

\* idx.Add
Add(r) ==
    /\ pc[r] = "add"
    /\ entries' = Append(entries, pkg[r])
    /\ Goto(r, "respond")
    /\ UNCHANGED <<status, Reservations, storageVars>>

Respond(r) ==
    /\ pc[r] = "respond"
    /\ Answer(r, CreatedStatus)
    /\ Goto(r, "releaseVersion")
    /\ UNCHANGED <<entries, Reservations, storageVars>>

\* The deferred calls run last in, first out, after the answer is written.
ReleaseVersion(r) ==
    /\ pc[r] = "releaseVersion"
    /\ reservedVersions' = reservedVersions \ {VersionKey(pkg[r])}
    /\ Goto(r, "releaseName")
    /\ UNCHANGED <<status, entries, reservedNames, storageVars>>

\* releaseName deletes the key whoever else relies on it.
ReleaseName(r) ==
    /\ pc[r] = "releaseName"
    /\ reservedNames' = [reservedNames EXCEPT ![NameKey(pkg[r])] = Nil]
    /\ Goto(r, "done")
    /\ UNCHANGED <<status, entries, reservedVersions, storageVars>>

-----------------------------------------------------------------------------

Serve(r) ==
    \/ Receive(r) \/ Refuse(r)
    \/ CheckName(r) \/ ReserveName(r) \/ CheckVersion(r) \/ ReserveVersion(r)
    \/ PutAccepted(r) \/ PutRejected(r) \/ PutConflict(r) \/ PutLost(r)
    \/ Add(r) \/ Respond(r) \/ ReleaseVersion(r) \/ ReleaseName(r)

\* Every request is served and storage is quiet: the bounded run ends here.
AllServed ==
    /\ \A r \in Request : pc[r] = "done"
    /\ late = {}
    /\ UNCHANGED vars

Next == (\E r \in Request : Serve(r)) \/ StorageCatchesUp \/ AllServed

\* A goroutine that can run is scheduled, and http.Client.Timeout ends every
\* PUT, so each request keeps taking steps.  Storage owes nothing: a PUT that
\* was given up may never be applied.
Fairness == \A r \in Request : WF_vars(Serve(r))

Spec == Init /\ [][Next]_vars /\ Fairness

-----------------------------------------------------------------------------
(* Safety.                                                                   *)

\* Two requests never upload the same version at once: from LoadOrStore to
\* Delete the reservation of "uuid:version" has one owner (publish.go:150-155).
\* It says nothing of a PUT that was given up, which may be stored beside a later
\* owner's; UploadsDoNotMix does.
VersionExclusion ==
    \A r, s \in Request :
        HoldsVersion(r) /\ HoldsVersion(s) /\ VersionKey(pkg[r]) = VersionKey(pkg[s])
            => r = s

\* A reservation never outlives its requests: every reserved version and every
\* reserved name has a request in flight, of that very UUID, that will release
\* it, whichever way that request ends (publish.go:142, 155).
NoStrayReservation ==
    /\ \A k \in reservedVersions : \E r \in Request :
           HoldsVersion(r) /\ VersionKey(pkg[r]) = k
    /\ \A k \in NameKeys : reservedNames[k] # Nil => \E r \in Request :
           HoldsName(r) /\ NameKey(pkg[r]) = k /\ pkg[r].id = reservedNames[k]

\* Two UUIDs hold one folded name at once only after a reservation was shared: a
\* request for that name is over, and releaseName has deleted the reservation it
\* had in common with another request of its UUID.  The comment at publish.go:138
\* makes no such exception (publish.go:44-55).
SharedAndReleased(key) ==
    \E t, u \in Request :
        /\ t # u /\ pkg[t].id = pkg[u].id
        /\ NameKey(pkg[t]) = key /\ NameKey(pkg[u]) = key
        /\ pc[t] = "done" /\ status[t] # BadRequest
NameHeldByOneUuid ==
    \A r, s \in Request :
        /\ HoldsName(r) /\ HoldsName(s)
        /\ NameKey(pkg[r]) = NameKey(pkg[s]) /\ pkg[r].id # pkg[s].id
        => SharedAndReleased(NameKey(pkg[r]))

\* Two uploads that succeed never leave the archive of one beside the manifest
\* of the other.  Where a manifest describes another archive than the one stored
\* with it (which the metadata specification, line 409, rules out), one of the
\* two is of an upload of that version that failed after a PUT of it was sent,
\* and may have arrived late, or that is between its two PUTs, where a kill of
\* the process would leave it (publish.go:150-155, uploader.go:107-127).
UploadsDoNotMix ==
    \A d \in Dir : manifests[d] \notin {Nil, archives[d]} =>
        \E r \in Request : /\ VersionDir(pkg[r]) = d
                           /\ pkg[r].digest \in {archives[d], manifests[d]}
                           /\ status[r] = BadGateway \/ pc[r] = "uploadManifest"

\* Storage never shows a manifest whose archive is missing, whatever PUT fails,
\* is lost or is applied late: the manifest is what a refresh lists, so a
\* half-published package stays invisible (uploader.go:96-129).
ManifestHasArchive ==
    \A d \in Dir : manifests[d] # Nil => archives[d] # Nil

\* What the index lists can be downloaded (publish.go:157-168).
ListedIsStored == \A m \in Range(entries) : Published(m)

\* A 201 means the package is listed and durable, as long as nothing replaces
\* the index (publish.go:157-171).
CreatedIsListed ==
    \A r \in Request :
        status[r] = CreatedStatus => pkg[r] \in Range(entries) /\ Published(pkg[r])

\* The index gains one entry per successful publish and none from a publish
\* that is refused, fails or loses a race.
OneEntryPerPublish ==
    Len(entries) =
        Cardinality({r \in Request : status[r] = CreatedStatus \/ pc[r] = "respond"})

\* A publish is only answered 409 while something stands in its way: another
\* request in flight holds its version, or its name for another UUID, or the
\* index lists its version or its name, or storage holds its directory.
Rival(r) ==
    \/ \E s \in Request \ {r} :
           \/ HoldsVersion(s) /\ VersionKey(pkg[s]) = VersionKey(pkg[r])
           \/ /\ HoldsName(s)
              /\ NameKey(pkg[s]) = NameKey(pkg[r])
              /\ pkg[s].id # pkg[r].id
    \/ Exists(entries, pkg[r].id, pkg[r].version)
    \/ NameConflict(entries, pkg[r].name, pkg[r].id)
    \/ mode = "atomic" /\ Occupied(VersionDir(pkg[r]))
ConflictHasRival ==
    [][\A r \in Request : status[r] # Conflict /\ status'[r] = Conflict => Rival(r)]_vars

-----------------------------------------------------------------------------
(* What the documents say and the interleavings break.                       *)

\* One folded name belongs to one UUID (API specification, publish validation 5).
NameHasOneOwner ==
    \A m, n \in Range(entries) : NameKey(m) = NameKey(n) => m.id = n.id

\* A version is published at most once (API specification, Immutability).
VersionPublishedOnce ==
    \A r, s \in Request :
        /\ status[r] = CreatedStatus /\ status[s] = CreatedStatus
        /\ VersionKey(pkg[r]) = VersionKey(pkg[s])
        => r = s

=============================================================================
