---------------------------- MODULE RepoService ----------------------------
(***************************************************************************)
(* The whole service: the publish requests of Publish, the refresh         *)
(* requests that rebuild the index from storage while publishes run, and   *)
(* the server process, which loads the index before it listens and may be  *)
(* killed at any point (cmd/mpm-repo-server/main.go, internal/handler/     *)
(* refresh.go, internal/backend/source.go).                                *)
(***************************************************************************)
EXTENDS Publish

CONSTANTS
    Refresh,    \* the refresh requests
    Boot,       \* the load of the index at startup
    MaxCrashes  \* bound: how often the process is killed

ASSUME BootAssumption == Boot \notin Refresh
ASSUME MaxCrashesAssumption == MaxCrashes \in Nat

VARIABLES
    server,   \* the process: "down", "booting" or "serving"
    load,     \* [Load -> what each ListManifests call has done so far]
    crashes   \* how often the process was killed

serviceVars == <<server, load, crashes>>
allVars == <<vars, serviceVars>>

Load == Refresh \cup {Boot}

\* One ListManifests call and the Build after it: the URLs still to fetch, the
\* manifests fetched, and (for the properties only) the versions whose publish
\* had been acknowledged when the listing was taken.
LoadState == [step : {"idle", "list", "fetch", "done", "failed"},
              urls : SUBSET Dir,
              found : Seq(Manifest),
              acknowledged : SUBSET (Uuid \X Version)]

Fresh(step) == [step |-> step, urls |-> {}, found |-> <<>>, acknowledged |-> {}]

ServiceTypeOK ==
    /\ TypeOK
    /\ server \in {"down", "booting", "serving"}
    /\ load \in [Load -> LoadState]
    /\ crashes \in 0 .. MaxCrashes

ServiceInit ==
    /\ Init
    /\ server = "down"
    /\ load = [l \in Load |-> Fresh("idle")]
    /\ crashes = 0

-----------------------------------------------------------------------------
(* The handlers of Publish run while the process serves.                     *)

ServePublish(r) == server = "serving" /\ Serve(r) /\ UNCHANGED serviceVars

StorageStep == StorageCatchesUp /\ UNCHANGED serviceVars

\* What Publish leaves alone when the index is loaded.
PublishersWait ==
    UNCHANGED <<mode, reservedVersions, reservedNames, requestVars, storageVars>>

-----------------------------------------------------------------------------
(* ListManifests, then Build.                                                *)

Created == {VersionKey(pkg[r]) : r \in {s \in Request : status[s] = CreatedStatus}}

\* HandleRefresh: a bearer token is required.
StartRefresh(l) ==
    /\ server = "serving"
    /\ load[l].step = "idle"
    /\ \E step \in {"list", "failed"} : load' = [load EXCEPT ![l] = Fresh(step)]
    /\ PublishersWait
    /\ UNCHANGED <<entries, server, crashes>>

\* run: a process starts and reads the repository before anything else.
StartServer ==
    /\ server = "down"
    /\ server' = "booting"
    /\ load' = [load EXCEPT ![Boot] = Fresh("list")]
    /\ PublishersWait
    /\ UNCHANGED <<entries, crashes>>

\* executeListAction: the query names the manifests stored at this moment.
ListUrls(l) ==
    /\ load[l].step = "list"
    /\ load' = [load EXCEPT ![l] =
           [step |-> "fetch",
            urls |-> {d \in Dir : manifests[d] # Nil},
            found |-> <<>>,
            acknowledged |-> Created]]
    /\ PublishersWait
    /\ UNCHANGED <<entries, server, crashes>>

\* fetchManifest: one GET per URL, each reading what is stored by then.
Fetched(d) == [name |-> d[1], id |-> d[2], version |-> d[3], digest |-> manifests[d]]

\* Mutant: a manifest that cannot be read is left out of the load.
FetchManifestSkips(l) ==
    /\ load[l].step = "fetch"
    /\ \E d \in load[l].urls, kept \in BOOLEAN :
           load' = [load EXCEPT ![l].urls = @ \ {d},
                                ![l].found = IF kept THEN Append(@, Fetched(d)) ELSE @]
    /\ PublishersWait
    /\ UNCHANGED <<entries, server, crashes>>

FetchManifest(l) ==
    /\ load[l].step = "fetch"
    /\ \E d \in load[l].urls :
           load' = [load EXCEPT ![l].urls = @ \ {d},
                                ![l].found = Append(@, Fetched(d))]
    /\ PublishersWait
    /\ UNCHANGED <<entries, server, crashes>>

\* Mutant: a failed refresh starts over.
LoadFailsRetries(l) ==
    /\ \/ load[l].step = "list"
       \/ load[l].step = "fetch" /\ (load[l].urls # {} \/ l = Boot)
    /\ load' = [load EXCEPT ![l] = Fresh(IF l = Boot THEN "idle" ELSE "list")]
    /\ server' = IF l = Boot THEN "down" ELSE server
    /\ PublishersWait
    /\ UNCHANGED <<entries, crashes>>

\* Any request of the load fails, or a starting process cannot listen: a refresh
\* answers 502 and leaves the index alone, a starting process exits.
LoadFails(l) ==
    /\ \/ load[l].step = "list"
       \/ load[l].step = "fetch" /\ (load[l].urls # {} \/ l = Boot)
    /\ load' = [load EXCEPT ![l] = Fresh(IF l = Boot THEN "idle" ELSE "failed")]
    /\ server' = IF l = Boot THEN "down" ELSE server
    /\ PublishersWait
    /\ UNCHANGED <<entries, crashes>>

\* Mutant: the old index is not cleared first.
BuildExtends(l) ==
    /\ load[l].step = "fetch"
    /\ load[l].urls = {}
    /\ entries' = entries \o load[l].found
    /\ load' = [load EXCEPT ![l] = Fresh(IF l = Boot THEN "idle" ELSE "done")]
    /\ server' = "serving"
    /\ PublishersWait
    /\ UNCHANGED crashes

\* idx.Build replaces the index; a starting process then begins to listen.
Build(l) ==
    /\ load[l].step = "fetch"
    /\ load[l].urls = {}
    /\ entries' = load[l].found
    /\ load' = [load EXCEPT ![l] = Fresh(IF l = Boot THEN "idle" ELSE "done")]
    /\ server' = "serving"
    /\ PublishersWait
    /\ UNCHANGED crashes

-----------------------------------------------------------------------------
(* The process is killed: the index, the reservations and every request it   *)
(* was working on are gone, and a PUT that was on its way may still arrive.  *)

Kill ==
    /\ server # "down"
    /\ crashes < MaxCrashes
    /\ crashes' = crashes + 1
    /\ server' = "down"
    /\ entries' = <<>>
    /\ reservedVersions' = {}
    /\ reservedNames' = [k \in NameKeys |-> Nil]
    /\ pc' = [r \in Request |-> IF pc[r] = "receive" THEN "receive" ELSE "done"]
    /\ \E sent \in SUBSET {NextPut(r) : r \in {s \in Request : Uploading(s)}} :
           /\ Cardinality(late \cup sent) <= MaxLate
           /\ late' = late \cup sent
    /\ load' = [l \in Load |->
           IF l = Boot THEN Fresh("idle")
           ELSE IF load[l].step \in {"list", "fetch"} THEN Fresh("failed") ELSE load[l]]
    /\ UNCHANGED <<mode, pkg, status, archives, manifests>>

-----------------------------------------------------------------------------

LoadStep(l) == ListUrls(l) \/ FetchManifest(l) \/ LoadFails(l) \/ Build(l)

\* All requests are over and storage is quiet: the bounded run ends here.
AllOver ==
    /\ server = "serving"
    /\ AllServed
    /\ \A l \in Refresh : load[l].step \in {"done", "failed"}
    /\ UNCHANGED serviceVars

ServiceNext ==
    \/ \E r \in Request : ServePublish(r)
    \/ StorageStep
    \/ StartServer
    \/ \E l \in Refresh : StartRefresh(l)
    \/ \E l \in Load : LoadStep(l)
    \/ Kill
    \/ AllOver

\* Handlers keep running, a load's HTTP client times out, and whoever runs the
\* server starts it again.  Kills and storage owe nothing.
ServiceFairness ==
    /\ \A r \in Request : WF_allVars(ServePublish(r))
    /\ \A l \in Load : WF_allVars(LoadStep(l))
    /\ WF_allVars(StartServer)

ServiceSpec == ServiceInit /\ [][ServiceNext]_allVars /\ ServiceFairness

-----------------------------------------------------------------------------
(* Safety.                                                                   *)

\* What the index lists is stored, whichever loads, publishes and kills built
\* it, and carries the digest of some submission of that package.
ListedIsGenuine ==
    \A m \in Range(entries) :
        /\ Published(m)
        /\ \E r \in Request : pkg[r] = m

\* Acknowledged work survives: whatever was answered 201 before the listing was
\* taken is in the index that listing builds, at startup after a kill and after
\* a refresh (refresh.go:36-44, main.go:52-58).
LoadKeepsAcknowledged ==
    [][\A l \in Load : Build(l) =>
           \A key \in load[l].acknowledged : Exists(entries', key[1], key[2])]_allVars

\* A request that can no longer publish: its version is listed and it has not
\* passed idx.Exists.
TooLate(r) ==
    /\ Exists(entries, pkg[r].id, pkg[r].version)
    /\ pc[r] \in {"receive", "checkName", "reserveName", "checkVersion",
                  "releaseName", "done"}
    /\ status[r] # CreatedStatus

\* A request that is too late stays so, whatever other publishes and refreshes
\* do, with two exceptions: the process is killed, or a load replaces the index
\* whose listing was taken before the version was acknowledged (refresh.go:44,
\* which then lets the request past publish.go:144).  That is what a client
\* meets that retries a publish it got no answer to.
LaterPublishRefused ==
    [][\A r \in Request : TooLate(r) =>
           \/ TooLate(r)'
           \/ Kill
           \/ \E l \in Load : Build(l) /\ VersionKey(pkg[r]) \notin load[l].acknowledged]_allVars

\* The index agrees with storage, entry for entry.
InStep ==
    /\ \A d \in Dir : manifests[d] # Nil => Fetched(d) \in Range(entries)
    /\ Len(entries) = Cardinality({d \in Dir : manifests[d] # Nil})

\* A refresh that starts once publishing is over, with no older load under way,
\* repairs whatever the index had lost or duplicated, for good
\* (refresh.go:36-44, index.go:36-68).
RefreshRepairs ==
    \A l \in Refresh :
        [](/\ \A r \in Request : pc[r] = "done"
           /\ late = {}
           /\ load[l].step = "list"
           /\ \A k \in Load \ {l} : load[k].step # "fetch"
           => [](load[l].step = "done" /\ server = "serving" => InStep))

\* The service is a ledger: what is stored and what is acknowledged only grows,
\* the second within the first, and each load shows the repository of one
\* instant, however publishes, loads and kills interleave (publish.go:57-173,
\* source.go:64-85, refresh.go:36-53, main.go:52-58).
Stored == {d \in Dir : manifests[d] # Nil}
Acknowledged == {VersionDir(pkg[r]) : r \in {s \in Request : status[s] = CreatedStatus}}
Listed == {VersionDir(m) : m \in Range(entries)}
Pictured(l) == load[l].urls \cup {VersionDir(m) : m \in Range(load[l].found)}
Pictures == [l \in Load |-> IF load[l].step = "fetch" THEN {Pictured(l)} ELSE {}]

Books == INSTANCE Ledger WITH
    Package <- Dir, Reader <- Load,
    stored <- Stored, acknowledged <- Acknowledged, listed <- Listed,
    pictures <- Pictures

IsLedger == Books!Spec

(* Liveness.                                                                 *)

\* No publish and no load is left hanging, however storage answers or fails to
\* (source.go:64-85, publish.go:57-173).
WorkEnds ==
    /\ \A r \in Request : pc[r] \notin {"receive", "done"} ~> pc[r] = "done"
    /\ \A l \in Load :
           load[l].step \in {"list", "fetch"} ~> load[l].step \in {"idle", "done", "failed"}

-----------------------------------------------------------------------------
(* What the documents say and the interleavings break.                       *)

\* "Upon receiving a 201 response, the published package MUST be immediately
\* discoverable" (API specification, Immediate Visibility).
ImmediateVisibility ==
    server = "serving" =>
        \A r \in Request :
            status[r] = CreatedStatus => Exists(entries, pkg[r].id, pkg[r].version)

\* "A publish either fully succeeds or has no observable effect" (API
\* specification, Atomicity): every listed package has a request for it that
\* was not answered with a failure.
FailureHasNoEffect ==
    \A m \in Range(entries) :
        \E r \in Request : pkg[r] = m /\ status[r] # BadGateway

=============================================================================
