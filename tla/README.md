# Verification of the MATLAB package repository service

TLA+ models, model-checking runs and machine-checked proofs for the Go server
under `artifactory-server/`: a stateless front end that lists MATLAB packages
kept in Artifactory, answers queries from an in-memory index and publishes new
packages; and for the performance test that seeds and measures it. Paths below
are relative to `artifactory-server/`; `publish.go` and the other handlers are in
`internal/handler/`.

## 1. Inventory

| Component | Code | State | Operations |
|---|---|---|---|
| Publish handler | `publish.go` | one goroutine per request | check the name, reserve it, check the version, reserve it, upload, add to the index, answer, release both |
| Reservations | `publish.go` | `reservedNames` (folded name to UUID), `reservedVersions` (`uuid:version`), two `sync.Map`s | `LoadOrStore`, `Delete` |
| Package index | `internal/index/index.go` | `all`, `byUUID`, `byName`, `builtAt`, an `RWMutex` | `Build`, `Add`, four queries, `NameConflict`, `Exists` |
| Query handlers | `query.go` | none | `index.json`, `by-uuid`, `by-name` |
| Refresh handler | `refresh.go` | none | list and fetch all manifests, then `Build` |
| Manifest source | `internal/backend/source.go` | none | one AQL query, one GET per manifest |
| Uploader | `internal/backend/uploader.go` | a temporary bundle | one PUT (atomic) or two (two-step) |
| Artifactory | external | objects by path | store a PUT, list manifests, serve one |
| Server process | `cmd/mpm-repo-server/main.go` | running or not | load the index, listen, exit |
| Router and middleware | `handler.go`, `middleware.go`, `readyz.go` | `ready` (always true) | required headers, request id, recovery, log |
| Configuration | `internal/config/config.go` | read once | defaults, file, environment, validation |
| Actions file | `internal/backend/actions.go`, `actions/artifactory.json` | read once | placeholders, trimming, check of the base URL |
| Manifests | `internal/domain`, `internal/publish` | none | extract `mpackage.json`, build, validate, decode a manifest |
| Performance seeder | `perf-test/seed.go` | a channel of numbers, workers, two counters | publish the packages of one scale |
| Performance orchestrator | `perf-test/cmd/orchestrator/main.go` | containers, credentials, a server process, files | start everything, seed and measure at each scale, clean up |
| Benchmark tests | `perf-test/*_test.go` | results | requests to the server |

How they interact. `net/http` runs a goroutine per request; the goroutines
share the index (through its lock) and the two reservation maps (each call
atomic), and all of them, with every other process using the repository, share
Artifactory. Nothing in `HandlePublish` holds a lock from one step to the next,
so the steps of different publishes, refreshes and queries interleave freely.
The process keeps nothing on disk: at startup the index is what Artifactory
lists, and a refresh replaces it by what Artifactory lists then.

What is hard here:

* two checks (`NameConflict`, `Exists`) whose answers are used after a separate
  reservation step;
* a reservation that several requests may share and the first to end deletes;
* a publish made of two PUTs, each of which may be rejected, or lost and
  applied later;
* a load of the index that takes many requests, while publishes change both
  storage and the index it will replace;
* a process that may die between any two of these steps;
* an index of four fields changed one after the other under a lock, and a
  handler that takes that lock twice for one response;
* a load that fails as a whole when one object fails, templates expanded in an
  order Go leaves open, and limits that decide at one byte;
* a benchmark run whose every step can fail, which shares a port and a
  repository with whatever an earlier, interrupted run left behind.

`PROJECT.json` lists these hazards at their lines, with the properties for each
and those no property covers yet.

What makes each component correct:

* reservations: exclusive while an upload runs, and given back however the
  request ends;
* storage: no manifest without its archive, nor beside the archive of another
  build unless an upload failed or is unfinished;
* index: lists only what is stored, lists what was acknowledged, and its maps
  agree with its list;
* publish: a refusal has a reason; a version that is listed stays published
  once; every request ends;
* loads: lose nothing that was acknowledged before they listed, and repair the
  index once publishing rests; one alone yields exactly what the repository
  holds, within the limits, or nothing;
* configuration: the mode the operator named or none, and a server set up well
  comes up;
* performance test: every query benchmark is measured on this run's server at the
  scale it says, and a run cleans up after itself, as far as the calls whose
  errors it ignores succeed. (The startup test times a server of its own. The
  publish and soak tests run at the last scale, but the publish test adds
  packages, so the soak is not at a scale it says.)
* responses: a query sees one state of the index.

## 2. Modules

| Module | Models | Composes |
|---|---|---|
| `Manifests` | a manifest reduced to name, UUID, version and archive digest; the keys and the storage directory derived from it; `NameConflict` and `Exists` as questions about a list | |
| `Storage` | Artifactory as the uploader and the source use it, and the PUTs the uploader sends | `Manifests` |
| `Publish` | `HandlePublish` for any set of concurrent requests, both publish modes | `Storage` |
| `PublishProofs` | theorems about `Publish` | `Publish` |
| `Ledger` | abstract: what is stored, acknowledged and listed, and the picture each load took | |
| `RepoService` | publishes, refreshes, startup, kills and restarts | `Publish`; implements `Ledger` |
| `RepoServiceProofs` | theorems about `RepoService` | `RepoService`, lemmas of `PublishProofs` |
| `IndexCalls` | the calls on the index, and which handler makes which calls in which order | `Manifests` |
| `Catalog` | abstract: the index as a list whose every call is one step | `IndexCalls` |
| `PackageIndex` | `index.go` down to the lock and the single field | `IndexCalls`; implements `Catalog` |
| `PackageIndexProofs` | theorems about `PackageIndex` | `PackageIndex` |
| `CatalogProofs` | the refinement of `Catalog` by `PackageIndex`, as a theorem | `PackageIndexProofs` |
| `Admission` | one request from the router to its answer: headers, token, the checks before the first reservation, temporary files, panics | |
| `AdmissionProofs` | theorems about `Admission` | `Admission` |
| `ServerConfig` | `config.Load` and `LoadActions` as operators | |
| `Source` | one load: credential, templates, limits, decoding, as operators | `ServerConfig` |
| `SourceProofs` | theorems about the operators of `Source` and `ServerConfig` | `Source` |
| `Startup` | a process from its start to its answers, loads one at a time | `Source` |
| `StartupProofs` | theorems about `Startup` | `Startup`, `SourceProofs` |
| `Seeder` | the seeder's channel, workers and counters | |
| `Orchestrator` | benchmark runs, and the servers they start | `Seeder` |
| `OrchestratorProofs` | theorems about `Orchestrator` | `Orchestrator` |
| `MCPublish`, `MCRepoService`, `MCPackageIndex`, `MCStartup`, `MCOrchestrator` | finite instances | |

### Publish

`pc[r]` is where request `r`'s goroutine is. Each step that touches shared
state is one action, and its two outcomes are the code's two branches:

| Action | Code |
|---|---|
| `Receive`, `Refuse` | everything up to the manifest, `publish.go:59-127`; nothing shared is touched |
| `CheckName` | `idx.NameConflict`, 129-134 |
| `ReserveName` | 136-141 with `reserveName`, 44-51 |
| `CheckVersion` | `idx.Exists`, 144-148; on 409 the deferred `releaseName` runs |
| `ReserveVersion` | 150-154 |
| `PutAccepted`, `PutRejected`, `PutConflict`, `PutLost` | `uploader.Publish`, one PUT at a time, and 157-166 |
| `Add`, `Respond` | 168-171 |
| `ReleaseVersion`, `ReleaseName` | the deferred calls, last in first out |

An index call is one critical section of the index's lock, so here the index is
just the sequence `entries`; `PackageIndex` justifies that. `mode` is the
publish mode, fixed for a run and open in `Init`.

`PutLost` is the timeout of `http.Client`: the request goes on as after an
error, and the PUT joins `late`, from where Artifactory may apply it at any
later time or never. `PutConflict` exists in atomic mode only, since
`publishAtomic` alone treats a 409 apart; whether Artifactory accepts or
refuses a bundle for an occupied directory depends on the caller's permissions,
so both can happen. Temporary files and the checks before the manifest are in
`Admission`.

### RepoService

Adds `server` (down, booting, serving) and one record per load of the index:
the refresh requests and the one at startup. A load lists the directories that
hold a manifest (`ListUrls`), fetches them one at a time in any order, each with
the contents of that moment (`FetchManifest`), and replaces the index
(`Build`). Any of its requests may fail (`LoadFails`): a refresh then leaves the
index alone, a starting process exits, as it does when it cannot listen. `Kill` takes the process at any step:
index and reservations are gone, requests it worked on are over without an
answer, and a PUT on its way may still arrive. `acknowledged` in a load's record
is read by a property only.

`Ledger` says the same in sets of packages: storing, listing and acknowledging
are one step each, storage and acknowledgements only grow, and a load is a
picture of the repository taken at one instant (its listing) and shown at
another (`Build`), or given up. `IsLedger` maps the service to it. A load's
picture is what it has still to fetch and what it has fetched, so that each
fetch is a stutter of the ledger: the point of the refinement is that fetching
one manifest at a time, while publishes go on, changes nothing in the picture.

### Admission

`Publish` starts where a request's manifest is known. `Admission` is what comes
before, and what surrounds it: `Route` (`handler.go:19-47`), `RequireHeaders`
(`middleware.go:16-28`), `RequireToken` (the first lines of `HandlePublish` and
`HandleRefresh`), then the checks in the code's order, each an instance of
`Check` with the faults it looks for: `ParseForm`, `FormFile`, `FileName`,
`CreateTemp`, `Copy`, `ExtractMPackage`, `BuildManifest` (`publish.go:65-127`).
`message` is the step whose answer the client was sent, which stands for the
text and tells answers with one status apart.
`Reserve` stands for the steps of `Publish`; `CreateBundle`, `FillBundle` and
`Upload` are the uploader as far as its bundle file and token are concerned.
`Panic` may strike at any stage; `Return` runs the deferred calls and `Recover`
is `RecoveryMiddleware`. Requests share nothing here, so one stands for all.

### ServerConfig, Source, Startup

`RepoService` lets any request of a load fail; `Startup` says when it does.
`setup` is what the operator provides: the two files and the environment. URLs,
keys and templates are sequences of tokens, so that trimming slashes, replacing
placeholders and joining by slashes are what the code does to them. Nobody
escapes a name on its way into a URL, and `http.NewRequest` reads the text as a
URL: `Requested` cuts it off at the first `?` or `#` and decodes its escapes
(`Escapes` says which tokens are escapes, and of what), and `Parses` refuses a
`%` that starts none. So an object can be asked for under an address that is not
its own, or not at all; `Literal` texts are those to which this cannot happen.

| Operator or action | Code |
|---|---|
| `Settings`, `Valid` | `config.go:90-146`: defaults, the file over them, `PORT` and `PUBLISH_MODE` over both |
| `LoadActions`, `ActionsLoad` | `actions.go:44-109` |
| `Expansions` | `expandTemplate`, `source.go:178-184`: one result for each order of the keys |
| `Credential`, `CanAuthorize` | `setAuth`, `applyAuth` |
| `BytesRead`, `TooLarge` | `io.LimitReader` at the limit plus one, and the comparison after it |
| `DependenciesOf`, `DependenciesDecode` | `Dependencies.UnmarshalJSON`, `manifest.go:39-67` |
| `Parses`, `Requested`, `Reaches` | `http.NewRequest` on the expanded text, `source.go:130` |
| `ReadConfig`, `RefuseConfig`, `ListAtStart`, `ListFails`, `Build`, `Exit` | `main.go:29-99` |
| `CanListen`, `ListenFails` | `srv.ListenAndServe`, `main.go:98`: the port is free (`portFree`) and the address is one of the machine's (`Addresses`), or the process exits |
| `List`, `FetchManifest`, `FetchFails` | `ListManifests`, `source.go:64-188` |
| `StartRefresh`, `RefuseRefresh` | `refresh.go:27-53` with the caller's token |
| `Change` | others write to the repository; the link fails and comes back; others take and leave the port |

A load here is one at a time, with no publish beside it; the overlap is
`RepoService`'s subject.

What the modules assume of an instance, and TLC evaluates on the `startup` run:
template keys differ and are no other text (`KeysAssumption`); the repository's
own addresses are literal and not empty, begin and end without a slash and hold
no key (`AddressAssumption`); what the templates add to them is literal
(`EscapesAssumption`); objects have an address each, and a manifest's author
writes its dependencies in one of the ways there are (`ItemsAssumption`); the
actions file is the shipped one, and the operator's addresses are any literal
texts without a key in them (`ShippedAssumption`); no caller is called like the process
(`CallersAssumption`). Objects whose *names* hold a key, or mean something in a URL, are allowed:
`PlainName` tells them apart where a property needs it.

### Seeder, Orchestrator

`pc` is the step `run` is at, named after the call. A failing step goes to
`"stop"`, the first of cleanup's: `fatal` panics and the deferred function
recovers and cleans up. `own` is `serverCmd`, `port` who listens on 8080, which
is not the same: a server exits when the port is taken, or dies, and
`waitForServerHealthy` and the tests ask whoever is there. `containers`,
`password`, `stored`, `files` and `port` outlive a run. `Interrupt` ends a run
without its cleanup, perhaps leaving its server on the port as an `"other"`; the
seeder's workers end with it (`SeederGone`, also when `go run` fails by itself:
`SeedingFails`). `Begin` is the next run, with the `docker compose down -v` whose
failure nobody looks at. `PortTaken` and `PortFreed` are processes of others.

Four things may outlast even a run that cleans up, and `failed` records when the
call that should have seen to it did not: each of the files, since `os.Remove` may
refuse (`Cleanup`); the containers; and the server of a
`TestPerfStartupIndexing` that failed, `"test"` on the port, which `cleanup`
does not know of (`BenchmarkStartup`). `ChangePassword` may change the password
behind a 502 or 503, or behind a fatal answer: then every further attempt fails on
the old password until the attempts run out, and the run ends and cleans up.
`portClear` is the condition under which a benchmark can be said to measure
anything: no process of others has listened on the port since the run began.

`Seeder` has the closed channel (`work`), the workers and their counters. A
package is its number. What the server does with a publish is reduced to what
`Publish` promises of one request: a 201 means stored and listed, anything else
leaves both open. `ServerListens` loads what is stored; `measured` records each
query benchmark with the scale it claims, who answered and how many packages
that server lists.

### PackageIndex

Each goroutine runs a *program*, one of the call sequences `IndexCalls` takes
from the handlers: `index.json` is `QueryAll` then `BuiltAt`, a publish is
`NameConflict` then `Exists`, and so on. `Lock`, `Enter` and `RLock` are
`sync.RWMutex`: an announced writer keeps new readers out and waits for the
present ones. `BuildList` or `AddToList` changes the list, `File` files one
manifest in both maps, `Unlock` stamps (in `Add`) and unlocks. A query reads its
answer and unlocks in one step, which the lock permits and `WriterAlone`, a
theorem, justifies. `past` is a history variable: every list the index has been. The build
stamp is a position in it, so that the stamp of a list tells when it was
current.

`Catalog` is what the callers rely on: the list changes and a query is answered
at one instant each. `IsCatalog` maps the detailed index to it. An update takes
effect where the list changes (its reply counts as given while its manifests
are filed), a query where it reads. An answer is a `Sublist`, the entries at
given places in their order; `SublistIsSelectSeq`, evaluated in the `index` run,
says that this is the `SelectSeq` a reader would expect. The proofs need the
former, which is no recursive definition. `Catalog!SafeSpec` is its safety part.

## 3. Runs

| Run | Configuration | Instance | Shows |
|---|---|---|---|
| `publish` | `Publish.cfg` | 3 requests over 5 submissions, both modes, 1 late PUT | the safety properties of publishing |
| `service` | `RepoService.cfg` | publishes, refreshes and one kill, both modes | no load loses acknowledged work, the index lists only genuine packages, what is listed is not published again by later requests, the refinement of `Ledger` |
| `service_live` | `ServiceLive.cfg` | 2 publishes, 2 refreshes, two-step mode, no kill | a refresh on its own repairs the index, all work ends |
| `index` | `PackageIndex.cfg` | 3 goroutines, each with any of 8 programs | the maps, that calls return, and the refinement of `Catalog` |
| `admission` | `Admission.cfg` | every route, mode, authorization and set of upload faults, a panic anywhere | answers, upstream tokens and temporary files of a single request |
| `startup` | `Startup.cfg` | a good setup with 11 repositories, 37 setups that differ from it in one thing, 1 change | what loads yield, what keeps a server from coming up, in which mode it publishes |
| `perf` | `Orchestrator.cfg` | scales 1, 3, 3, two workers, two runs | what benchmarks measure, what a run leaves behind, that it ends |

The properties, and what each would catch:

* `VersionExclusion`: two uploads of one version at once.
* `UploadsDoNotMix`: the archive of one successful publish beside the manifest of
  another, which the metadata specification rules out (line 409: `digests` are
  those of the archive). The code does not rule it out altogether: in two-step
  mode an archive that was given up may be stored after a later build was
  published, or a failed second upload may have replaced the archive already.
  The property says that nothing else leads there: one of the two objects is of
  an upload that failed, or is between its two PUTs.
* `NameHeldByOneUuid`: two UUIDs at work on one folded name, other than by the
  one way the code leaves open, a reservation two requests of one UUID share and
  the first to end deletes. The comment at `publish.go:138` knows no exception.
* `NoStrayReservation`: a reservation nobody will release, after any return path
  or a kill.
* `ManifestHasArchive`: a manifest visible before its archive, with any PUT
  failing, lost or late.
* `ListedIsStored`, `CreatedIsListed`, `OneEntryPerPublish`: index, storage and
  answers drifting apart.
* `IsLedger`: storage or an acknowledgement that shrinks, an index that mixes two
  states of the repository, a load that ends with anything but its picture.
* `ConflictHasRival`: a 409 nobody can explain.
* `LaterPublishRefused`: the race that lets a version be published twice
  (`version_once` below) is limited to requests already under way; a request
  that arrives when the version is listed never publishes it, with two
  exceptions: a kill, and a load whose listing is older than the version's 201,
  which takes it off the index (`visibility` below) and so lets the request past
  `Exists`. A two-step PUT then overwrites, against the API specification's
  Immutability (line 524).
* `WorkEnds`, `EveryCallReturns`: a request, load or call that never ends, and a
  reservation with it.
* `ListedIsGenuine`: something in the index that nobody submitted or storage
  lacks, however loads, publishes and kills interleave.
* `LoadKeepsAcknowledged`: a package that was answered 201 before the listing and
  is missing from the index built from it, after a restart too.
* `RefreshRepairs`: what races leave behind in the index (lost or double
  entries) is gone after one refresh that runs alone.
* `MapsAgree`, `IsCatalog`: a reader that sees an update half
  done; a key without entries, which would turn a 404 into an empty 200.
* `AnswerFitsRequest`: checks in the wrong order or with the wrong status, an
  upload stored without validation; the answer is that of the first check the
  request fails.
* `UnauthenticatedDoesNothing`: a route without its wrapper, work before the
  token is looked at.
* `CallerTokenOnly`: a refresh with the server's own token, which a source falls
  back to when it is given none.
* `OnlyFailedBundleStays`, `RequestEnds`: a return path or panic that leaves the
  upload on disk or the client without an answer. `createBundle` does leave its
  bundle behind when it cannot fill it (`uploader.go:162-197` return no name to
  remove); the property says that this is the only file that stays, and that it
  always does.
* `IndexIsExact`: a manifest left out, added or taken from another object's URL,
  by slashes in the settings, by the order of template keys, by a limit.
* `WithinLimits`: a body cut off at the limit whose JSON happens to end before.
* `PublishOnlyWhenAsked`: a misspelt mode that opens the publish route.
* `DependenciesSurvive`: a map of dependencies taken for a single one because a
  package in it is called `name`.
* `OneBadManifestBlocks`: says, for operators, that one object that cannot be
  had blocks every load; a loop that skipped it would serve a partial index.
* `StartsWhenGood`: a setup the documentation allows with which no server comes
  up, or does not stay up, although Artifactory answers, every object can be had
  and nobody else has the port.
* `SeedExact`, `AtScale`: a seeder that loses count, an offset that collides or
  leaves a gap, a benchmark on top of what another run left.
* `OwnServer`: a stopped server that still answers for its successor.
* `CleansUp`, `RunEnds`: a failure that skips the cleanup, a retry without end.
  `perf-test/README.md` promises that a run cleans up after itself (:5), that
  credentials are deleted (:23) and that the server is stopped (:72); the
  exceptions are those of `failed`, above.

Five runs show the code doing what a document, comment or test says it does not:

| Run | Property | What happens |
|---|---|---|
| `stale_list` | `ListIsStamped` | an `Add` between the two halves of `index.json` gives the list without the package the stamp of its publish |
| `name_owner` | `NameHasOneOwner` | another UUID's publish completes between `NameConflict` and `reserveName` |
| `version_once` | `VersionPublishedOnce` | the same race on the version; two-step PUTs overwrite |
| `visibility` | `ImmediateVisibility` | a refresh installs a listing older than a publish answered 201 |
| `atomicity` | `FailureHasNoEffect` | an atomic PUT whose answer is lost is reported as failed and stored all the same |

### Bounds

* `Admission` has no bound: its state space is finite and checked whole.
* Requests: three are needed for the shared reservation (two of one UUID and a
  rival), two for the other races. Properties about pairs of requests see every
  pair with a third interfering.
* Submissions: two UUIDs under one folded name, two builds of one version, a
  recased second version, a package renamed under its UUID. They realise every
  outcome of the comparisons in `publish.go` and `index.go`: same or different
  UUID, version, folded name and spelling.
* `MaxLate`: PUTs given up and not yet applied, one at a time, which is enough
  for a late PUT to meet a finished publish or a load. The proofs have no bound.
* `MaxCrashes`: one kill, at any step; a kill resets the process to its initial
  state, so a second one starts from states the first has covered but for
  storage's history.
* Symmetry: requests, and refreshes, are interchangeable; only runs without
  temporal properties beyond action properties use it.
* `PackageIndex`: two UUIDs, two folded names, a build of two manifests and an
  empty build; three goroutines give a writer, a waiting writer and a reader.
* `Startup`: limits of four bytes and bodies of three to five, listings up to
  two items long where the limit bites; every setup differs from the good one in
  one thing, so what it causes is due to that. One object of each kind (each
  form of dependencies, too large, broken, without id, with a template key in its
  name and the object its URL can become; with an escape, a `?`, a `#` and a lone
  `%` in its path or name). `MaxChanges` is 1: a change, the port's
  included, meets every step of a load and the loads after it.
* `Orchestrator`: scales 1, 3 and 3 have a seeding from nothing, one on top of
  another, and one with nothing to seed; two workers race for the channel;
  `MaxAttempts` 2 has a retry and its end; `MaxRuns` 2 lets a run meet what one
  that was killed or could not clean up left behind.
* `CHECK_DEADLOCK FALSE` stands in the `index` configurations only: goroutines
  run out of calls. The other specifications end in an explicit stutter
  (`AllServed`, `AllOver`, `Rest`) or never run out of steps, so deadlock is
  checked.

### Fairness

Weak fairness for each request's, load's and goroutine's next step: Go's
scheduler runs whatever can run, and `http.Client.Timeout` (validated positive
in `config.go`) ends every exchange with Artifactory, so a goroutine always
has a step to take. `StartServer` is fair: a process that went down is started
again by whoever operates it. Nothing is assumed of Artifactory (`late` PUTs may
stay late) or of kills. In `PackageIndex` a goroutine may be overtaken at the
lock only by finitely many calls, so weak fairness suffices.

`Startup` has weak fairness for the process's own steps and for being started
again, none for `Change`. `Orchestrator` has it for the steps of a run and for
each worker. For a run this assumes that the commands it starts and the requests
it makes come back: the seeder's client has a timeout of 60 s, but the
orchestrator uses `http.Get` and `http.DefaultClient`, which have none, so
`RunEnds` is about the code's own loops, not about a peer that accepts a
connection and never answers.

## 4. Proofs

Every theorem holds for all values of the constants that satisfy the modules'
assumptions; each module's run evaluates those assumptions on its instance.

### Publish

`PublishProofs` proves, for every set of requests, submissions, modes and every
bound on late PUTs, all properties of the `publish` run. Assumptions: folding a
name twice is folding it once (`LowerAssumption`), `Nil` is no digest and no
UUID, submissions are manifests, modes are the two of the code.

The inductive invariant `IInv` adds to the properties what makes them hold step
by step:

* `VersionsHeld`: a request between `LoadOrStore` and `Delete` finds its key in
  the map; with `VersionExclusion` this makes a successful `LoadOrStore` mean
  nobody else is there.
* `NamesHeld`: the name reservation's owner is in flight under that UUID.
  A request may lose a reservation it shared, so the converse is not
  claimed; `NamesHeldByOneUuid` says when it fails.
* `ArchiveFirst`: a request about to send its manifest, and a late manifest PUT,
  have their archive stored. Objects are never deleted, so this survives every
  other step and yields `ManifestHasArchive`.
* `SuccessIsStored`, `CreatedAtEnd`: a request past its last PUT is published and
  one answered 201 has added its entry.

`EntriesCounted` needs `IInv` and one count: each step adds at most one request
to those that have added their entry, together with the entry. The set of
requests may be infinite, so the invariant carries that the counted ones are
finitely many.

`UploadsUnmixed` and `NamesHeldByOneUuid` follow from `IInv` step by step: an
upload that failed stays failed (`FailedStays`), so each PUT that brings two
builds together, or is lost and may do so later, leaves its witness; and a
request that released a shared name stays over (`ReleasedStays`).

### RepoService

There the index is replaced, so `IInv` does not carry over: after a refresh with
an old listing a request answered 201 need not be listed. What remains rests on
storage, which only grows. `SInv` says that every stored manifest has its
archive and was submitted, that late PUTs keep it so (`StorageSound`), that the
index and all loads under way know only stored packages (`ListsStored`), that
what was acknowledged at a listing is in the load's picture
(`AcknowledgedPictured`), and that a request past its last PUT is stored
(`SuccessStored`). From it follow the properties of the `service` run and
`ManifestHasArchive`, for any number of kills and loads.

`LaterPublishesRefused` holds of every step: a load keeps what was acknowledged
at its listing (`BuildLists`), so only a load that is older, or a kill, takes a
listed version off the index; all other steps leave a request that is too late
where it is (`TooLateIsStable`).

`ServiceIsLedger` shows the refinement step by step. Most steps are stutters or
map to one step of the ledger each; for a fetch the picture must be shown
unchanged, because the manifest fetched lies in the directory it was fetched
from (`FetchedDir`), and for a PUT, that it stores at most one package.

`RefreshesRepair` has an invariant of its own, `Repairing`, which holds from the
moment a refresh sets out on a quiet repository (no publish, no late PUT, no
older load). From there every load lists all there is (`ListsAll`): what it has
not to fetch any more it has found, once each, as a count of a finite set. The
run that checks `RefreshRepairs` has no kills; the theorem has any number, and a
restart's load is as good as the refresh's.

### PackageIndex

`PackageIndexProofs` proves `WriterAlone`, `MapsAgree` and the types for any
goroutines, programs and packages. The invariant says who holds the lock at
which step (`LockHeld`), and that maps and `rest`, the manifests still to be
filed, make up the list (`FilingProgress`); with nothing left to file the maps
are the list. `StampsNotOlder` assumes that a program of two calls one of which
is `QueryAll` is `HandleIndex`, as it is in the code, and follows `past`: the
list a handler read is at a position no later than the present stamp, and stamps
only grow. This is half of what a client expects; the list may be older than its
stamp, which `stale_list` shows.

### Catalog

`CatalogProofs` proves that `PackageIndex` implements `Catalog!SafeSpec` for any
goroutines, programs and packages: every call looks to its caller as if it had
been made alone. That the maps hold the right *sets* of entries is not enough
for this, since a listing has an order and a conflict is answered with the
first entry of a name. So `OrderedFiling` says that each map entry is the
sublist of the part of the list filed so far, by its UUID or its folded name.
Filing one more manifest appends it to one entry of each map and to the sublist
of one key (`SublistAppend`, `ListingAppend`). The places of a sublist are
numbered by their rank, so the induction needed is one over ranks (`RankReached`)
and none over lists.
`MapsKeepTheOrder` is what this says of an index at rest, and stronger than
`MapsAgree`. In the refinement every step of a goroutine is a stutter but the
one that changes the list and the one that reads an answer.

### Admission

`AdmissionProofs` proves every safety property of the `admission` run. The run
is exhaustive, so the theorems add no instances; what they add is the reason. The
properties speak of final states, and the invariant says at each stage what the
stages before it have established: who may be there (`Admitted`), which faults
the upload cannot have any more (`Checked`), which files exist (`FilesByStage`),
and that there is no answer before the handler returns and one afterwards,
unless it panicked (`AnsweredOnce`, `AnswerFits`). `FirstFailure` is what the
order of the checks amounts to: at each stage every check before it has passed,
so an answer given there is the first failed check's. What files a request
leaves is `FilesByStage` at the last stage; that a bundle stays, when it could
not be filled, is the code's own behaviour.

### Source

`SourceProofs` is about the pure part of a load, for texts of any length:

* `ListURLsOne`, `ItemURLsOne`: however the keys of a template are ordered, the
  shipped templates expand to one listing URL, and to one object URL for a name
  without a template key. A replaced text may itself be searched for the next
  key, so the proof must show that no address and no plain name can take part in
  a replacement (`SubstituteAbsent`, `SubstituteCat`).
* `LiteralReaches`: a URL of literal text reaches the address that is its own
  text and no other, which is why nothing goes wrong for literal names although
  nobody escapes them.
* `TrimSlashes`: trimming gives back a text from any slashes around it.
* `DependenciesReadBack`: what an author wrote in any accepted form is what
  `UnmarshalJSON` reads.

`Substitute` and `Expansions` are recursive functions. That they are defined by
their equations at all (`FlattenDefined`, `ExpandsDefined`) needs an induction,
which is done over a set of numbers, as a fact about well-founded sets
(`SetOfAllNaturals`), since the library's induction theorem is out of reach.

### Startup

`StartupProofs` proves every safety property of the `startup` run, for any
environment, repository, number of changes and order of expansion, under the
assumptions of section 2. The invariant has three layers, each of which needs
those before it; TLC checked their conjunction on the run's instance before it
was proved.

* `Inv` needs none of the assumptions about templates. A loading process obeys a
  configuration that passed `Valid`: every mode but off enables the route and
  every enabled mode but atomic is served as two-step, so a misspelt mode is kept
  out by validation alone (`PublishesAsAsked`). Every manifest of a load or of
  the index is that of a sound object: within the limit, well-formed, with
  dependencies that decode. `FitsWithin`, reading up to one byte above the limit
  finds every body above it, gives `IndexWithinLimits`; `DependenciesReadBack`
  gives `DependenciesKept`.
* `Typed` adds the types and the shape of a load: the URLs still to fetch are
  those of the items still without a manifest, in their order (`IsLoad`).
* `Exact` says which object each manifest came from. `FromHere`: only the
  addresses that lead to this repository list anything, so a load with items has
  the right ones, and their URLs are the objects' own. `Fetched`: the manifest in
  place `n` is that of the object listed in place `n`, if its name is plain, and
  of one in the repository as long as that does not change. `Listed`: a load has
  all of it. Together at `Build` they give `IndexExact` (nothing missing, nothing
  foreign, nothing twice) and `BadManifestBlocks`.

### Orchestrator

`OrchestratorProofs` proves all safety properties of the `perf` run for any
scales, number of workers, retries and runs. The heart of the invariant is
`Repository`. A run ignores the failure of its first `docker compose down -v`,
so it may meet the containers of a run that was killed. But packages are only
there once the password is changed, and `changePassword` expects the default:
such a run fails before it seeds anything. So a run that gets past it starts on
an empty repository, and with `Levels` the repository holds exactly what has
been seeded. `SeederKept` accounts for every number: stored, in the channel or
with a worker, as sets and as counts. `PortKept` needs that nobody else has had the port since the
start and that `Wait` follows `Kill`, and with `ListingWhole` gives
`AtScale` and `OwnServer`. For `RunsCleanUp` the invariant follows what is left
through the steps of the cleanup: each is either gone or in `failed`.

### What TLC alone checks

Liveness: `WorkEnds`, `EveryCallReturns`, `RequestEnds`, `StartsWhenGood`,
`RunEnds`, and of `IsCatalog` the part that every call returns. Liveness under
fairness and `ENABLED` are outside the prover's reach. Every other property of
the passing runs is a theorem, and so is the rest of `IsCatalog`.

## 5. Not modelled

* Request ids, log lines, response bodies. `health-check` answers 200 from the
  first request on, since the process listens only after its load.
* Durations. A timeout may strike whenever an answer is awaited; `WriteTimeout`
  changes nothing in a handler, which never looks at its request's context.
* The manifest's other fields and the expressions `Validate` matches: a
  validation is one outcome.
* Other writers beside publishes: `Startup` has them, `RepoService` does not, and
  there manifests in storage are those the server wrote. Deletions likewise.
* The JSON syntax of the files, beyond what decides between success and failure.
* What a generated package of the seeder contains, and what the benchmark tests
  measure. The tests that publish run last and change no measurement that
  `measured` records.
* Requests of a seeder that failed or was killed which the server finishes later:
  their effect is taken to happen at once or not at all.
* Container and CI files.

Seen while modelling, without a run of its own:

* The API specification calls the name of `by-name` case-sensitive (line 367).
  The index folds it, as the tests expect and the same specification does where
  it speaks of conflicts (line 488); `Catalog` follows the code.
* A package whose path or name contains `?`, `#`, `%` or an escape is fetched from
  another address or fails the load (`source.go:130`); publishing refuses such
  names, other writers of the repository need not.
* A repository key of slashes alone trims to an empty one, which `LoadActions`
  accepts (only the base URL is checked); a wrong key, like an empty one, lists
  nothing, and the server comes up with an empty index. `MeansTheRepository`
  leaves such setups out.
* An object whose name contains a template key can be fetched from another
  object's address, depending on the order of a Go map (`source.go:180`).
* `waitForHealthy` looks for `HEALTHY` in the answer, which `UNHEALTHY` contains;
  later steps then fail or wait by themselves.
* With `-parallel=0` the seeder publishes nothing and exits 0. The orchestrator
  never passes that flag; `WorkersAssumption` excludes it.

## 6. Plan

Done: all modules of section 2, their runs, and the proof of every safety
property the passing runs check. Left:

1. The invariants of `Startup` without the assumption that the actions file has
   the shipped templates, for operators that write their own.
2. Deletion of packages, should the code grow it: `Ledger` would lose its first
   promise and the proofs of `RepoService` the ground they stand on.
3. `Startup` beside publishes, if a load should come to skip bad manifests.
