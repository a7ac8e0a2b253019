----------------------------- MODULE Admission -----------------------------
(***************************************************************************)
(* One HTTP request from the router to its answer: the middleware          *)
(* (internal/handler/middleware.go), the routes (handler.go), the checks   *)
(* HandlePublish makes before it reserves anything, the temporary files it *)
(* and the uploader leave or remove, and the token each call to            *)
(* Artifactory carries.  Publish models what happens between requests;     *)
(* until they reserve, requests share nothing, so one request stands for   *)
(* all.                                                                    *)
(***************************************************************************)
EXTENDS FiniteSets, Naturals

VARIABLES
    route,          \* what the request asks for
    mode,           \* PUBLISH_MODE
    hasHeaders,     \* whether it carries the headers the operator requires
    authorization,  \* its Authorization header
    faults,         \* what is wrong with its upload
    stage,          \* where its goroutine is
    status,         \* the status the client has been sent, or 0
    message,        \* the step whose answer that was
    panicked,       \* whether the handler panicked
    files,          \* its files in the temporary directory
    upstream        \* the tokens of the requests it made to Artifactory

request == <<route, mode, hasHeaders, authorization, faults>>
answer == <<status, message>>
vars == <<request, stage, answer, panicked, files, upstream>>

Routes == {"health", "query", "refresh", "publish"}

CallerToken == "caller"
ServiceToken == "service"
NoToken == ""

\* Header values: absent, another scheme, a bearer without a token, a token.
Authorizations ==
    [scheme : {"", "Basic"}, value : {NoToken}]
        \cup [scheme : {"Bearer"}, value : {NoToken, CallerToken}]

\* Grouped by the check that finds them: the form, its file field, the file
\* name, the archive, the manifest.
FormFaults == {"tooLarge", "badForm"}
FieldFaults == {"noFile"}
NameFaults == {"wrongExtension"}
ArchiveFaults == {"badZip", "noMPackage", "mpackageTooLarge", "badJson"}
ManifestFaults == {"badDependencies", "badId", "badName", "badVersion"}
Faults == UNION {FormFaults, FieldFaults, NameFaults, ArchiveFaults, ManifestFaults}

Stages == {"route", "headers", "token", "query", "refresh", "form", "field", "name",
           "tempFile", "copy", "archive", "manifest", "reserve", "createBundle",
           "fillBundle", "put", "return", "recover", "done"}

Silent == "silent"

TypeOK ==
    /\ route \in Routes
    /\ mode \in {"off", "atomic", "two-step"}
    /\ hasHeaders \in BOOLEAN
    /\ authorization \in Authorizations
    /\ faults \subseteq Faults
    /\ stage \in Stages
    /\ status \in {0, 200, 201, 400, 401, 404, 409, 413, 500, 502}
    /\ message \in Stages \cup {Silent}
    /\ panicked \in BOOLEAN
    /\ files \subseteq {"upload", "bundle"}
    /\ upstream \subseteq {CallerToken, ServiceToken, NoToken}

Init ==
    /\ route \in Routes
    /\ mode \in {"off", "atomic", "two-step"}
    /\ hasHeaders \in BOOLEAN
    /\ authorization \in Authorizations
    /\ faults \in IF route = "publish" THEN SUBSET Faults ELSE {{}}
    /\ stage = "route"
    /\ status = 0 /\ message = Silent
    /\ panicked = FALSE
    /\ files = {}
    /\ upstream = {}

-----------------------------------------------------------------------------

Goto(next) == stage' = next /\ UNCHANGED <<request, panicked>>

\* The first status written is the one the client gets, and says what is wrong.
Write(code) == IF status = 0 THEN status' = code /\ message' = stage
                             ELSE UNCHANGED answer
Answer(code) == Write(code) /\ Goto("return")

\* extractBearerToken.  Mutant: the prefix is not trimmed.
BearerTokenUntrimmed ==
    IF authorization.scheme = "Bearer" THEN "Bearer " ELSE NoToken
BearerToken ==
    IF authorization.scheme = "Bearer" THEN authorization.value ELSE NoToken

\* NewRouter: the health check has no middleware of its own, and a disabled
\* publish has no route.
Route ==
    /\ stage = "route"
    /\ \/ route = "health" /\ Answer(200)
       \/ route = "publish" /\ mode = "off" /\ Answer(404)
       \/ /\ route # "health" /\ ~(route = "publish" /\ mode = "off")
          /\ Goto("headers")
          /\ UNCHANGED answer
    /\ UNCHANGED <<files, upstream>>

\* Mutant: the publish route is not wrapped.
RequireHeadersButToPublish ==
    /\ stage = "headers"
    /\ \/ ~hasHeaders /\ route # "publish" /\ Answer(401)
       \/ /\ hasHeaders \/ route = "publish"
          /\ Goto(IF route = "query" THEN "query" ELSE "token")
          /\ UNCHANGED answer
    /\ UNCHANGED <<files, upstream>>

\* AuthMiddleware, around every route but the health check.
RequireHeaders ==
    /\ stage = "headers"
    /\ \/ ~hasHeaders /\ Answer(401)
       \/ /\ hasHeaders
          /\ Goto(IF route = "query" THEN "query" ELSE "token")
          /\ UNCHANGED answer
    /\ UNCHANGED <<files, upstream>>

\* Mutant: refresh does not insist on a token.
RequireTokenToPublish ==
    /\ stage = "token"
    /\ \/ route = "publish" /\ BearerToken = NoToken /\ Answer(401)
       \/ /\ route = "refresh" \/ BearerToken # NoToken
          /\ Goto(IF route = "publish" THEN "form" ELSE "refresh")
          /\ UNCHANGED answer
    /\ UNCHANGED <<files, upstream>>

\* The first thing HandlePublish and HandleRefresh do.
RequireToken ==
    /\ stage = "token"
    /\ \/ BearerToken = NoToken /\ Answer(401)
       \/ /\ BearerToken # NoToken
          /\ Goto(IF route = "publish" THEN "form" ELSE "refresh")
          /\ UNCHANGED answer
    /\ UNCHANGED <<files, upstream>>

\* HandleIndex, HandleByUUID, HandleByName
Query ==
    /\ stage = "query"
    /\ \E code \in {200, 404} : Answer(code)
    /\ UNCHANGED <<files, upstream>>

\* Source.setAuth: without a token of its own, a source uses the service's.
SourceToken(token) == IF token # NoToken THEN token ELSE ServiceToken

\* HandleRefresh, once it has a token.
Refresh ==
    /\ stage = "refresh"
    /\ upstream' = upstream \cup {SourceToken(BearerToken)}
    /\ \E code \in {200, 502} : Answer(code)
    /\ UNCHANGED files

-----------------------------------------------------------------------------
(* HandlePublish before the first reservation.                               *)

\* A check refuses for any fault of its kind, or passes a request that has none.
Check(here, kind, next) ==
    /\ stage = here
    /\ \/ \E f \in faults \cap kind : Answer(IF f = "tooLarge" THEN 413 ELSE 400)
       \/ faults \cap kind = {} /\ Goto(next) /\ UNCHANGED answer
    /\ UNCHANGED <<files, upstream>>

ParseForm == Check("form", FormFaults, "field")
FormFile == Check("field", FieldFaults, "name")
FileName == Check("name", NameFaults, "tempFile")

\* CreateTemp fails, or its file is to be removed on return.
CreateTemp ==
    /\ stage = "tempFile"
    /\ \/ Answer(500) /\ UNCHANGED files
       \/ Goto("copy") /\ files' = files \cup {"upload"} /\ UNCHANGED answer
    /\ UNCHANGED upstream

\* io.Copy, digest included.
Copy ==
    /\ stage = "copy"
    /\ \/ Answer(400)
       \/ Goto("archive") /\ UNCHANGED answer
    /\ UNCHANGED <<files, upstream>>

ExtractMPackage == Check("archive", ArchiveFaults, "manifest")

\* Mutant: a manifest is built but not validated.
BuildManifestUnvalidated == Check("manifest", {"badDependencies"}, "reserve")

BuildManifest == Check("manifest", ManifestFaults, "reserve")

-----------------------------------------------------------------------------
(* The rest of HandlePublish, as far as files and tokens go.                 *)

\* The checks and reservations of module Publish.
Reserve ==
    /\ stage = "reserve"
    /\ \/ Answer(409)
       \/ Goto(IF mode = "atomic" THEN "createBundle" ELSE "put") /\ UNCHANGED answer
    /\ UNCHANGED <<files, upstream>>

\* createBundle: CreateTemp ...
CreateBundle ==
    /\ stage = "createBundle"
    /\ \/ Answer(502) /\ UNCHANGED files
       \/ Goto("fillBundle") /\ files' = files \cup {"bundle"} /\ UNCHANGED answer
    /\ UNCHANGED upstream

\* ... and writing it.  An error here leaves the file behind.
FillBundle ==
    /\ stage = "fillBundle"
    /\ \/ Answer(502)
       \/ Goto("put") /\ UNCHANGED answer
    /\ UNCHANGED <<files, upstream>>

\* The requests to Artifactory; the bundle is removed as publishAtomic returns.
Upload ==
    /\ stage = "put"
    /\ upstream' = upstream \cup {BearerToken}
    /\ files' = files \ {"bundle"}
    /\ \E code \in {201, 502} \cup (IF mode = "atomic" THEN {409} ELSE {}) : Answer(code)

-----------------------------------------------------------------------------
(* The way out.                                                              *)

\* Mutant: the deferred removal is skipped when the handler panics.
ReturnKeepsOnPanic ==
    /\ stage = "return"
    /\ files' = IF panicked THEN files ELSE files \ {"upload"}
    /\ Goto(IF panicked THEN "recover" ELSE "done")
    /\ UNCHANGED <<answer, upstream>>

\* HandlePublish returns or unwinds: the deferred os.Remove runs.
Return ==
    /\ stage = "return"
    /\ files' = files \ {"upload"}
    /\ Goto(IF panicked THEN "recover" ELSE "done")
    /\ UNCHANGED <<answer, upstream>>

\* The handler panics: its deferred calls run, publishAtomic's first.
Panic ==
    /\ stage \notin {"route", "recover", "done"}
    /\ ~panicked
    /\ panicked' = TRUE
    /\ stage' = "return"
    /\ files' = IF stage = "put" THEN files \ {"bundle"} ELSE files
    /\ UNCHANGED <<request, answer, upstream>>

\* Mutant: a recovered panic is logged only.
RecoverSilently == stage = "recover" /\ Goto("done") /\ UNCHANGED <<answer, files, upstream>>

\* RecoveryMiddleware
Recover ==
    /\ stage = "recover"
    /\ Write(500)
    /\ Goto("done")
    /\ UNCHANGED <<files, upstream>>

Over == stage = "done" /\ UNCHANGED vars

Serve ==
    \/ Route \/ RequireHeaders \/ RequireToken \/ Query \/ Refresh
    \/ ParseForm \/ FormFile \/ FileName \/ CreateTemp \/ Copy
    \/ ExtractMPackage \/ BuildManifest \/ Reserve
    \/ CreateBundle \/ FillBundle \/ Upload \/ Return \/ Recover

Next == Serve \/ Panic \/ Over

\* The goroutine runs.  Nothing makes it panic.
Spec == Init /\ [][Next]_vars /\ WF_vars(Serve)

-----------------------------------------------------------------------------
(* Properties.                                                               *)

Served == route # "health" /\ ~(route = "publish" /\ mode = "off")
Unauthenticated == ~hasHeaders \/ (route # "query" /\ BearerToken = NoToken)

\* The steps that may refuse a request before anything is reserved, in the order
\* the code takes them; making and filling the temporary file fail on their own
\* account, the checks on the request's.
Rank == [headers |-> 1, token |-> 2, form |-> 3, field |-> 4, name |-> 5,
         tempFile |-> 6, copy |-> 7, archive |-> 8, manifest |-> 9]
Kind == [form |-> FormFaults, field |-> FieldFaults, name |-> NameFaults,
         archive |-> ArchiveFaults, manifest |-> ManifestFaults]
Checks == {"headers", "token"} \cup DOMAIN Kind
Fails(check) ==
    CASE check = "headers" -> ~hasHeaders
      [] check = "token"   -> route # "query" /\ BearerToken = NoToken
      [] OTHER             -> faults \cap Kind[check] # {}

\* What each of them answers, and all other steps.
Codes(step) ==
    CASE step \in {"headers", "token"} -> {401}
      [] step = "form" -> {IF f = "tooLarge" THEN 413 ELSE 400 : f \in faults \cap FormFaults}
      [] step = "tempFile" -> {500}
      [] step \in {"field", "name", "copy", "archive", "manifest"} -> {400}
      [] OTHER -> {200, 201, 404, 409, 502}

Fits(step, code) ==
    /\ step \in Checks => Fails(step)
    /\ \A check \in Checks :
          Fails(check) => step \in DOMAIN Rank /\ Rank[step] <= Rank[check]
    /\ code \in Codes(step)

\* A request gets the answer of the first check it fails, in the code's order,
\* and its status: 401 before its upload is looked at, 413 or 400 for the form
\* before its parts, and for an upload with any fault never the answer of a step
\* that stores something.  Only the server's own temporary file can come in
\* between, behind the file name and before the archive (publish.go:59-127,
\* middleware.go:16-28, API specification, error responses of publish).
AnswerFitsRequest ==
    stage = "done" /\ Served /\ message # "recover" => Fits(message, status)

\* A caller without credentials makes the server write no file and send no
\* request: its upload is not even read (middleware.go:16-28, publish.go:59-63).
UnauthenticatedDoesNothing ==
    Served /\ Unauthenticated => files = {} /\ upstream = {}

\* "The refresh endpoint uses the caller's Bearer token to authenticate with
\* the backend (not the server service token)", and publish passes the caller's
\* through: no request makes the server use its own token or none.  A source
\* built with an empty token would fall back to the server's, so it all hangs on
\* the handlers' check (refresh.go:30-36, source.go:49-55).
CallerTokenOnly == upstream \subseteq {CallerToken}

\* Whichever check, call or panic ended a request, its upload is no longer in the
\* temporary directory, if the system lets it be removed.  A bundle that could
\* not be filled is: createBundle returns without its name, and nobody else can
\* remove it.  It is the only file that stays (publish.go:97, uploader.go:57-61,
\* 155-197).
OnlyFailedBundleStays ==
    stage = "done" =>
        /\ "upload" \notin files
        /\ "bundle" \in files => mode = "atomic" /\ message \in {"fillBundle", "recover"}
        /\ message = "fillBundle" => "bundle" \in files

\* Every request is answered, after a panic too (middleware.go:42-52).
RequestEnds == <>(stage = "done" /\ status # 0)

=============================================================================
