-------------------------- MODULE AdmissionProofs --------------------------
(***************************************************************************)
(* Proofs about one request on its way through the middleware and the      *)
(* handlers (module Admission).  The states of the properties are mostly   *)
(* final ones, so the invariant says at every stage what the stages before *)
(* it have established: who was admitted, which checks an upload passed,   *)
(* which files exist, and what an answer already sent says.                *)
(***************************************************************************)
EXTENDS Admission, TLAPS

\* HandlePublish behind its token check, in the order it runs.
Publishing == {"form", "field", "name", "tempFile", "copy", "archive", "manifest",
               "reserve", "createBundle", "fillBundle", "put"}
Ending == {"return", "recover", "done"}

PastForm == Publishing \ {"form"}
PastField == PastForm \ {"field"}
PastName == PastField \ {"name"}
PastArchive == {"manifest", "reserve", "createBundle", "fillBundle", "put"}
PastManifest == PastArchive \ {"manifest"}
WithUpload == {"copy", "archive"} \cup PastArchive

\* Only publish has an upload to find fault with.
UploadsArePublishes == route # "publish" => faults = {}

\* Nothing is answered while the handler works; past its return a request has
\* an answer or panicked, and is over only when it has an answer.
AnsweredOnce ==
    /\ stage \notin Ending => status = 0 /\ ~panicked
    /\ status = 0 <=> message = Silent
    /\ stage \in Ending /\ status = 0 => panicked
    /\ stage = "recover" => panicked
    /\ stage = "done" => status # 0

\* Who gets where.
Admitted ==
    /\ stage \in {"headers", "token", "query", "refresh"} \cup Publishing => Served
    /\ stage \in {"token", "query", "refresh"} \cup Publishing => hasHeaders
    /\ stage = "token" => route # "query"
    /\ stage = "query" => route = "query"
    /\ stage = "refresh" => route = "refresh" /\ BearerToken # NoToken
    /\ stage \in Publishing => route = "publish" /\ BearerToken # NoToken

\* What an upload that got this far is free of.
Checked ==
    /\ stage \in PastForm => faults \cap FormFaults = {}
    /\ stage \in PastField => faults \cap FieldFaults = {}
    /\ stage \in PastName => faults \cap NameFaults = {}
    /\ stage \in PastArchive => faults \cap ArchiveFaults = {}
    /\ stage \in PastManifest => faults \cap ManifestFaults = {}

\* When each file exists.
FilesByStage ==
    /\ "upload" \in files => stage \in WithUpload \cup {"return"}
    /\ stage \in {"createBundle", "fillBundle"} => mode = "atomic"
    /\ "bundle" \in files =>
         /\ mode = "atomic"
         /\ stage \in {"fillBundle", "put"} \cup Ending
    /\ stage = "fillBundle" => "bundle" \in files

\* The bundle outlives its request only where filling it failed.
BundleStays ==
    /\ message = "fillBundle" => "bundle" \in files
    /\ "bundle" \in files /\ stage \in Ending =>
         message \in {Silent, "fillBundle", "recover"}

\* The promise of AnswerFitsRequest, from the moment the answer is sent.
AnswerFits ==
    stage \in Ending /\ Served /\ message \notin {Silent, "recover"} => Fits(message, status)

IInv ==
    /\ TypeOK
    /\ UploadsArePublishes
    /\ AnsweredOnce
    /\ Admitted
    /\ Checked
    /\ FilesByStage
    /\ BundleStays
    /\ AnswerFits
    /\ UnauthenticatedDoesNothing
    /\ CallerTokenOnly

LEMMA TokenKnown ==
    ASSUME TypeOK
    PROVE  BearerToken \in {NoToken, CallerToken}
BY DEF TypeOK, Authorizations, BearerToken, NoToken, CallerToken

LEMMA RequestKept ==
    ASSUME UNCHANGED request
    PROVE  /\ UNCHANGED <<route, mode, hasHeaders, authorization, faults>>
           /\ UNCHANGED <<BearerToken, Served, Unauthenticated>>
BY DEF request, BearerToken, Served, Unauthenticated

\* The answer that is written fits, as long as the request is the same.
LEMMA FitsKept ==
    ASSUME IInv, UNCHANGED request,
           \/ UNCHANGED answer /\ (stage \notin Ending => message = Silent)
           \/ Served => Fits(message', status')
           \/ message' = "recover"
    PROVE  AnswerFits'
<1>1. UNCHANGED <<route, mode, hasHeaders, authorization, faults, BearerToken, Served>>
  BY RequestKept
<1>2. ASSUME Served, message' \notin {Silent, "recover"}
      PROVE  Fits(message', status')
  BY <1>2 DEF answer, IInv, AnswerFits
<1>3. QED
  BY <1>1, <1>2 DEF AnswerFits, Fits, Fails, Codes

\* What a step that does not answer has to establish.
LEMMA Moved ==
    ASSUME IInv, stage \notin Ending,
           NEW next \in Stages \ Ending, Goto(next), UNCHANGED <<answer, upstream>>,
           Admitted', Checked', FilesByStage', files' \subseteq {"upload", "bundle"},
           files' = files \/ ~Unauthenticated
    PROVE  IInv'
<1>1. /\ UNCHANGED <<request, panicked, status, message, upstream>>
      /\ stage' = next
  BY DEF Goto, answer
<1>2. /\ UNCHANGED <<route, mode, hasHeaders, authorization, faults>>
      /\ UNCHANGED <<BearerToken, Served, Unauthenticated>>
  BY <1>1, RequestKept
<1>3. TypeOK'
  BY <1>1, <1>2 DEF IInv, TypeOK
<1>4. UploadsArePublishes'
  BY <1>2 DEF IInv, UploadsArePublishes
<1>5. AnsweredOnce' /\ message = Silent
  BY <1>1 DEF IInv, AnsweredOnce, Ending
<1>6. AnswerFits' /\ BundleStays'
  BY <1>1, <1>5 DEF AnswerFits, BundleStays, Silent
<1>7. UnauthenticatedDoesNothing' /\ CallerTokenOnly'
  BY <1>1, <1>2 DEF IInv, UnauthenticatedDoesNothing, CallerTokenOnly
<1>8. QED
  BY <1>3, <1>4, <1>5, <1>6, <1>7 DEF IInv

\* What a step that answers has to establish.
LEMMA Answered ==
    ASSUME IInv, stage \notin Ending,
           NEW code \in {200, 201, 400, 401, 404, 409, 413, 500, 502}, Answer(code),
           files' \subseteq files,
           "upload" \in files => stage \in WithUpload,
           "bundle" \in files' <=> stage = "fillBundle",
           upstream' \subseteq {CallerToken},
           Served /\ Unauthenticated => upstream' = {},
           Served => Fits(stage, code)
    PROVE  IInv'
<1>1. /\ UNCHANGED <<request, panicked>>
      /\ stage' = "return"
      /\ status = 0 /\ status' = code /\ message' = stage
      /\ ~panicked
  BY DEF IInv, AnsweredOnce, Answer, Write, Goto
<1>2. /\ UNCHANGED <<route, mode, hasHeaders, authorization, faults>>
      /\ UNCHANGED <<BearerToken, Served, Unauthenticated>>
  BY <1>1, RequestKept
<1>3. stage \in Stages /\ stage # Silent
  BY DEF IInv, TypeOK, Stages, Silent
<1>4. TypeOK'
  <2>1. stage' \in Stages
    BY <1>1 DEF Stages
  <2>2. /\ upstream' \subseteq {CallerToken, ServiceToken, NoToken}
        /\ files' \subseteq {"upload", "bundle"}
    BY DEF IInv, TypeOK
  <2>3. status' \in {0, 200, 201, 400, 401, 404, 409, 413, 500, 502}
    BY <1>1
  <2>4. panicked' \in BOOLEAN
    BY <1>1 DEF IInv, TypeOK
  <2>5. message' \in Stages \cup {Silent}
    BY <1>1, <1>3
  <2>6. QED
    BY <1>2, <2>1, <2>2, <2>3, <2>4, <2>5 DEF IInv, TypeOK
<1>5. UploadsArePublishes'
  BY <1>2 DEF IInv, UploadsArePublishes
<1>6. AnsweredOnce'
  BY <1>1, <1>3 DEF AnsweredOnce, Ending
<1>7. Admitted' /\ Checked'
  BY <1>1
  DEF Admitted, Checked, Publishing, PastForm, PastField, PastName, PastArchive,
      PastManifest
<1>8. FilesByStage'
  BY <1>1, <1>2 DEF IInv, FilesByStage, Ending
<1>9. BundleStays'
  BY <1>1 DEF BundleStays
<1>10. AnswerFits'
  BY <1>1, FitsKept
<1>11. UnauthenticatedDoesNothing' /\ CallerTokenOnly'
  BY <1>2 DEF IInv, UnauthenticatedDoesNothing, CallerTokenOnly
<1>12. QED
  BY <1>4, <1>5, <1>6, <1>7, <1>8, <1>9, <1>10, <1>11 DEF IInv

\* A step that has been reached is no later than the first check that fails.
LEMMA FirstFailure ==
    ASSUME IInv, stage \notin Ending \cup {"route"}, NEW check \in Checks, Fails(check)
    PROVE  stage \in DOMAIN Rank /\ Rank[stage] <= Rank[check]
<1>1. check = "headers" => ~hasHeaders
  BY DEF Fails
<1>2. check = "token" => route # "query" /\ BearerToken = NoToken
  BY DEF Fails
<1>3. /\ check = "form" => faults \cap FormFaults # {}
      /\ check = "field" => faults \cap FieldFaults # {}
      /\ check = "name" => faults \cap NameFaults # {}
      /\ check = "archive" => faults \cap ArchiveFaults # {}
      /\ check = "manifest" => faults \cap ManifestFaults # {}
  BY DEF Fails, Kind
<1>4. check \in {"headers", "token", "form", "field", "name", "archive", "manifest"}
  BY DEF Checks, Kind
<1>5. stage \in {"headers", "token", "query", "refresh"} \cup Publishing
  BY DEF IInv, TypeOK, Stages, Publishing, Ending
<1>6. stage \notin {"query", "refresh"}
  <2>1. route \in {"query", "refresh"} => faults = {}
    BY DEF IInv, UploadsArePublishes
  <2>2. QED
    BY <1>1, <1>2, <1>3, <1>4, <2>1 DEF IInv, Admitted
<1>7. CASE check = "headers"
  <2>1. stage = "headers"
    BY <1>1, <1>5, <1>7 DEF IInv, Admitted
  <2>2. QED
    BY <1>7, <2>1 DEF Rank
<1>8. CASE check = "token"
  <2>1. stage \in {"headers", "token"}
    BY <1>2, <1>5, <1>6, <1>8 DEF IInv, Admitted
  <2>2. QED
    BY <1>8, <2>1 DEF Rank
<1>9. CASE check = "form"
  <2>1. stage \in {"headers", "token", "form"}
    BY <1>3, <1>5, <1>6, <1>9 DEF IInv, Checked, PastForm
  <2>2. QED
    BY <1>9, <2>1 DEF Rank
<1>10. CASE check = "field"
  <2>1. stage \in {"headers", "token", "form", "field"}
    BY <1>3, <1>5, <1>6, <1>10 DEF IInv, Checked, PastForm, PastField
  <2>2. QED
    BY <1>10, <2>1 DEF Rank
<1>11. CASE check = "name"
  <2>1. stage \in {"headers", "token", "form", "field", "name"}
    BY <1>3, <1>5, <1>6, <1>11 DEF IInv, Checked, PastForm, PastField, PastName
  <2>2. QED
    BY <1>11, <2>1 DEF Rank
<1>12. CASE check = "archive"
  <2>1. stage \in {"headers", "token", "form", "field", "name", "tempFile", "copy", "archive"}
    BY <1>3, <1>5, <1>6, <1>12 DEF IInv, Checked, PastArchive, Publishing
  <2>2. QED
    BY <1>12, <2>1 DEF Rank
<1>13. CASE check = "manifest"
  <2>1. stage \in {"headers", "token", "form", "field", "name", "tempFile", "copy", "archive",
                   "manifest"}
    BY <1>3, <1>5, <1>6, <1>13 DEF IInv, Checked, PastArchive, PastManifest, Publishing
  <2>2. QED
    BY <1>13, <2>1 DEF Rank
<1>14. QED
  BY <1>4, <1>7, <1>8, <1>9, <1>10, <1>11, <1>12, <1>13

\* So what it answers fits.
LEMMA FitsHere ==
    ASSUME IInv, stage \notin Ending \cup {"route"}, stage \in Checks => Fails(stage),
           NEW code \in Codes(stage)
    PROVE  Fits(stage, code)
BY FirstFailure DEF Fits

LEMMA RouteStep ==
    ASSUME IInv, Route
    PROVE  IInv'
<1>1. stage = "route" /\ UNCHANGED <<files, upstream>>
  BY DEF Route
<1>2. files = {} /\ stage \notin Ending
  BY <1>1 DEF IInv, TypeOK, FilesByStage, WithUpload, PastArchive, Ending
<1>3. upstream \subseteq {CallerToken} /\ (Served /\ Unauthenticated => upstream = {})
  BY DEF IInv, CallerTokenOnly, UnauthenticatedDoesNothing
<1>4. CASE route = "health" /\ Answer(200)
  BY <1>1, <1>2, <1>3, <1>4, Answered DEF Served
<1>5. CASE route = "publish" /\ mode = "off" /\ Answer(404)
  BY <1>1, <1>2, <1>3, <1>5, Answered DEF Served
<1>6. CASE Served /\ Goto("headers") /\ UNCHANGED answer
  <2>1. Served' /\ stage' = "headers"
    BY <1>6, RequestKept DEF Goto
  <2>2. Admitted' /\ Checked' /\ FilesByStage'
    BY <1>1, <1>2, <2>1
    DEF Admitted, Checked, FilesByStage, Publishing, PastForm, PastField, PastName,
        PastArchive, PastManifest
  <2>3. QED
    BY <1>1, <1>2, <1>6, <2>2, Moved DEF Stages, Ending
<1>7. QED
  BY <1>4, <1>5, <1>6 DEF Route, Served

LEMMA RequireHeadersStep ==
    ASSUME IInv, RequireHeaders
    PROVE  IInv'
<1>1. stage = "headers" /\ UNCHANGED <<files, upstream>>
  BY DEF RequireHeaders
<1>2. files = {} /\ stage \notin Ending /\ Served
  BY <1>1 DEF IInv, TypeOK, FilesByStage, WithUpload, PastArchive, Ending, Admitted
<1>3. upstream \subseteq {CallerToken} /\ (Served /\ Unauthenticated => upstream = {})
  BY DEF IInv, CallerTokenOnly, UnauthenticatedDoesNothing
<1>4. CASE ~hasHeaders /\ Answer(401)
  <2>1. Fits(stage, 401)
    BY <1>1, <1>2, <1>4, FitsHere DEF Fails, Codes, Ending
  <2>2. QED
    BY <1>1, <1>2, <1>3, <1>4, <2>1, Answered
<1>5. CASE hasHeaders /\ Goto(IF route = "query" THEN "query" ELSE "token") /\ UNCHANGED answer
  <2> DEFINE next == IF route = "query" THEN "query" ELSE "token"
  <2>1. Served' /\ hasHeaders' /\ route' = route /\ stage' = next
    BY <1>2, <1>5, RequestKept DEF Goto
  <2>2. next \in Stages \ Ending
    BY DEF Stages, Ending
  <2>3. Admitted' /\ Checked' /\ FilesByStage'
    BY <1>1, <1>2, <2>1
    DEF Admitted, Checked, FilesByStage, Publishing, PastForm, PastField, PastName,
        PastArchive, PastManifest
  <2>4. QED
    BY <1>1, <1>2, <1>5, <2>2, <2>3, Moved
<1>6. QED
  BY <1>4, <1>5 DEF RequireHeaders

\* What every working stage knows of the answer and the files, from the invariant.
LEMMA Working ==
    ASSUME IInv, stage \in Publishing
    PROVE  /\ stage \notin Ending
           /\ Served /\ ~Unauthenticated
           /\ BearerToken = CallerToken /\ hasHeaders /\ route = "publish"
           /\ upstream \subseteq {CallerToken}
           /\ files \subseteq {"upload", "bundle"}
<1>1. stage \notin Ending
  BY DEF Publishing, Ending
<1>2. Served /\ hasHeaders /\ route = "publish" /\ BearerToken # NoToken
  BY DEF IInv, Admitted
<1>3. BearerToken = CallerToken
  BY <1>2, TokenKnown DEF IInv
<1>4. ~Unauthenticated
  BY <1>2 DEF Unauthenticated
<1>5. upstream \subseteq {CallerToken} /\ files \subseteq {"upload", "bundle"}
  BY DEF IInv, CallerTokenOnly, TypeOK
<1>6. QED
  BY <1>1, <1>2, <1>3, <1>4, <1>5

\* The same request is still admitted wherever HandlePublish goes next.
LEMMA StillAdmitted ==
    ASSUME IInv, stage \in Publishing, NEW next \in Publishing, Goto(next)
    PROVE  /\ Admitted'
           /\ UNCHANGED <<mode, faults>>
           /\ stage' = next /\ next \in Stages \ Ending
<1>1. /\ UNCHANGED <<route, mode, hasHeaders, faults>>
      /\ UNCHANGED <<BearerToken, Served>>
      /\ stage' = next
  BY RequestKept DEF Goto
<1>2. Served /\ hasHeaders /\ route = "publish" /\ BearerToken # NoToken
  BY DEF IInv, Admitted
<1>3. Admitted'
  BY <1>1, <1>2 DEF Admitted, Publishing
<1>4. next \in Stages \ Ending
  BY DEF Stages, Publishing, Ending
<1>5. QED
  BY <1>1, <1>3, <1>4

LEMMA RequireTokenStep ==
    ASSUME IInv, RequireToken
    PROVE  IInv'
<1>1. stage = "token" /\ UNCHANGED <<files, upstream>>
  BY DEF RequireToken
<1>2. files = {} /\ stage \notin Ending /\ Served /\ hasHeaders /\ route # "query"
  BY <1>1 DEF IInv, TypeOK, FilesByStage, WithUpload, PastArchive, Ending, Admitted
<1>3. upstream \subseteq {CallerToken} /\ (Served /\ Unauthenticated => upstream = {})
  BY DEF IInv, CallerTokenOnly, UnauthenticatedDoesNothing
<1>4. CASE BearerToken = NoToken /\ Answer(401)
  <2>1. Fits(stage, 401)
    BY <1>1, <1>2, <1>4, FitsHere DEF Fails, Codes, Ending
  <2>2. QED
    BY <1>1, <1>2, <1>3, <1>4, <2>1, Answered
<1>5. CASE /\ BearerToken # NoToken
           /\ Goto(IF route = "publish" THEN "form" ELSE "refresh")
           /\ UNCHANGED answer
  <2> DEFINE next == IF route = "publish" THEN "form" ELSE "refresh"
  <2>1. /\ UNCHANGED <<route, hasHeaders, BearerToken, Served>>
        /\ stage' = next
    BY <1>5, RequestKept DEF Goto
  <2>2. next \in Stages \ Ending /\ (route = "publish" \/ route = "refresh")
    BY <1>2 DEF Stages, Ending, IInv, TypeOK, Routes, Served
  <2>3. Admitted'
    BY <1>2, <1>5, <2>1, <2>2 DEF Admitted, Publishing
  <2>4. Checked' /\ FilesByStage'
    BY <1>1, <1>2, <2>1
    DEF Checked, FilesByStage, Publishing, PastForm, PastField, PastName, PastArchive,
        PastManifest
  <2>5. QED
    BY <1>1, <1>2, <1>5, <2>2, <2>3, <2>4, Moved
<1>6. QED
  BY <1>4, <1>5 DEF RequireToken

LEMMA QueryStep ==
    ASSUME IInv, Query
    PROVE  IInv'
<1>1. stage = "query" /\ UNCHANGED <<files, upstream>>
  BY DEF Query
<1>2. files = {} /\ stage \notin Ending /\ hasHeaders /\ route = "query"
  BY <1>1 DEF IInv, TypeOK, FilesByStage, WithUpload, PastArchive, Ending, Admitted
<1>3. ~Unauthenticated /\ faults = {} /\ upstream \subseteq {CallerToken}
  BY <1>2 DEF IInv, CallerTokenOnly, Unauthenticated, UploadsArePublishes
<1>4. PICK code \in {200, 404} : Answer(code)
  BY DEF Query
<1>5. Fits(stage, code)
  BY <1>1, <1>2, FitsHere DEF Checks, Kind, Codes, Ending
<1>6. QED
  BY <1>1, <1>2, <1>3, <1>4, <1>5, Answered

LEMMA RefreshStep ==
    ASSUME IInv, Refresh
    PROVE  IInv'
<1>1. stage = "refresh" /\ UNCHANGED files /\ upstream' = upstream \cup {SourceToken(BearerToken)}
  BY DEF Refresh
<1>2. /\ files = {} /\ stage \notin Ending
      /\ hasHeaders /\ route = "refresh" /\ BearerToken # NoToken
  BY <1>1 DEF IInv, TypeOK, FilesByStage, WithUpload, PastArchive, Ending, Admitted
<1>3. ~Unauthenticated /\ faults = {} /\ upstream \subseteq {CallerToken}
  BY <1>2 DEF IInv, CallerTokenOnly, Unauthenticated, UploadsArePublishes
<1>4. upstream' \subseteq {CallerToken}
  <2>1. SourceToken(BearerToken) = CallerToken
    BY <1>2, TokenKnown DEF IInv, SourceToken
  <2>2. QED
    BY <1>1, <1>3, <2>1
<1>5. PICK code \in {200, 502} : Answer(code)
  BY DEF Refresh
<1>6. Fits(stage, code)
  BY <1>1, <1>2, FitsHere DEF Checks, Kind, Codes, Ending
<1>7. QED
  BY <1>1, <1>2, <1>3, <1>4, <1>5, <1>6, Answered

-----------------------------------------------------------------------------
(* HandlePublish before the first reservation.                               *)

\* A check that runs before there is any file, or after the upload was copied.
LEMMA CheckStep ==
    ASSUME IInv, stage \in Publishing,
           NEW here \in {"form", "field", "name", "archive", "manifest"},
           NEW kind, kind = Kind[here], NEW next \in Publishing, Check(here, kind, next),
           Checked /\ faults \cap kind = {} /\ stage' = next /\ UNCHANGED faults => Checked',
           "upload" \in files => next \in WithUpload,
           next \notin {"createBundle", "fillBundle"}
    PROVE  IInv'
<1>1. stage = here /\ UNCHANGED <<files, upstream>>
  BY DEF Check
<1>2. /\ stage \notin Ending /\ Served /\ ~Unauthenticated
      /\ upstream \subseteq {CallerToken} /\ files \subseteq {"upload", "bundle"}
  BY Working
<1>3. "bundle" \notin files /\ ("upload" \in files => stage \in WithUpload)
  BY <1>1 DEF IInv, FilesByStage, Ending
<1>4. ASSUME NEW f \in faults \cap kind, Answer(IF f = "tooLarge" THEN 413 ELSE 400)
      PROVE  IInv'
  <2> DEFINE code == IF f = "tooLarge" THEN 413 ELSE 400
  <2>1. /\ here = "form" => kind = FormFaults
        /\ here = "field" => kind = FieldFaults
        /\ here = "name" => kind = NameFaults
        /\ here = "archive" => kind = ArchiveFaults
        /\ here = "manifest" => kind = ManifestFaults
    BY DEF Kind
  <2>2. code \in Codes(here) /\ code \in {400, 413}
    <3>1. CASE here = "form"
      BY <1>4, <2>1, <3>1 DEF Codes
    <3>2. CASE here # "form"
      <4>1. f # "tooLarge"
        BY <1>4, <2>1, <3>2 DEF FieldFaults, NameFaults, ArchiveFaults, ManifestFaults
      <4>2. QED
        BY <3>2, <4>1 DEF Codes
    <3>3. QED
      BY <3>1, <3>2
  <2>3. Fails(here)
    BY <1>4 DEF Fails
  <2>4. Fits(stage, code)
    BY <1>1, <1>2, <2>2, <2>3, FitsHere DEF Publishing
  <2>5. stage # "fillBundle"
    BY <1>1
  <2>6. QED
    BY <1>1, <1>2, <1>3, <1>4, <2>2, <2>4, <2>5, Answered
<1>5. CASE faults \cap kind = {} /\ Goto(next) /\ UNCHANGED answer
  <2>1. Admitted' /\ UNCHANGED <<mode, faults>> /\ stage' = next /\ next \in Stages \ Ending
    BY <1>5, StillAdmitted
  <2>2. Checked'
    BY <1>5, <2>1 DEF IInv
  <2>3. FilesByStage'
    BY <1>1, <1>3, <2>1 DEF FilesByStage
  <2>4. QED
    BY <1>1, <1>2, <1>5, <2>1, <2>2, <2>3, Moved
<1>6. QED
  BY <1>4, <1>5 DEF Check

LEMMA ParseFormStep ==
    ASSUME IInv, ParseForm
    PROVE  IInv'
<1>1. stage = "form" /\ Check("form", FormFaults, "field")
  BY DEF ParseForm, Check
<1>2. files = {}
  BY <1>1 DEF IInv, TypeOK, FilesByStage, WithUpload, PastArchive, Ending
<1>3. faults \cap FormFaults = {} /\ stage' = "field" /\ UNCHANGED faults => Checked'
  BY DEF Checked, Publishing, PastForm, PastField, PastName, PastArchive, PastManifest
<1>4. QED
  BY <1>1, <1>2, <1>3, CheckStep DEF Publishing, Kind

LEMMA FormFileStep ==
    ASSUME IInv, FormFile
    PROVE  IInv'
<1>1. stage = "field" /\ Check("field", FieldFaults, "name")
  BY DEF FormFile, Check
<1>2. files = {}
  BY <1>1 DEF IInv, TypeOK, FilesByStage, WithUpload, PastArchive, Ending
<1>3. Checked /\ faults \cap FieldFaults = {} /\ stage' = "name" /\ UNCHANGED faults
        => Checked'
  BY <1>1
  DEF Checked, Publishing, PastForm, PastField, PastName, PastArchive, PastManifest
<1>4. QED
  BY <1>1, <1>2, <1>3, CheckStep DEF Publishing, Kind

LEMMA FileNameStep ==
    ASSUME IInv, FileName
    PROVE  IInv'
<1>1. stage = "name" /\ Check("name", NameFaults, "tempFile")
  BY DEF FileName, Check
<1>2. files = {}
  BY <1>1 DEF IInv, TypeOK, FilesByStage, WithUpload, PastArchive, Ending
<1>3. Checked /\ faults \cap NameFaults = {} /\ stage' = "tempFile" /\ UNCHANGED faults
        => Checked'
  BY <1>1
  DEF Checked, Publishing, PastForm, PastField, PastName, PastArchive, PastManifest
<1>4. QED
  BY <1>1, <1>2, <1>3, CheckStep DEF Publishing, Kind

LEMMA ExtractMPackageStep ==
    ASSUME IInv, ExtractMPackage
    PROVE  IInv'
<1>1. stage = "archive" /\ Check("archive", ArchiveFaults, "manifest")
  BY DEF ExtractMPackage, Check
<1>2. "manifest" \in WithUpload
  BY DEF WithUpload, PastArchive
<1>3. Checked /\ faults \cap ArchiveFaults = {} /\ stage' = "manifest" /\ UNCHANGED faults
        => Checked'
  BY <1>1
  DEF Checked, Publishing, PastForm, PastField, PastName, PastArchive, PastManifest
<1>4. QED
  BY <1>1, <1>2, <1>3, CheckStep DEF Publishing, Kind

LEMMA BuildManifestStep ==
    ASSUME IInv, BuildManifest
    PROVE  IInv'
<1>1. stage = "manifest" /\ Check("manifest", ManifestFaults, "reserve")
  BY DEF BuildManifest, Check
<1>2. "reserve" \in WithUpload
  BY DEF WithUpload, PastArchive
<1>3. Checked /\ faults \cap ManifestFaults = {} /\ stage' = "reserve" /\ UNCHANGED faults
        => Checked'
  BY <1>1
  DEF Checked, Publishing, PastForm, PastField, PastName, PastArchive, PastManifest
<1>4. QED
  BY <1>1, <1>2, <1>3, CheckStep DEF Publishing, Kind

LEMMA CreateTempStep ==
    ASSUME IInv, CreateTemp
    PROVE  IInv'
<1>1. stage = "tempFile" /\ stage \in Publishing /\ UNCHANGED upstream
  BY DEF CreateTemp, Publishing
<1>2. files = {} /\ faults \cap FormFaults = {}
  BY <1>1 DEF IInv, TypeOK, FilesByStage, WithUpload, PastArchive, Ending,
              Checked, PastForm, Publishing
<1>3. stage \notin Ending /\ Served /\ ~Unauthenticated /\ upstream \subseteq {CallerToken}
  BY <1>1, Working
<1>4. CASE Answer(500) /\ UNCHANGED files
  <2>1. Fits(stage, 500)
    BY <1>1, <1>3, FitsHere DEF Checks, Kind, Codes
  <2>2. QED
    BY <1>1, <1>2, <1>3, <1>4, <2>1, Answered
<1>5. CASE Goto("copy") /\ files' = files \cup {"upload"} /\ UNCHANGED answer
  <2>1. Admitted' /\ UNCHANGED <<mode, faults>> /\ stage' = "copy" /\ "copy" \in Stages \ Ending
    BY <1>1, <1>5, StillAdmitted DEF Publishing
  <2>2. Checked'
    BY <1>1, <2>1
    DEF IInv, Checked, Publishing, PastForm, PastField, PastName, PastArchive,
        PastManifest
  <2>3. FilesByStage'
    BY <1>2, <1>5, <2>1 DEF FilesByStage, WithUpload
  <2>4. QED
    BY <1>1, <1>2, <1>3, <1>5, <2>1, <2>2, <2>3, Moved
<1>6. QED
  BY <1>4, <1>5 DEF CreateTemp

LEMMA CopyStep ==
    ASSUME IInv, Copy
    PROVE  IInv'
<1>1. stage = "copy" /\ stage \in Publishing /\ UNCHANGED <<files, upstream>>
  BY DEF Copy, Publishing
<1>2. "bundle" \notin files /\ stage \in WithUpload /\ faults \cap FormFaults = {}
  BY <1>1 DEF IInv, FilesByStage, WithUpload, Ending, Checked, PastForm, Publishing
<1>3. stage \notin Ending /\ Served /\ ~Unauthenticated /\ upstream \subseteq {CallerToken}
      /\ files \subseteq {"upload", "bundle"}
  BY <1>1, Working
<1>4. CASE Answer(400)
  <2>1. Fits(stage, 400)
    BY <1>1, <1>3, FitsHere DEF Checks, Kind, Codes
  <2>2. QED
    BY <1>1, <1>2, <1>3, <1>4, <2>1, Answered
<1>5. CASE Goto("archive") /\ UNCHANGED answer
  <2>1. /\ Admitted' /\ UNCHANGED <<mode, faults>>
        /\ stage' = "archive" /\ "archive" \in Stages \ Ending
    BY <1>1, <1>5, StillAdmitted DEF Publishing
  <2>2. Checked'
    BY <1>1, <2>1
    DEF IInv, Checked, Publishing, PastForm, PastField, PastName, PastArchive,
        PastManifest
  <2>3. FilesByStage'
    BY <1>1, <1>2, <2>1 DEF FilesByStage, WithUpload
  <2>4. QED
    BY <1>1, <1>2, <1>3, <1>5, <2>1, <2>2, <2>3, Moved
<1>6. QED
  BY <1>4, <1>5 DEF Copy

-----------------------------------------------------------------------------
(* The rest of HandlePublish.                                                *)

\* An upload that got as far as the reservations has nothing wrong with it.
LEMMA Sound ==
    ASSUME IInv, stage \in PastManifest
    PROVE  faults = {}
<1>1. stage \in PastForm /\ stage \in PastField /\ stage \in PastName /\ stage \in PastArchive
  BY DEF PastForm, PastField, PastName, PastArchive, PastManifest, Publishing
<1>2. /\ faults \cap FormFaults = {} /\ faults \cap FieldFaults = {} /\ faults \cap NameFaults = {}
      /\ faults \cap ArchiveFaults = {} /\ faults \cap ManifestFaults = {}
  BY <1>1 DEF IInv, Checked
<1>3. \A f \in faults : f \in FormFaults \/ f \in FieldFaults \/ f \in NameFaults
                          \/ f \in ArchiveFaults \/ f \in ManifestFaults
  BY DEF IInv, TypeOK, Faults
<1>4. QED
  BY <1>2, <1>3

\* ... and stays so.
LEMMA StillSound ==
    ASSUME faults = {}, UNCHANGED faults
    PROVE  Checked'
BY DEF Checked

LEMMA ReserveStep ==
    ASSUME IInv, Reserve
    PROVE  IInv'
<1>1. stage = "reserve" /\ stage \in Publishing /\ UNCHANGED <<files, upstream>>
  BY DEF Reserve, Publishing
<1>2. "bundle" \notin files /\ stage \in WithUpload /\ faults = {}
  BY <1>1, Sound DEF IInv, FilesByStage, WithUpload, PastArchive, PastManifest, Ending
<1>3. stage \notin Ending /\ Served /\ ~Unauthenticated /\ upstream \subseteq {CallerToken}
      /\ files \subseteq {"upload", "bundle"}
  BY <1>1, Working
<1>4. CASE Answer(409)
  <2>1. Fits(stage, 409)
    BY <1>1, <1>3, FitsHere DEF Checks, Kind, Codes
  <2>2. QED
    BY <1>1, <1>2, <1>3, <1>4, <2>1, Answered
<1>5. CASE Goto(IF mode = "atomic" THEN "createBundle" ELSE "put") /\ UNCHANGED answer
  <2> DEFINE next == IF mode = "atomic" THEN "createBundle" ELSE "put"
  <2>1. next \in Publishing /\ next \in WithUpload
    BY DEF Publishing, WithUpload, PastArchive
  <2>2. Admitted' /\ UNCHANGED <<mode, faults>> /\ stage' = next /\ next \in Stages \ Ending
    BY <1>1, <1>5, <2>1, StillAdmitted
  <2>3. FilesByStage'
    BY <1>1, <1>2, <2>1, <2>2 DEF FilesByStage
  <2>4. QED
    BY <1>1, <1>2, <1>3, <1>5, <2>2, <2>3, StillSound, Moved
<1>6. QED
  BY <1>4, <1>5 DEF Reserve

LEMMA CreateBundleStep ==
    ASSUME IInv, CreateBundle
    PROVE  IInv'
<1>1. stage = "createBundle" /\ stage \in Publishing /\ UNCHANGED upstream
  BY DEF CreateBundle, Publishing
<1>2. "bundle" \notin files /\ mode = "atomic" /\ stage \in WithUpload /\ faults = {}
  BY <1>1, Sound DEF IInv, FilesByStage, WithUpload, PastArchive, PastManifest, Ending
<1>3. stage \notin Ending /\ Served /\ ~Unauthenticated /\ upstream \subseteq {CallerToken}
      /\ files \subseteq {"upload", "bundle"}
  BY <1>1, Working
<1>4. CASE Answer(502) /\ UNCHANGED files
  <2>1. Fits(stage, 502)
    BY <1>1, <1>3, FitsHere DEF Checks, Kind, Codes
  <2>2. QED
    BY <1>1, <1>2, <1>3, <1>4, <2>1, Answered
<1>5. CASE Goto("fillBundle") /\ files' = files \cup {"bundle"} /\ UNCHANGED answer
  <2>1. Admitted' /\ UNCHANGED <<mode, faults>> /\ stage' = "fillBundle"
        /\ "fillBundle" \in Stages \ Ending
    BY <1>1, <1>5, StillAdmitted DEF Publishing
  <2>2. FilesByStage'
    BY <1>2, <1>3, <1>5, <2>1 DEF FilesByStage, WithUpload, PastArchive, Ending
  <2>3. QED
    BY <1>1, <1>2, <1>3, <1>5, <2>1, <2>2, StillSound, Moved
<1>6. QED
  BY <1>4, <1>5 DEF CreateBundle

LEMMA FillBundleStep ==
    ASSUME IInv, FillBundle
    PROVE  IInv'
<1>1. stage = "fillBundle" /\ stage \in Publishing /\ UNCHANGED <<files, upstream>>
  BY DEF FillBundle, Publishing
<1>2. mode = "atomic" /\ stage \in WithUpload /\ faults = {} /\ "bundle" \in files
  BY <1>1, Sound DEF IInv, FilesByStage, WithUpload, PastArchive, PastManifest
<1>3. stage \notin Ending /\ Served /\ ~Unauthenticated /\ upstream \subseteq {CallerToken}
      /\ files \subseteq {"upload", "bundle"}
  BY <1>1, Working
<1>4. CASE Answer(502)
  <2>1. Fits(stage, 502)
    BY <1>1, <1>3, FitsHere DEF Checks, Kind, Codes
  <2>2. QED
    BY <1>1, <1>2, <1>3, <1>4, <2>1, Answered
<1>5. CASE Goto("put") /\ UNCHANGED answer
  <2>1. Admitted' /\ UNCHANGED <<mode, faults>> /\ stage' = "put" /\ "put" \in Stages \ Ending
    BY <1>1, <1>5, StillAdmitted DEF Publishing
  <2>2. FilesByStage'
    BY <1>1, <1>2, <2>1 DEF FilesByStage, WithUpload, PastArchive, Ending
  <2>3. QED
    BY <1>1, <1>2, <1>3, <1>5, <2>1, <2>2, StillSound, Moved
<1>6. QED
  BY <1>4, <1>5 DEF FillBundle

LEMMA UploadStep ==
    ASSUME IInv, Upload
    PROVE  IInv'
<1>1. /\ stage = "put" /\ stage \in Publishing
      /\ files' = files \ {"bundle"} /\ upstream' = upstream \cup {BearerToken}
  BY DEF Upload, Publishing
<1>2. stage \in WithUpload /\ faults = {}
  BY <1>1, Sound DEF WithUpload, PastArchive, PastManifest
<1>3. stage \notin Ending /\ Served /\ ~Unauthenticated /\ BearerToken = CallerToken
      /\ upstream \subseteq {CallerToken}
  BY <1>1, Working
<1>4. PICK code \in {201, 409, 502} : Answer(code)
  BY DEF Upload
<1>5. Fits(stage, code)
  BY <1>1, <1>3, FitsHere DEF Checks, Kind, Codes
<1>6. QED
  BY <1>1, <1>2, <1>3, <1>4, <1>5, Answered

-----------------------------------------------------------------------------
(* The way out.                                                              *)

LEMMA ReturnStep ==
    ASSUME IInv, Return
    PROVE  IInv'
<1> DEFINE next == IF panicked THEN "recover" ELSE "done"
<1>1. /\ stage = "return" /\ stage' = next
      /\ UNCHANGED <<request, panicked, answer, upstream>>
      /\ files' = files \ {"upload"}
  BY DEF Return, Goto
<1>2. /\ UNCHANGED <<route, mode, hasHeaders, authorization, faults>>
      /\ UNCHANGED <<BearerToken, Served, Unauthenticated>>
  BY <1>1, RequestKept
<1>3. TypeOK'
  BY <1>1, <1>2 DEF IInv, TypeOK, Stages, answer
<1>4. UploadsArePublishes'
  BY <1>2 DEF IInv, UploadsArePublishes
<1>5. AnsweredOnce'
  BY <1>1 DEF IInv, AnsweredOnce, Ending, answer
<1>6. Admitted' /\ Checked'
  BY <1>1
  DEF Admitted, Checked, Publishing, PastForm, PastField, PastName, PastArchive,
      PastManifest
<1>7. FilesByStage'
  BY <1>1, <1>2 DEF IInv, FilesByStage, Ending
<1>8. AnswerFits' /\ BundleStays'
  BY <1>1, FitsKept DEF IInv, BundleStays, Ending, answer
<1>9. UnauthenticatedDoesNothing' /\ CallerTokenOnly'
  BY <1>1, <1>2 DEF IInv, UnauthenticatedDoesNothing, CallerTokenOnly
<1>10. QED
  BY <1>3, <1>4, <1>5, <1>6, <1>7, <1>8, <1>9 DEF IInv

LEMMA RecoverStep ==
    ASSUME IInv, Recover
    PROVE  IInv'
<1>1. /\ stage = "recover" /\ stage' = "done"
      /\ UNCHANGED <<request, panicked, files, upstream>>
      /\ IF status = 0 THEN status' = 500 /\ message' = "recover" ELSE UNCHANGED answer
  BY DEF Recover, Write, Goto
<1>2. /\ UNCHANGED <<route, mode, hasHeaders, authorization, faults>>
      /\ UNCHANGED <<BearerToken, Served, Unauthenticated>>
  BY <1>1, RequestKept
<1>3. panicked
  BY <1>1 DEF IInv, AnsweredOnce
<1>4. TypeOK'
  BY <1>1, <1>2 DEF IInv, TypeOK, Stages, answer
<1>5. UploadsArePublishes'
  BY <1>2 DEF IInv, UploadsArePublishes
<1>6. AnsweredOnce'
  BY <1>1, <1>3 DEF IInv, AnsweredOnce, Ending, answer, Silent
<1>7. Admitted' /\ Checked'
  BY <1>1
  DEF Admitted, Checked, Publishing, PastForm, PastField, PastName, PastArchive,
      PastManifest
<1>8. FilesByStage'
  BY <1>1, <1>2 DEF IInv, FilesByStage, WithUpload, PastArchive, Ending
<1>9. AnswerFits' /\ BundleStays'
  BY <1>1, FitsKept DEF IInv, BundleStays, Ending, answer
<1>10. UnauthenticatedDoesNothing' /\ CallerTokenOnly'
  BY <1>1, <1>2 DEF IInv, UnauthenticatedDoesNothing, CallerTokenOnly
<1>11. QED
  BY <1>4, <1>5, <1>6, <1>7, <1>8, <1>9, <1>10 DEF IInv

LEMMA PanicStep ==
    ASSUME IInv, Panic
    PROVE  IInv'
<1>1. /\ stage \notin {"recover", "done"} /\ stage' = "return" /\ panicked' = TRUE
      /\ UNCHANGED <<request, answer, upstream>>
      /\ files' \subseteq files
      /\ files' = IF stage = "put" THEN files \ {"bundle"} ELSE files
  BY DEF Panic
<1>2. /\ UNCHANGED <<route, mode, hasHeaders, authorization, faults>>
      /\ UNCHANGED <<BearerToken, Served, Unauthenticated>>
  BY <1>1, RequestKept
<1>3. TypeOK'
  BY <1>1, <1>2 DEF IInv, TypeOK, Stages, answer
<1>4. UploadsArePublishes'
  BY <1>2 DEF IInv, UploadsArePublishes
<1>5. AnsweredOnce'
  BY <1>1 DEF IInv, AnsweredOnce, Ending, answer
<1>6. Admitted' /\ Checked'
  BY <1>1
  DEF Admitted, Checked, Publishing, PastForm, PastField, PastName, PastArchive,
      PastManifest
<1>7. FilesByStage'
  BY <1>1, <1>2 DEF IInv, FilesByStage, AnsweredOnce, Ending
<1>8. AnswerFits' /\ BundleStays'
  <2>1. stage \notin Ending => message = Silent
    BY DEF IInv, AnsweredOnce
  <2>2. AnswerFits'
    BY <1>1, <2>1, FitsKept
  <2>3. BundleStays'
    BY <1>1, <2>1 DEF IInv, BundleStays, FilesByStage, Ending, answer, Silent
  <2>4. QED
    BY <2>2, <2>3
<1>9. UnauthenticatedDoesNothing' /\ CallerTokenOnly'
  BY <1>1, <1>2 DEF IInv, UnauthenticatedDoesNothing, CallerTokenOnly
<1>10. QED
  BY <1>3, <1>4, <1>5, <1>6, <1>7, <1>8, <1>9 DEF IInv

-----------------------------------------------------------------------------

LEMMA InitIInv == Init => IInv
<1> SUFFICES ASSUME Init PROVE IInv
  OBVIOUS
<1>1. /\ stage = "route" /\ status = 0 /\ message = Silent
      /\ panicked = FALSE /\ files = {} /\ upstream = {}
  BY DEF Init
<1>2. TypeOK
  <2>1. faults \subseteq Faults
    BY DEF Init
  <2>2. QED
    BY <1>1, <2>1 DEF Init, TypeOK, Routes, Stages
<1>3. UploadsArePublishes
  BY DEF Init, UploadsArePublishes
<1>4. AnsweredOnce
  BY <1>1 DEF AnsweredOnce, Ending
<1>5. Admitted /\ Checked /\ FilesByStage
  BY <1>1 DEF Admitted, Checked, FilesByStage, Publishing, PastForm, PastField, PastName,
              PastArchive, PastManifest
<1>6. AnswerFits /\ BundleStays /\ UnauthenticatedDoesNothing /\ CallerTokenOnly
  BY <1>1 DEF AnswerFits, BundleStays, Ending, Silent, UnauthenticatedDoesNothing, CallerTokenOnly
<1>7. QED
  BY <1>2, <1>3, <1>4, <1>5, <1>6 DEF IInv

LEMMA NextIInv == IInv /\ [Next]_vars => IInv'
<1> SUFFICES ASSUME IInv, [Next]_vars PROVE IInv'
  OBVIOUS
<1>1. CASE Serve
  BY <1>1, RouteStep, RequireHeadersStep, RequireTokenStep, QueryStep, RefreshStep,
     ParseFormStep, FormFileStep, FileNameStep, CreateTempStep, CopyStep,
     ExtractMPackageStep, BuildManifestStep, ReserveStep, CreateBundleStep,
     FillBundleStep, UploadStep, ReturnStep, RecoverStep DEF Serve
<1>2. CASE Panic
  BY <1>2, PanicStep
<1>3. CASE UNCHANGED vars
  <2>1. /\ UNCHANGED <<route, mode, hasHeaders, authorization, faults>>
        /\ UNCHANGED <<stage, answer, panicked, files, upstream>>
        /\ UNCHANGED <<BearerToken, Served, Unauthenticated>>
    BY <1>3, RequestKept DEF vars, request
  <2>2. TypeOK' /\ UploadsArePublishes'
    BY <2>1 DEF IInv, TypeOK, UploadsArePublishes, answer
  <2>3. AnsweredOnce' /\ Admitted' /\ Checked' /\ FilesByStage' /\ BundleStays'
    BY <2>1 DEF IInv, AnsweredOnce, Admitted, Checked, FilesByStage, BundleStays, answer
  <2>4. UnauthenticatedDoesNothing' /\ CallerTokenOnly'
    BY <2>1 DEF IInv, UnauthenticatedDoesNothing, CallerTokenOnly
  <2>5. AnswerFits'
    <3>1. stage \notin Ending => message = Silent
      BY DEF IInv, AnsweredOnce
    <3>2. UNCHANGED request
      BY <1>3 DEF vars
    <3>3. QED
      BY <2>1, <3>1, <3>2, FitsKept
  <2>6. QED
    BY <2>2, <2>3, <2>4, <2>5 DEF IInv
<1>4. QED
  BY <1>1, <1>2, <1>3 DEF Next, Over

LEMMA InductiveInvariant == Spec => []IInv
<1>1. QED
  BY InitIInv, NextIInv, PTL DEF Spec

\* Every variable of a request keeps its type (Admission as a whole).
THEOREM AdmissionTypeCorrect == Spec => []TypeOK
<1>1. IInv => TypeOK
  BY DEF IInv
<1>2. QED
  BY <1>1, InductiveInvariant, PTL

\* For every combination of route, mode, headers, token and faults, the answer is
\* that of the first check the request fails, in the code's order, with its
\* status, unless the temporary file failed before (publish.go:59-127).
THEOREM AnswersFitRequests == Spec => []AnswerFitsRequest
<1>1. IInv => AnswerFitsRequest
  BY DEF IInv, AnswerFits, AnsweredOnce, Ending, AnswerFitsRequest
<1>2. QED
  BY <1>1, InductiveInvariant, PTL

\* A caller without credentials makes the server write no file and send no
\* request to Artifactory.
THEOREM UnauthenticatedIsHarmless == Spec => []UnauthenticatedDoesNothing
<1>1. IInv => UnauthenticatedDoesNothing
  BY DEF IInv
<1>2. QED
  BY <1>1, InductiveInvariant, PTL

\* Requests made for a caller carry the caller's token: the fallback of
\* Source.setAuth to the server's own is never reached from a handler.
THEOREM OnlyTheCallersToken == Spec => []CallerTokenOnly
<1>1. IInv => CallerTokenOnly
  BY DEF IInv
<1>2. QED
  BY <1>1, InductiveInvariant, PTL

\* However a request ended, its upload is gone from the temporary directory; what
\* stays there is a bundle createBundle could not fill, and it always stays
\* (uploader.go:155-197).
THEOREM OnlyFailedBundlesStay == Spec => []OnlyFailedBundleStays
<1>1. IInv => OnlyFailedBundleStays
  BY DEF IInv, FilesByStage, BundleStays, AnsweredOnce, WithUpload, PastArchive, Ending,
      OnlyFailedBundleStays
<1>2. QED
  BY <1>1, InductiveInvariant, PTL

=============================================================================
