SPECIFICATION Spec
INVARIANTS
    TypeOK
    AnswerFitsRequest
    UnauthenticatedDoesNothing
    CallerTokenOnly
    OnlyFailedBundleStays
PROPERTIES
    RequestEnds
