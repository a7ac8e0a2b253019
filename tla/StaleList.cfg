SPECIFICATION Spec
CONSTANTS
    u1 = u1
    u2 = u2
    v1 = v1
    v2 = v2
    d1 = d1
    NoOne = NoOne
    Uuid <- MCUuid
    Name <- MCName
    Version <- MCVersion
    Digest <- MCDigest
    Lower <- MCLower
    Programs <- MCPrograms
    Handler = {h1, h2, h3}
\* Every handler makes finitely many calls, then the system rests.
CHECK_DEADLOCK FALSE
INVARIANTS
    ListIsStamped
