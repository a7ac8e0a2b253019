SPECIFICATION Spec
CONSTANTS
    u1 = u1
    u2 = u2
    v1 = v1
    v2 = v2
    d1 = d1
    d2 = d2
    Nil = Nil
    Uuid <- MCUuid
    Name <- MCName
    Version <- MCVersion
    Digest <- MCDigest
    Lower <- MCLower
    Submissions <- MCSubmissions
    Request = {r1, r2}
    Modes = {"two-step"}
    MaxLate = 1
INVARIANTS
    VersionPublishedOnce
