SPECIFICATION ServiceSpec
CONSTANTS
    u1 = u1
    u2 = u2
    v1 = v1
    d1 = d1
    d2 = d2
    Nil = Nil
    Boot = Boot
    Uuid <- MCUuid
    Name <- MCName
    Version <- MCVersion
    Digest <- MCDigest
    Lower <- MCLower
    Submissions <- MCTwoSubmissions
    Request = {r1, r2}
    Refresh = {f1, f2}
    Modes = {"two-step"}
    MaxLate = 1
    MaxCrashes = 0
PROPERTIES
    RefreshRepairs
    WorkEnds
