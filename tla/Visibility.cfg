SPECIFICATION ServiceSpec
CONSTANTS
    u1 = u1
    u2 = u2
    v1 = v1
    d1 = d1
    d2 = d2
    Nil = Nil
    Boot = Boot
    Uuid <- MCUuid
    Name <- MCName
    Version <- MCVersion
    Digest <- MCDigest
    Lower <- MCLower
    Submissions <- MCSubmissions
    Request = {r1}
    Refresh = {f1}
    Modes = {"atomic", "two-step"}
    MaxLate = 1
    MaxCrashes = 0
INVARIANTS
    ImmediateVisibility
