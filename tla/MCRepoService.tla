--------------------------- MODULE MCRepoService ---------------------------
(* RepoService on a small instance: a version, a rebuild of it, and another  *)
(* package that wants the same case-folded name.                             *)
EXTENDS RepoService, TLC

CONSTANTS u1, u2, v1, d1, d2

MCUuid == {u1, u2}
MCName == {"Battery", "battery"}
MCVersion == {v1}
MCDigest == {d1, d2}
MCLower(n) == "battery"

Pkg(n, u, v, d) == [name |-> n, id |-> u, version |-> v, digest |-> d]

MCSubmissions == {
    Pkg("Battery", u1, v1, d1),
    Pkg("Battery", u1, v1, d2),
    Pkg("battery", u2, v1, d1) }

\* For the temporal properties: one package and its squatter.
MCTwoSubmissions == {
    Pkg("Battery", u1, v1, d1),
    Pkg("battery", u2, v1, d1) }

\* Requests differ only in what they submit, and refreshes in nothing.
MCSymmetry == Permutations(Request) \cup Permutations(Refresh)

=============================================================================
