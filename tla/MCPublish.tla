----------------------------- MODULE MCPublish -----------------------------
(* Publish on a small instance: two UUIDs that want one case-folded name,    *)
(* two builds of one version, a second version under a recased name, and a   *)
(* package that changes its name without changing its version.               *)
EXTENDS Publish, TLC

CONSTANTS u1, u2, v1, v2, d1, d2

MCUuid == {u1, u2}
MCName == {"Battery", "battery", "Cell", "cell"}
MCVersion == {v1, v2}
MCDigest == {d1, d2}
MCLower(n) == IF n \in {"Battery", "battery"} THEN "battery" ELSE "cell"

Pkg(n, u, v, d) == [name |-> n, id |-> u, version |-> v, digest |-> d]

MCSubmissions == {
    Pkg("Battery", u1, v1, d1),
    Pkg("Battery", u1, v1, d2),   \* the same version, built again
    Pkg("battery", u1, v2, d1),   \* the owner's next version, recased
    Pkg("battery", u2, v1, d1),   \* another package under the same folded name
    Pkg("Cell", u1, v1, d2) }     \* the first package under a new name

\* Requests differ only in what they submit, which Init leaves open.
MCSymmetry == Permutations(Request)

=============================================================================
