--------------------------- MODULE MCPackageIndex ---------------------------
(* PackageIndex with three handlers that each run any program: two UUIDs     *)
(* under one folded name, one UUID with two versions, and a second name.     *)
EXTENDS PackageIndex

CONSTANTS u1, u2, v1, v2, d1

MCUuid == {u1, u2}
MCName == {"Battery", "battery", "Cell", "cell"}
MCVersion == {v1, v2}
MCDigest == {d1}
MCLower(n) == IF n \in {"Battery", "battery"} THEN "battery" ELSE "cell"

Pkg(n, u, v) == [name |-> n, id |-> u, version |-> v, digest |-> d1]

MCPrograms == {
    HandleIndex,
    HandleByUUID(u1),
    HandleByName("battery"),
    PublishChecks(Pkg("Battery", u1, v1)),
    PublishAdds(Pkg("Battery", u1, v1)),
    PublishAdds(Pkg("battery", u2, v1)),
    HandleRefresh(<<Pkg("Cell", u1, v2), Pkg("Battery", u1, v1)>>),
    HandleRefresh(<<>>) }

\* The places of Catalog's sublists pick what SelectSeq picks.
ASSUME SublistIsSelectSeq ==
    \A n \in 0 .. 3, u \in MCUuid, name \in {"battery", "Cell"} :
        \A ms \in [1 .. n -> [name : {"Battery", "battery", "cell"}, id : MCUuid,
                              version : {v1}, digest : {d1}]] :
            /\ Abstract!ByUuid(ms, u) = SelectSeq(ms, LAMBDA m : m.id = u)
            /\ Abstract!ByName(ms, name) = SelectSeq(ms, LAMBDA m : NameKey(m) = Lower(name))

=============================================================================
