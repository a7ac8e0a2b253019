---------------------------- MODULE IndexCalls ----------------------------
(***************************************************************************)
(* The calls internal/handler makes on internal/index, and the sequences   *)
(* of calls its handlers make.                                             *)
(***************************************************************************)
EXTENDS Manifests, Naturals

QueryAll == [op |-> "QueryAll"]
BuiltAt == [op |-> "BuiltAt"]
QueryByUUID(u) == [op |-> "QueryByUUID", uuid |-> u]
QueryByName(n) == [op |-> "QueryByName", name |-> n]
NameConflictOf(m) == [op |-> "NameConflict", name |-> m.name, uuid |-> m.id]
ExistsOf(m) == [op |-> "Exists", uuid |-> m.id, version |-> m.version]
Add(m) == [op |-> "Add", manifest |-> m]
Build(ms) == [op |-> "Build", manifests |-> ms]

Call ==
    [op : {"QueryAll", "BuiltAt"}]
        \cup [op : {"QueryByUUID"}, uuid : Uuid]
        \cup [op : {"QueryByName"}, name : Name]
        \cup [op : {"NameConflict"}, name : Name, uuid : Uuid]
        \cup [op : {"Exists"}, uuid : Uuid, version : Version]
        \cup [op : {"Add"}, manifest : Manifest]
        \cup [op : {"Build"}, manifests : Seq(Manifest)]

IsUpdate(call) == call.op \in {"Add", "Build"}

\* Replies, told apart by their only field.
Done == [done |-> TRUE]
NotFound == [notFound |-> TRUE]
Listing(ms) == [packages |-> ms]
Stamp(t) == [time |-> t]
ConflictName(n) == [conflict |-> n]
Answered(b) == [exists |-> b]

NoName == ""

-----------------------------------------------------------------------------
(* Handlers.                                                                 *)

\* GET index.json reads the list and its stamp in two calls.
HandleIndex == <<QueryAll, BuiltAt>>

HandleByUUID(u) == <<QueryByUUID(u)>>
HandleByName(n) == <<QueryByName(n)>>

\* POST refresh, once ListManifests has returned ms.
HandleRefresh(ms) == <<Build(ms), BuiltAt>>

\* POST publish before and after its upload.
PublishChecks(m) == <<NameConflictOf(m), ExistsOf(m)>>
PublishAdds(m) == <<Add(m)>>

=============================================================================
