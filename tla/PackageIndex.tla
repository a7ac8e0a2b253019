---------------------------- MODULE PackageIndex ----------------------------
(***************************************************************************)
(* internal/index/index.go: the list, the two maps derived from it and the *)
(* build stamp, behind an RWMutex, called by the handlers.  Updates change *)
(* the fields one after the other; only the lock keeps readers from seeing *)
(* the fields disagree.                                                    *)
(***************************************************************************)
EXTENDS IndexCalls

CONSTANTS
    Handler,   \* goroutines that call the index
    Programs,  \* the sequences of calls a handler may make
    NoOne      \* no goroutine

ASSUME NoOneAssumption == NoOne \notin Handler
ASSUME ProgramsAssumption == Programs \subseteq Seq(Call)

VARIABLES
    all,       \* Index.all
    byUUID,    \* Index.byUUID: UUIDs that have entries -> their manifests
    byName,    \* Index.byName: the same for folded names
    builtAt,   \* Index.builtAt, as a position in past
    writer,    \* mu: the goroutine that announced or holds the write lock
    readers,   \* mu: the goroutines that hold the read lock
    step,      \* where each goroutine is in its call
    rest,      \* manifests the current update has still to file in the maps
    program,   \* [Handler -> the calls it makes]
    replies,   \* [Handler -> what the calls made so far returned]
    past       \* every list the index has been: read by properties only

fields == <<all, byUUID, byName, builtAt>>
mutex == <<writer, readers>>
vars == <<fields, mutex, step, rest, program, replies, past>>

Steps == {"idle", "announced", "writing", "filing", "reading"}

NameKeys == {Lower(n) : n \in Name}

EmptyMap == [k \in {} |-> <<>>]

Reply ==
    {Done, NotFound} \cup [packages : Seq(Manifest)] \cup [time : Nat]
        \cup [conflict : Name \cup {NoName}] \cup [exists : BOOLEAN]

\* A map from some of the keys to lists of manifests.
MapsFrom(keys, m) ==
    DOMAIN m \subseteq keys /\ \A k \in DOMAIN m : m[k] \in Seq(Manifest)

TypeOK ==
    /\ all \in Seq(Manifest)
    /\ MapsFrom(Uuid, byUUID)
    /\ MapsFrom(NameKeys, byName)
    /\ builtAt \in Nat
    /\ writer \in Handler \cup {NoOne}
    /\ readers \subseteq Handler
    /\ step \in [Handler -> Steps]
    /\ rest \in Seq(Manifest)
    /\ program \in [Handler -> Programs]
    /\ replies \in [Handler -> Seq(Reply)]
    /\ past \in Seq(Seq(Manifest))

Init ==
    /\ all = <<>>
    /\ byUUID = EmptyMap
    /\ byName = EmptyMap
    /\ builtAt = 1
    /\ writer = NoOne
    /\ readers = {}
    /\ step = [h \in Handler |-> "idle"]
    /\ rest = <<>>
    /\ program \in [Handler -> Programs]
    /\ replies = [h \in Handler |-> <<>>]
    /\ past = << <<>> >>

Finished(h) == Len(replies[h]) + 1 \notin DOMAIN program[h]
NextCall(h) == program[h][Len(replies[h]) + 1]
Goto(h, s) == step' = [step EXCEPT ![h] = s] /\ UNCHANGED program
Return(h, reply) ==
    replies' = [replies EXCEPT ![h] = Append(@, reply)] /\ Goto(h, "idle")

-----------------------------------------------------------------------------
(* sync.RWMutex: a writer announces itself, which keeps new readers out, and *)
(* enters once the present ones have left.                                   *)

Lock(h) ==
    /\ step[h] = "idle" /\ ~Finished(h) /\ IsUpdate(NextCall(h))
    /\ writer = NoOne
    /\ writer' = h
    /\ Goto(h, "announced")
    /\ UNCHANGED <<fields, readers, rest, replies, past>>

Enter(h) ==
    /\ step[h] = "announced"
    /\ readers = {}
    /\ Goto(h, "writing")
    /\ UNCHANGED <<fields, mutex, rest, replies, past>>

\* Mutant: a query that does not take the lock.
RLockSkipped(h) ==
    /\ step[h] = "idle" /\ ~Finished(h) /\ ~IsUpdate(NextCall(h))
    /\ Goto(h, "reading")
    /\ UNCHANGED <<fields, mutex, rest, replies, past>>

RLock(h) ==
    /\ step[h] = "idle" /\ ~Finished(h) /\ ~IsUpdate(NextCall(h))
    /\ writer = NoOne
    /\ readers' = readers \cup {h}
    /\ Goto(h, "reading")
    /\ UNCHANGED <<fields, writer, rest, replies, past>>

-----------------------------------------------------------------------------
(* Build and Add, inside the write lock.                                     *)

\* m[key] = append(m[key], x)
Push(map, key, x) ==
    [k \in DOMAIN map \cup {key} |->
        IF k # key THEN map[k]
        ELSE IF key \in DOMAIN map THEN Append(map[key], x) ELSE <<x>>]

\* Mutant: the maps of the previous build are kept.
BuildKeepsMaps(h) ==
    /\ step[h] = "writing" /\ NextCall(h).op = "Build"
    /\ builtAt' = Len(past) + 1
    /\ all' = NextCall(h).manifests
    /\ rest' = NextCall(h).manifests
    /\ past' = Append(past, all')
    /\ Goto(h, "filing")
    /\ UNCHANGED <<byUUID, byName, mutex, replies>>

\* Build: stamp, copy the list, empty the maps ...
BuildList(h) ==
    /\ step[h] = "writing" /\ NextCall(h).op = "Build"
    /\ builtAt' = Len(past) + 1
    /\ all' = NextCall(h).manifests
    /\ byUUID' = EmptyMap
    /\ byName' = EmptyMap
    /\ rest' = NextCall(h).manifests
    /\ past' = Append(past, all')
    /\ Goto(h, "filing")
    /\ UNCHANGED <<mutex, replies>>

\* Add: append to the list ...
AddToList(h) ==
    /\ step[h] = "writing" /\ NextCall(h).op = "Add"
    /\ all' = Append(all, NextCall(h).manifest)
    /\ rest' = <<NextCall(h).manifest>>
    /\ past' = Append(past, all')
    /\ Goto(h, "filing")
    /\ UNCHANGED <<byUUID, byName, builtAt, mutex, replies>>

\* Mutant: the name is not folded when the entry is filed.
FileUnfolded(h) ==
    /\ step[h] = "filing" /\ rest # <<>>
    /\ byUUID' = Push(byUUID, Head(rest).id, Head(rest))
    /\ byName' = Push(byName, Head(rest).name, Head(rest))
    /\ rest' = Tail(rest)
    /\ UNCHANGED <<all, builtAt, mutex, step, program, replies, past>>

\* ... then, in both, file each manifest under its UUID and its folded name ...
File(h) ==
    /\ step[h] = "filing" /\ rest # <<>>
    /\ byUUID' = Push(byUUID, Head(rest).id, Head(rest))
    /\ byName' = Push(byName, NameKey(Head(rest)), Head(rest))
    /\ rest' = Tail(rest)
    /\ UNCHANGED <<all, builtAt, mutex, step, program, replies, past>>

\* ... and unlock, Add after stamping the index.
Unlock(h) ==
    /\ step[h] = "filing" /\ rest = <<>>
    /\ builtAt' = IF NextCall(h).op = "Add" THEN Len(past) ELSE builtAt
    /\ writer' = NoOne
    /\ Return(h, Done)
    /\ UNCHANGED <<all, byUUID, byName, readers, rest, past>>

-----------------------------------------------------------------------------
(* The queries, inside the read lock.                                        *)

ListingAt(map, key) == IF key \in DOMAIN map THEN Listing(map[key]) ELSE NotFound

\* A map lookup without a check yields nil for a missing key.
ValuesAt(map, key) == IF key \in DOMAIN map THEN Range(map[key]) ELSE {}

\* NameConflict: no conflict for a name nobody has or this UUID already has;
\* otherwise the first entry's name.
FirstConflict(n, u) ==
    LET key == Lower(n) IN
    IF key \notin DOMAIN byName \/ \E m \in ValuesAt(byName, key) : m.id = u
    THEN NoName
    ELSE byName[key][1].name

Answer(call) ==
    CASE call.op = "QueryAll"     -> Listing(all)
      [] call.op = "BuiltAt"      -> Stamp(builtAt)
      [] call.op = "QueryByUUID"  -> ListingAt(byUUID, call.uuid)
      [] call.op = "QueryByName"  -> ListingAt(byName, Lower(call.name))
      [] call.op = "Exists"       ->
             Answered(\E m \in ValuesAt(byUUID, call.uuid) : m.version = call.version)
      [] call.op = "NameConflict" -> ConflictName(FirstConflict(call.name, call.uuid))

\* Mutant: the early return of an unknown key forgets the lock.
QueryLeaks(h) ==
    /\ step[h] = "reading"
    /\ Return(h, Answer(NextCall(h)))
    /\ readers' = IF Answer(NextCall(h)) = NotFound THEN readers ELSE readers \ {h}
    /\ UNCHANGED <<fields, writer, rest, past>>

Query(h) ==
    /\ step[h] = "reading"
    /\ Return(h, Answer(NextCall(h)))
    /\ readers' = readers \ {h}
    /\ UNCHANGED <<fields, writer, rest, past>>

-----------------------------------------------------------------------------

Step(h) ==
    \/ Lock(h) \/ Enter(h) \/ BuildList(h) \/ AddToList(h) \/ File(h) \/ Unlock(h)
    \/ RLock(h) \/ Query(h)

Next == \E h \in Handler : Step(h)

\* A goroutine that can run is scheduled.  No call blocks but on the lock.
Spec == Init /\ [][Next]_vars /\ \A h \in Handler : WF_vars(Step(h))

-----------------------------------------------------------------------------
(* Properties.                                                               *)

\* A goroutine that changes the fields is alone with them (every method's
\* Lock/RLock and deferred unlock).
WriterAlone ==
    \A h \in Handler : step[h] \in {"writing", "filing"} =>
        readers = {} /\ \A g \in Handler \ {h} : step[g] \notin {"writing", "filing", "reading"}

\* While nobody is changing the index, the maps file exactly what the list
\* holds: each entry under its UUID and its folded name, and no key is there
\* without an entry, since a key's presence is what tells 200 from 404
\* (index.go:36-119).
MapsAgree ==
    (\A h \in Handler : step[h] # "filing") =>
        /\ \A u \in Uuid : /\ ValuesAt(byUUID, u) = WithUuid(all, u)
                           /\ u \in DOMAIN byUUID => byUUID[u] # <<>>
        /\ \A n \in Name : /\ ValuesAt(byName, Lower(n)) = WithName(all, n)
                           /\ Lower(n) \in DOMAIN byName => byName[Lower(n)] # <<>>

\* An index.json response never carries a list that is newer than its
\* lastModified: the list in it was the index at the stamped time or before.  It
\* may well be older, ListIsStamped below (query.go:29-38).
ReplyTo(h, call) ==
    replies[h][CHOOSE i \in DOMAIN program[h] : program[h][i] = call]
IndexServed(h) ==
    Finished(h) /\ Len(program[h]) = 2 /\ QueryAll \in Range(program[h])
StampNotOlder ==
    \A h \in Handler : IndexServed(h) =>
        \E i \in 1 .. ReplyTo(h, BuiltAt).time :
            Listing(past[i]) = ReplyTo(h, QueryAll)

\* The index is the catalogue: every call takes effect at one instant and
\* returns.  An update takes effect where the list changes, a query where it
\* reads.
Abstract == INSTANCE Catalog WITH
    past <- past,
    program <- program,
    replies <- [h \in Handler |->
                   IF step[h] = "filing" THEN Append(replies[h], Done) ELSE replies[h]]

IsCatalog == Abstract!Spec

\* No call waits for ever, readers and writers never block each other for good.
EveryCallReturns == \A h \in Handler : <>Finished(h)

-----------------------------------------------------------------------------
(* What the documents say and the interleavings break.                       *)

\* lastModified is the "timestamp indicating when the data was last modified"
\* (API specification, index.json): the list of a response is what the index
\* became at the time it is stamped with.
ListIsStamped ==
    \A h \in Handler : IndexServed(h) =>
        Listing(past[ReplyTo(h, BuiltAt).time]) = ReplyTo(h, QueryAll)

=============================================================================
