------------------------------ MODULE Catalog ------------------------------
(***************************************************************************)
(* What internal/index promises its callers: the index is one list of      *)
(* manifests with a build stamp, every call takes effect at one instant,   *)
(* and every call returns.                                                 *)
(*                                                                         *)
(* The state is the history of the list.  Its last element is the index    *)
(* now, and a position in it stands for the time at which that list came   *)
(* to be.                                                                  *)
(***************************************************************************)
EXTENDS IndexCalls, FiniteSets

CONSTANTS
    Handler,   \* goroutines that call the index
    Programs   \* the sequences of calls a handler may make

VARIABLES
    past,      \* every list the index has been, oldest first
    program,   \* [Handler -> the calls it makes]
    replies    \* [Handler -> what the calls made so far returned]

vars == <<past, program, replies>>

ListNow == past[Len(past)]

\* The list an update leaves behind.
Updated(call, ms) ==
    IF call.op = "Add" THEN Append(ms, call.manifest) ELSE call.manifests

\* The entries of ms at the given places, in their order.
Sublist(ms, places) ==
    LET Rank(i) == Cardinality({j \in places : j <= i})
    IN  [k \in 1 .. Cardinality(places) |-> ms[CHOOSE i \in places : Rank(i) = k]]

ByUuid(ms, u) == Sublist(ms, {i \in DOMAIN ms : ms[i].id = u})
ByName(ms, n) == Sublist(ms, {i \in DOMAIN ms : NameKey(ms[i]) = Lower(n)})
ListingOrNotFound(ms) == IF ms = <<>> THEN NotFound ELSE Listing(ms)

\* What a query returns when the list is ms, as old as t.
Answer(call, ms, t) ==
    CASE call.op = "QueryAll"     -> Listing(ms)
      [] call.op = "BuiltAt"      -> Stamp(t)
      [] call.op = "QueryByUUID"  -> ListingOrNotFound(ByUuid(ms, call.uuid))
      [] call.op = "QueryByName"  -> ListingOrNotFound(ByName(ms, call.name))
      [] call.op = "Exists"       -> Answered(Exists(ms, call.uuid, call.version))
      [] call.op = "NameConflict" ->
             ConflictName(IF NameConflict(ms, call.name, call.uuid)
                          THEN ByName(ms, call.name)[1].name ELSE NoName)

Init ==
    /\ past = << <<>> >>
    /\ program \in [Handler -> Programs]
    /\ replies = [h \in Handler |-> <<>>]

Finished(h) == Len(replies[h]) + 1 \notin DOMAIN program[h]
NextCall(h) == program[h][Len(replies[h]) + 1]
Return(h, reply) == replies' = [replies EXCEPT ![h] = Append(@, reply)]

Update(h) ==
    /\ ~Finished(h)
    /\ IsUpdate(NextCall(h))
    /\ past' = Append(past, Updated(NextCall(h), ListNow))
    /\ Return(h, Done)
    /\ UNCHANGED program

Query(h) ==
    /\ ~Finished(h)
    /\ ~IsUpdate(NextCall(h))
    /\ Return(h, Answer(NextCall(h), ListNow, Len(past)))
    /\ UNCHANGED <<past, program>>

MakeCall(h) == Update(h) \/ Query(h)

Next == \E h \in Handler : MakeCall(h)

\* What a caller can observe of the index ...
SafeSpec == Init /\ [][Next]_vars

\* ... and that every call of its returns.
Spec == SafeSpec /\ \A h \in Handler : WF_vars(MakeCall(h))

=============================================================================
