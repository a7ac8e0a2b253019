------------------------- MODULE PackageIndexProofs -------------------------
(***************************************************************************)
(* Proofs about PackageIndex, for any number of goroutines running any     *)
(* programs over any packages.                                             *)
(***************************************************************************)
EXTENDS PackageIndex, SequenceTheorems, TLAPS

(* The inductive invariant.                                                  *)

\* Who holds the lock is where its steps say it is, and whoever is inside a
\* call is making one.
LockHeld ==
    /\ \A h \in Handler :
           /\ step[h] \in {"announced", "writing", "filing"} <=> writer = h
           /\ step[h] = "reading" <=> h \in readers
           /\ step[h] \in {"writing", "filing"} => readers = {}
           /\ step[h] # "idle" => NextCall(h) \in Call
           /\ step[h] = "reading" => ~IsUpdate(NextCall(h))

\* What the maps hold and what is still to be filed make up the list.
Filed(map, key, ms) == ValuesAt(map, key) \cup ms
FilingProgress ==
    /\ (\A h \in Handler : step[h] # "filing") => rest = <<>>
    /\ \A u \in Uuid :
           /\ Filed(byUUID, u, WithUuid(rest, u)) = WithUuid(all, u)
           /\ u \in DOMAIN byUUID => byUUID[u] # <<>>
    /\ \A n \in Name :
           /\ Filed(byName, Lower(n), WithName(rest, n)) = WithName(all, n)
           /\ Lower(n) \in DOMAIN byName => byName[Lower(n)] # <<>>

IInv == TypeOK /\ LockHeld /\ FilingProgress

-----------------------------------------------------------------------------
(* Lemmas about the data.                                                    *)

LEMMA RangeAppend ==
    ASSUME NEW S, NEW s \in Seq(S), NEW x \in S
    PROVE  Range(Append(s, x)) = Range(s) \cup {x}
<1>1. /\ Append(s, x) \in Seq(S)
      /\ DOMAIN Append(s, x) = 1 .. Len(s) + 1
      /\ \A i \in 1 .. Len(s) : Append(s, x)[i] = s[i]
      /\ Append(s, x)[Len(s) + 1] = x
      /\ Len(s) \in Nat
      /\ DOMAIN s = 1 .. Len(s)
  BY AppendProperties, LenProperties
<1>2. \A i : i \in 1 .. Len(s) + 1 <=> i \in 1 .. Len(s) \/ i = Len(s) + 1
  BY <1>1
<1>3. QED
  BY <1>1, <1>2 DEF Range

LEMMA RangeSingle ==
    ASSUME NEW S, NEW x \in S
    PROVE  /\ <<x>> \in Seq(S)
           /\ Range(<<x>>) = {x}
           /\ <<x>> # <<>>
BY DEF Range

LEMMA RangeHeadTail ==
    ASSUME NEW S, NEW s \in Seq(S), s # <<>>
    PROVE  /\ Head(s) \in S
           /\ Tail(s) \in Seq(S)
           /\ Range(s) = {Head(s)} \cup Range(Tail(s))
<1>1. /\ Head(s) = s[1] /\ Head(s) \in S
      /\ Tail(s) \in Seq(S)
      /\ Len(s) \in Nat \ {0}
      /\ Len(Tail(s)) = Len(s) - 1
      /\ \A i \in 1 .. Len(Tail(s)) : Tail(s)[i] = s[i + 1]
      /\ DOMAIN s = 1 .. Len(s)
      /\ DOMAIN Tail(s) = 1 .. Len(s) - 1
  BY HeadTailProperties, LenProperties, EmptySeq
<1>2. ASSUME NEW i \in 1 .. Len(s), i # 1
      PROVE  i - 1 \in 1 .. Len(s) - 1 /\ Tail(s)[i - 1] = s[i]
  BY <1>1, <1>2
<1>3. ASSUME NEW i \in 1 .. Len(s) - 1
      PROVE  i + 1 \in 1 .. Len(s) /\ Tail(s)[i] = s[i + 1]
  BY <1>1, <1>3
<1>4. ASSUME NEW i \in DOMAIN s
      PROVE  s[i] \in {Head(s)} \cup Range(Tail(s))
  BY <1>1, <1>2, <1>4 DEF Range
<1>5. ASSUME NEW i \in DOMAIN Tail(s)
      PROVE  Tail(s)[i] \in Range(s)
  BY <1>1, <1>3, <1>5 DEF Range
<1>6. Head(s) \in Range(s)
  BY <1>1 DEF Range
<1>7. Range(s) \subseteq {Head(s)} \cup Range(Tail(s))
  BY <1>4 DEF Range
<1>8. Range(Tail(s)) \subseteq Range(s)
  BY <1>5 DEF Range
<1>9. QED
  BY <1>1, <1>6, <1>7, <1>8

\* Filing an entry adds it under its key and leaves the other keys alone.
Filing(keys, map, key, x, new) ==
    /\ MapsFrom(keys, new)
    /\ ValuesAt(new, key) = ValuesAt(map, key) \cup {x}
    /\ \A k : k # key => ValuesAt(new, k) = ValuesAt(map, k)
    /\ DOMAIN new = DOMAIN map \cup {key}
    /\ new[key] # <<>>
    /\ \A k \in DOMAIN map \ {key} : new[k] = map[k]

LEMMA PushFiles ==
    ASSUME NEW keys, NEW map, MapsFrom(keys, map), NEW key \in keys, NEW x \in Manifest
    PROVE  Filing(keys, map, key, x, Push(map, key, x))
<1>1. /\ DOMAIN Push(map, key, x) = DOMAIN map \cup {key}
      /\ \A k \in DOMAIN map \ {key} : Push(map, key, x)[k] = map[k]
      /\ Push(map, key, x)[key] =
             IF key \in DOMAIN map THEN Append(map[key], x) ELSE <<x>>
  BY DEF Push
<1>2. CASE key \in DOMAIN map
  <2>1. map[key] \in Seq(Manifest)
    BY <1>2 DEF MapsFrom
  <2>2. /\ Append(map[key], x) \in Seq(Manifest)
        /\ Append(map[key], x) # <<>>
        /\ Range(Append(map[key], x)) = Range(map[key]) \cup {x}
    BY <2>1, AppendProperties, RangeAppend
  <2>3. QED
    BY <1>1, <1>2, <2>2 DEF Filing, MapsFrom, ValuesAt
<1>3. CASE key \notin DOMAIN map
  <2>1. Push(map, key, x)[key] = <<x>>
    BY <1>1, <1>3
  <2>2. <<x>> \in Seq(Manifest) /\ <<x>> # <<>> /\ Range(<<x>>) = {x}
    BY RangeSingle
  <2>3. MapsFrom(keys, Push(map, key, x))
    BY <1>1, <2>1, <2>2 DEF MapsFrom
  <2>4. /\ ValuesAt(Push(map, key, x), key) = ValuesAt(map, key) \cup {x}
        /\ \A k : k # key => ValuesAt(Push(map, key, x), k) = ValuesAt(map, k)
    BY <1>1, <1>3, <2>1, <2>2 DEF ValuesAt
  <2>5. QED
    BY <1>1, <2>1, <2>2, <2>3, <2>4 DEF Filing
<1>4. QED
  BY <1>2, <1>3

LEMMA EmptyMapValues ==
    /\ \A keys : MapsFrom(keys, EmptyMap)
    /\ \A k : ValuesAt(EmptyMap, k) = {}
    /\ DOMAIN EmptyMap = {}
BY DEF MapsFrom, ValuesAt, EmptyMap

LEMMA NothingLeft ==
    /\ \A u : WithUuid(<<>>, u) = {}
    /\ \A n : WithName(<<>>, n) = {}
BY DEF WithUuid, WithName, Range

LEMMA CallTypes ==
    ASSUME NEW c \in Call
    PROVE  /\ c.op = "Add" => c.manifest \in Manifest
           /\ c.op = "Build" => c.manifests \in Seq(Manifest)
BY DEF Call

-----------------------------------------------------------------------------
(* The invariant holds initially and every step keeps it.                    *)

LEMMA InitIInv == Init => IInv
<1> SUFFICES ASSUME Init PROVE IInv
  OBVIOUS
<1> USE DEF Init
<1>1. TypeOK
  <2>1. <<>> \in Seq(Manifest) /\ << <<>> >> \in Seq(Seq(Manifest))
    BY EmptySeq, RangeSingle
  <2>2. MapsFrom(Uuid, byUUID) /\ MapsFrom(NameKeys, byName)
    BY EmptyMapValues
  <2>3. replies \in [Handler -> Seq(Reply)]
    BY EmptySeq
  <2>4. QED
    BY <2>1, <2>2, <2>3 DEF TypeOK, Steps
<1>2. LockHeld
  BY NoOneAssumption DEF LockHeld
<1>3. FilingProgress
  BY EmptyMapValues, NothingLeft DEF FilingProgress, Filed
<1>4. QED
  BY <1>1, <1>2, <1>3 DEF IInv

\* The call a goroutine is about to make, or is making, is one of Call.
LEMMA NextCallTypes ==
    ASSUME IInv, NEW h \in Handler, ~Finished(h) \/ step[h] # "idle"
    PROVE  NextCall(h) \in Call
<1>1. CASE ~Finished(h)
  <2>1. program[h] \in Seq(Call)
    BY ProgramsAssumption DEF IInv, TypeOK
  <2>2. Len(replies[h]) + 1 \in 1 .. Len(program[h])
    BY <1>1, <2>1, LenProperties DEF Finished
  <2>3. QED
    BY <2>1, <2>2, ElementOfSeq DEF NextCall
<1>2. QED
  BY <1>1 DEF IInv, LockHeld

\* A step that moves the lock and leaves the index alone.
LEMMA LockStep ==
    ASSUME IInv, NEW h \in Handler, Lock(h) \/ Enter(h) \/ RLock(h)
    PROVE  IInv'
<1>1. TypeOK'
  BY DEF IInv, TypeOK, Lock, Enter, RLock, Goto, fields, mutex, Steps, MapsFrom
<1>2. LockHeld'
  <2>1. NextCall(h) \in Call
    BY NextCallTypes DEF Lock, Enter, RLock
  <2>2. /\ step \in [Handler -> Steps] /\ \A g \in Handler : NextCall(g)' = NextCall(g)
        /\ h # NoOne
    BY NoOneAssumption
    DEF IInv, TypeOK, Lock, Enter, RLock, Goto, fields, mutex, NextCall
  <2>3. CASE Lock(h)
    BY <2>1, <2>2, <2>3, NoOneAssumption DEF IInv, LockHeld, Lock, Goto
  <2>4. CASE Enter(h)
    BY <2>1, <2>2, <2>4 DEF IInv, LockHeld, Enter, Goto, mutex
  <2>5. CASE RLock(h)
    BY <2>1, <2>2, <2>5, NoOneAssumption DEF IInv, LockHeld, RLock, Goto, TypeOK
  <2>6. QED
    BY <2>3, <2>4, <2>5
<1>3. FilingProgress'
  <2>1. \A g \in Handler : step'[g] = "filing" <=> step[g] = "filing"
    BY DEF IInv, TypeOK, Lock, Enter, RLock, Goto
  <2>2. UNCHANGED <<all, byUUID, byName, rest>>
    BY DEF Lock, Enter, RLock, fields
  <2>3. QED
    BY <2>1, <2>2 DEF IInv, FilingProgress
<1>4. QED
  BY <1>1, <1>2, <1>3 DEF IInv

LEMMA BuildListStep ==
    ASSUME IInv, NEW h \in Handler, BuildList(h)
    PROVE  IInv'
<1> DEFINE ms == NextCall(h).manifests
<1>1. ms \in Seq(Manifest)
  BY NextCallTypes, CallTypes DEF BuildList
<1>2. TypeOK'
  <2>1. Append(past, ms) \in Seq(Seq(Manifest)) /\ Len(past) \in Nat
    BY <1>1, AppendProperties, LenProperties DEF IInv, TypeOK
  <2>2. QED
    BY <1>1, <2>1, EmptyMapValues DEF IInv, TypeOK, BuildList, Goto, mutex, Steps
<1>3. LockHeld'
  BY DEF IInv, TypeOK, LockHeld, BuildList, Goto, mutex, NextCall
<1>4. FilingProgress'
  <2>1. \E g \in Handler : step'[g] = "filing"
    BY DEF IInv, TypeOK, BuildList, Goto
  <2>2. /\ all' = ms /\ rest' = ms /\ byUUID' = EmptyMap /\ byName' = EmptyMap
    BY DEF BuildList
  <2>3. QED
    BY <2>1, <2>2, EmptyMapValues DEF FilingProgress, Filed
<1>5. QED
  BY <1>2, <1>3, <1>4 DEF IInv

LEMMA AddToListStep ==
    ASSUME IInv, NEW h \in Handler, AddToList(h)
    PROVE  IInv'
<1> DEFINE m == NextCall(h).manifest
<1>1. m \in Manifest
  BY NextCallTypes, CallTypes DEF AddToList
<1>2. /\ Append(all, m) \in Seq(Manifest)
      /\ Range(Append(all, m)) = Range(all) \cup {m}
      /\ <<m>> \in Seq(Manifest) /\ Range(<<m>>) = {m}
      /\ Append(past, Append(all, m)) \in Seq(Seq(Manifest))
  BY <1>1, AppendProperties, RangeAppend, RangeSingle DEF IInv, TypeOK
<1> HIDE DEF m
<1>3. /\ all' = Append(all, m) /\ rest' = <<m>> /\ past' = Append(past, Append(all, m))
      /\ UNCHANGED <<byUUID, byName, builtAt, writer, readers, replies, program>>
      /\ step[h] = "writing" /\ step' = [step EXCEPT ![h] = "filing"]
  BY DEF AddToList, Goto, mutex, m
<1>4. TypeOK'
  BY <1>2, <1>3 DEF IInv, TypeOK, Steps, MapsFrom
<1>5. LockHeld'
  BY <1>3 DEF IInv, TypeOK, LockHeld, NextCall
<1>6. FilingProgress'
  <2>1. \E g \in Handler : step'[g] = "filing"
    BY <1>3 DEF IInv, TypeOK
  <2>2. rest = <<>>
    BY <1>3 DEF IInv, LockHeld, FilingProgress
  <2>3. \A u \in Uuid : /\ ValuesAt(byUUID, u) = WithUuid(all, u)
                        /\ WithUuid(all', u) = WithUuid(all, u) \cup WithUuid(rest', u)
    BY <1>2, <1>3, <2>2, NothingLeft DEF IInv, FilingProgress, Filed, WithUuid
  <2>4. \A n \in Name : /\ ValuesAt(byName, Lower(n)) = WithName(all, n)
                        /\ WithName(all', n) = WithName(all, n) \cup WithName(rest', n)
    BY <1>2, <1>3, <2>2, NothingLeft DEF IInv, FilingProgress, Filed, WithName
  <2>5. QED
    BY <1>3, <2>1, <2>3, <2>4 DEF IInv, FilingProgress, Filed
<1>7. QED
  BY <1>4, <1>5, <1>6 DEF IInv

LEMMA FileStep ==
    ASSUME IInv, NEW h \in Handler, File(h)
    PROVE  IInv'
<1> DEFINE m == Head(rest)
<1>1. /\ m \in Manifest /\ Tail(rest) \in Seq(Manifest)
      /\ Range(rest) = {m} \cup Range(Tail(rest))
  BY RangeHeadTail DEF IInv, TypeOK, File
<1>2. m.id \in Uuid /\ m.name \in Name /\ NameKey(m) \in NameKeys
      /\ NameKey(m) = Lower(m.name)
  BY <1>1 DEF Manifest, NameKey, NameKeys
<1> HIDE DEF m
<1>3. /\ byUUID' = Push(byUUID, m.id, m) /\ byName' = Push(byName, NameKey(m), m)
      /\ rest' = Tail(rest)
      /\ UNCHANGED <<all, builtAt, writer, readers, step, program, replies, past>>
      /\ step[h] = "filing"
  BY DEF File, mutex, m
<1>4. Filing(Uuid, byUUID, m.id, m, byUUID')
  <2>1. MapsFrom(Uuid, byUUID)
    BY DEF IInv, TypeOK
  <2>2. QED
    BY <1>1, <1>2, <1>3, <2>1, PushFiles
<1>5. Filing(NameKeys, byName, NameKey(m), m, byName')
  <2>1. MapsFrom(NameKeys, byName)
    BY DEF IInv, TypeOK
  <2>2. QED
    BY <1>1, <1>2, <1>3, <2>1, PushFiles
<1>6. TypeOK'
  BY <1>1, <1>3, <1>4, <1>5 DEF IInv, TypeOK, Filing
<1>7. LockHeld'
  BY <1>3 DEF IInv, LockHeld, NextCall
<1>8. FilingProgress'
  <2>1. ASSUME NEW u \in Uuid
        PROVE  /\ Filed(byUUID', u, WithUuid(rest', u)) = WithUuid(all', u)
               /\ u \in DOMAIN byUUID' => byUUID'[u] # <<>>
    <3>1. /\ Filed(byUUID, u, WithUuid(rest, u)) = WithUuid(all, u)
          /\ u \in DOMAIN byUUID => byUUID[u] # <<>>
      BY DEF IInv, FilingProgress
    <3>2. WithUuid(rest, u) =
              WithUuid(rest', u) \cup (IF m.id = u THEN {m} ELSE {})
      BY <1>1, <1>3 DEF WithUuid
    <3>3. ValuesAt(byUUID', u) = ValuesAt(byUUID, u) \cup (IF m.id = u THEN {m} ELSE {})
      BY <1>4 DEF Filing
    <3>4. QED
      BY <1>3, <1>4, <3>1, <3>2, <3>3 DEF Filed, Filing
  <2>2. ASSUME NEW n \in Name
        PROVE  /\ Filed(byName', Lower(n), WithName(rest', n)) = WithName(all', n)
               /\ Lower(n) \in DOMAIN byName' => byName'[Lower(n)] # <<>>
    <3>1. /\ Filed(byName, Lower(n), WithName(rest, n)) = WithName(all, n)
          /\ Lower(n) \in DOMAIN byName => byName[Lower(n)] # <<>>
      BY DEF IInv, FilingProgress
    <3>2. WithName(rest, n) =
              WithName(rest', n) \cup (IF NameKey(m) = Lower(n) THEN {m} ELSE {})
      BY <1>1, <1>3 DEF WithName
    <3>3. ValuesAt(byName', Lower(n)) =
              ValuesAt(byName, Lower(n)) \cup (IF NameKey(m) = Lower(n) THEN {m} ELSE {})
      BY <1>5 DEF Filing
    <3>4. QED
      BY <1>3, <1>5, <3>1, <3>2, <3>3 DEF Filed, Filing
  <2>3. QED
    BY <1>3, <2>1, <2>2 DEF FilingProgress
<1>9. QED
  BY <1>6, <1>7, <1>8 DEF IInv

\* What a query returns while nobody writes, and what an update returns.
LEMMA AnswerTypes ==
    ASSUME IInv, NEW c \in Call, ~IsUpdate(c)
    PROVE  Answer(c) \in Reply /\ Done \in Reply
<1>1. c.op \in {"QueryAll", "BuiltAt", "QueryByUUID", "QueryByName", "Exists",
                "NameConflict"}
  BY DEF Call, IsUpdate
<1>2. Done \in Reply
  BY DEF Reply
<1>3. CASE c.op = "QueryAll"
  BY <1>3 DEF Answer, Listing, Reply, IInv, TypeOK
<1>4. CASE c.op = "BuiltAt"
  BY <1>4 DEF Answer, Stamp, Reply, IInv, TypeOK
<1>5. CASE c.op = "QueryByUUID"
  <2>1. ListingAt(byUUID, c.uuid) \in Reply
    BY DEF ListingAt, Listing, Reply, IInv, TypeOK, MapsFrom
  <2>2. QED
    BY <1>2, <1>5, <2>1 DEF Answer
<1>6. CASE c.op = "QueryByName"
  <2>1. ListingAt(byName, Lower(c.name)) \in Reply
    BY DEF ListingAt, Listing, Reply, IInv, TypeOK, MapsFrom
  <2>2. QED
    BY <1>2, <1>6, <2>1 DEF Answer
<1>7. CASE c.op = "Exists"
  BY <1>7 DEF Answer, Answered, Reply
<1>8. CASE c.op = "NameConflict"
  <2>1. FirstConflict(c.name, c.uuid) \in Name \cup {NoName}
    <3>1. ASSUME Lower(c.name) \in DOMAIN byName
          PROVE  byName[Lower(c.name)][1].name \in Name
      <4>1. Lower(c.name) \in NameKeys /\ byName[Lower(c.name)] \in Seq(Manifest)
        BY <3>1 DEF IInv, TypeOK, MapsFrom
      <4>2. byName[Lower(c.name)] # <<>>
        BY <3>1, <4>1 DEF IInv, FilingProgress, NameKeys
      <4>3. byName[Lower(c.name)][1] \in Manifest
        <5>1. Len(byName[Lower(c.name)]) \in Nat \ {0}
          BY <4>1, <4>2, EmptySeq
        <5>2. 1 \in 1 .. Len(byName[Lower(c.name)])
          BY <5>1
        <5>3. QED
          BY <4>1, <5>2, ElementOfSeq
      <4>4. QED
        BY <4>3 DEF Manifest
    <3>2. QED
      BY <3>1 DEF FirstConflict
  <2>2. QED
    BY <1>8, <2>1 DEF Answer, ConflictName, Reply
<1>9. QED
  BY <1>1, <1>2, <1>3, <1>4, <1>5, <1>6, <1>7, <1>8

\* The steps that end a call.
LEMMA ReturnStep ==
    ASSUME IInv, NEW h \in Handler, Unlock(h) \/ Query(h)
    PROVE  IInv'
<1>1. /\ UNCHANGED <<all, byUUID, byName, rest, program, past>>
      /\ step' = [step EXCEPT ![h] = "idle"]
      /\ step[h] = "filing" => rest = <<>>
      /\ \A g \in Handler \ {h} : replies'[g] = replies[g]
  BY DEF IInv, TypeOK, Unlock, Query, Return, Goto, fields
<1>2. /\ builtAt' \in Nat
      /\ \/ writer' = NoOne /\ writer = h /\ readers' = readers /\ step[h] = "filing"
         \/ writer' = writer /\ readers' = readers \ {h} /\ step[h] = "reading"
  <2>1. Len(past) \in Nat
    BY LenProperties DEF IInv, TypeOK
  <2>2. QED
    BY <2>1 DEF IInv, TypeOK, LockHeld, Unlock, Query, fields
<1>3. TypeOK'
  <2>1. PICK reply \in Reply : Return(h, reply)
    <3>1. CASE Unlock(h)
      BY <3>1 DEF Unlock, Reply
    <3>2. CASE Query(h)
      BY <3>2, AnswerTypes DEF Query, IInv, LockHeld
    <3>3. QED
      BY <3>1, <3>2
  <2>2. replies' = [replies EXCEPT ![h] = Append(@, reply)]
    BY <2>1 DEF Return
  <2>3. Append(replies[h], reply) \in Seq(Reply)
    BY <2>1, AppendProperties DEF IInv, TypeOK
  <2>4. replies' \in [Handler -> Seq(Reply)]
    BY <2>2, <2>3 DEF IInv, TypeOK
  <2>5. QED
    BY <1>1, <1>2, <2>4 DEF IInv, TypeOK, Steps, MapsFrom
<1>4. LockHeld'
  <2>1. \A g \in Handler \ {h} : NextCall(g)' = NextCall(g)
    BY <1>1 DEF NextCall
  <2>2. \A g \in Handler \ {h} : step'[g] = step[g]
    BY <1>1 DEF IInv, TypeOK
  <2>3. step'[h] = "idle"
    BY <1>1 DEF IInv, TypeOK
  <2>4. QED
    BY <1>2, <2>1, <2>2, <2>3, NoOneAssumption DEF IInv, LockHeld
<1>5. FilingProgress'
  <2>1. (\A g \in Handler : step'[g] # "filing") => rest' = <<>>
    BY <1>1 DEF IInv, TypeOK, FilingProgress
  <2>2. QED
    BY <1>1, <2>1 DEF IInv, FilingProgress
<1>6. QED
  BY <1>3, <1>4, <1>5 DEF IInv

LEMMA NextIInv == IInv /\ [Next]_vars => IInv'
<1> SUFFICES ASSUME IInv, [Next]_vars
             PROVE  IInv'
  OBVIOUS
<1>1. ASSUME NEW h \in Handler, Step(h)
      PROVE  IInv'
  BY <1>1, LockStep, BuildListStep, AddToListStep, FileStep, ReturnStep DEF Step
<1>2. CASE UNCHANGED vars
  BY <1>2
  DEF IInv, TypeOK, LockHeld, FilingProgress, MapsFrom, NextCall, vars, fields, mutex
<1>3. QED
  BY <1>1, <1>2 DEF Next

THEOREM InductiveInvariant == Spec => []IInv
BY InitIInv, NextIInv, PTL DEF Spec

-----------------------------------------------------------------------------
(* The theorems.                                                             *)

\* The lock excludes: whoever changes the fields is alone with them
\* (index.go:36-119).
THEOREM WritersAlone == Spec => []WriterAlone
<1>1. IInv => WriterAlone
  BY DEF IInv, LockHeld, WriterAlone
<1>2. QED
  BY <1>1, InductiveInvariant, PTL

\* Outside an update both maps file exactly the entries of the list, so a query
\* by UUID or by name, and its 404, say what index.json says (index.go:36-119).
THEOREM MapsCoherent == Spec => []MapsAgree
<1>1. IInv => MapsAgree
  BY NothingLeft DEF IInv, FilingProgress, Filed, MapsAgree
<1>2. QED
  BY <1>1, InductiveInvariant, PTL

\* The index keeps its types, and so do the answers given so far: a NameConflict
\* that found a key always had an entry to name (index.go:98-112).
THEOREM IndexTypeCorrect == Spec => []TypeOK
<1>1. IInv => TypeOK
  BY DEF IInv
<1>2. QED
  BY <1>1, InductiveInvariant, PTL

-----------------------------------------------------------------------------
(* The stamp of an index.json.                                               *)

\* The list is the last the index has been, and so says the stamp, but while an
\* Add has not come to it.
StampKept ==
    /\ Len(past) # 0
    /\ all = past[Len(past)]
    /\ builtAt <= Len(past)
    /\ (\A h \in Handler : step[h] # "filing") => builtAt = Len(past)
    /\ \A h \in Handler : step[h] = "filing" =>
           /\ IsUpdate(NextCall(h))
           /\ NextCall(h).op # "Add" => builtAt = Len(past)

\* What the two calls of HandleIndex have returned.
ListServed(h) ==
    \E i \in 1 .. Len(past) : replies[h][1] = Listing(past[i])
StampServed(h) ==
    \E t \in 1 .. Len(past) : /\ replies[h][2] = Stamp(t)
                              /\ \E i \in 1 .. t : replies[h][1] = Listing(past[i])
IndexReplies ==
    \A h \in Handler : program[h] = HandleIndex =>
        /\ Len(replies[h]) >= 1 => ListServed(h)
        /\ Len(replies[h]) >= 2 => StampServed(h)

StampInv == StampKept /\ IndexReplies

\* A position in the history keeps its list.
LEMMA PastIsStable ==
    ASSUME IInv, NEW h \in Handler, Step(h)
    PROVE  /\ Len(past) \in Nat /\ Len(past') \in Nat /\ Len(past) <= Len(past')
           /\ \A i \in 1 .. Len(past) : past'[i] = past[i]
<1>1. past \in Seq(Seq(Manifest)) /\ Len(past) \in Nat
  BY LenProperties DEF IInv, TypeOK
<1>2. CASE UNCHANGED past
  BY <1>1, <1>2
<1>3. CASE BuildList(h) \/ AddToList(h)
  <2>1. PICK ms \in Seq(Manifest) : past' = Append(past, ms)
    <3>1. CASE BuildList(h)
      BY <3>1, NextCallTypes, CallTypes DEF BuildList
    <3>2. CASE AddToList(h)
      <4>1. Append(all, NextCall(h).manifest) \in Seq(Manifest)
        BY <3>2, NextCallTypes, CallTypes, AppendProperties DEF AddToList, IInv, TypeOK
      <4>2. QED
        BY <3>2, <4>1 DEF AddToList
    <3>3. QED
      BY <1>3, <3>1, <3>2
  <2>2. QED
    BY <1>1, <2>1, AppendProperties
<1>4. QED
  BY <1>2, <1>3 DEF Step, Lock, Enter, RLock, File, Unlock, Query

LEMMA StampKeptStep ==
    ASSUME IInv, StampKept, NEW h \in Handler, Step(h)
    PROVE  StampKept'
<1>1. /\ step \in [Handler -> Steps] /\ Len(past) \in Nat /\ builtAt \in Nat
      /\ past \in Seq(Seq(Manifest)) /\ all \in Seq(Manifest)
  BY LenProperties DEF IInv, TypeOK
<1>2. CASE Lock(h) \/ Enter(h) \/ RLock(h) \/ File(h)
  <2>1. /\ UNCHANGED <<all, builtAt, past, replies, program>>
        /\ \A g \in Handler : step'[g] = "filing" <=> step[g] = "filing"
    BY <1>1, <1>2 DEF Lock, Enter, RLock, File, Goto, fields
  <2>2. QED
    BY <2>1 DEF StampKept, NextCall
<1>3. CASE BuildList(h)
  <2>1. NextCall(h).manifests \in Seq(Manifest)
    BY <1>3, NextCallTypes, CallTypes DEF BuildList
  <2>2. /\ Len(past') = Len(past) + 1 /\ past'[Len(past) + 1] = all'
    BY <1>1, <1>3, <2>1, AppendProperties DEF BuildList
  <2>3. builtAt' = Len(past') /\ UNCHANGED <<replies, program>>
    BY <1>3, <2>2 DEF BuildList, Goto
  <2>4. \A g \in Handler : step'[g] = "filing" <=> g = h
    BY <1>1, <1>3 DEF BuildList, Goto, IInv, LockHeld
  <2>5. IsUpdate(NextCall(h)')
    BY <1>3, <2>3 DEF BuildList, IsUpdate, NextCall
  <2>6. QED
    BY <1>1, <2>2, <2>3, <2>4, <2>5 DEF StampKept
<1>4. CASE AddToList(h)
  <2>1. Append(all, NextCall(h).manifest) \in Seq(Manifest)
    BY <1>1, <1>4, NextCallTypes, CallTypes, AppendProperties DEF AddToList
  <2>2. /\ Len(past') = Len(past) + 1 /\ past'[Len(past) + 1] = all'
    BY <1>1, <1>4, <2>1, AppendProperties DEF AddToList
  <2>3. UNCHANGED <<builtAt, replies, program>> /\ NextCall(h).op = "Add"
    BY <1>4 DEF AddToList, Goto
  <2>4. \A g \in Handler : step'[g] = "filing" <=> g = h
    BY <1>1, <1>4 DEF AddToList, Goto, IInv, LockHeld
  <2>5. IsUpdate(NextCall(h)') /\ NextCall(h)'.op = "Add"
    BY <2>3 DEF IsUpdate, NextCall
  <2>6. QED
    BY <1>1, <2>2, <2>3, <2>4, <2>5 DEF StampKept
<1>5. CASE Unlock(h)
  <2>1. /\ UNCHANGED <<all, past>>
        /\ builtAt' = IF NextCall(h).op = "Add" THEN Len(past) ELSE builtAt
        /\ \A g \in Handler : step'[g] # "filing"
    BY <1>1, <1>5 DEF Unlock, Return, Goto, IInv, LockHeld
  <2>2. builtAt' = Len(past)
    BY <1>5, <2>1 DEF StampKept, Unlock
  <2>3. QED
    BY <1>1, <2>1, <2>2 DEF StampKept
<1>6. CASE Query(h)
  <2>1. /\ UNCHANGED <<all, builtAt, past>>
        /\ \A g \in Handler : step'[g] # "filing"
        /\ \A g \in Handler : step[g] # "filing"
    BY <1>1, <1>6 DEF Query, Return, Goto, fields, IInv, LockHeld
  <2>2. QED
    BY <1>1, <2>1 DEF StampKept
<1>7. QED
  BY <1>2, <1>3, <1>4, <1>5, <1>6 DEF Step

\* Arithmetic on the length of a reply list.
LEMMA TwoAtLeast ==
    ASSUME NEW n \in Nat
    PROVE  n = 0 \/ n = 1 \/ n >= 2
OBVIOUS

\* HandleIndex takes its list first and its stamp after it.
LEMMA IndexRepliesStep ==
    ASSUME IInv, StampInv, NEW h \in Handler, Step(h)
    PROVE  IndexReplies'
<1> SUFFICES ASSUME NEW g \in Handler, program'[g] = HandleIndex
             PROVE  /\ Len(replies'[g]) >= 1 => ListServed(g)'
                    /\ Len(replies'[g]) >= 2 => StampServed(g)'
  BY DEF IndexReplies
<1>1. /\ program' = program
      /\ Len(past) \in Nat /\ Len(past') \in Nat /\ Len(past) <= Len(past')
      /\ \A i \in 1 .. Len(past) : past'[i] = past[i]
      /\ replies[g] \in Seq(Reply) /\ Len(replies[g]) \in Nat
  BY PastIsStable, LenProperties
  DEF IInv, TypeOK, Step, Lock, Enter, RLock, BuildList, AddToList, File, Unlock, Query,
      Return, Goto
<1>2. /\ Len(replies[g]) >= 1 => ListServed(g)
      /\ Len(replies[g]) >= 2 => StampServed(g)
  BY <1>1 DEF StampInv, IndexReplies
<1>3. Len(replies[g]) \in Nat
  BY <1>1
<1>4. CASE UNCHANGED replies[g]
  <2>1. ListServed(g) => ListServed(g)'
    BY <1>1, <1>4 DEF ListServed
  <2>2. StampServed(g) => StampServed(g)'
    BY <1>1, <1>4 DEF StampServed
  <2>3. QED
    BY <1>2, <1>4, <2>1, <2>2
<1>5. CASE replies'[g] # replies[g]
  <2>1. g = h /\ (Unlock(h) \/ Query(h))
    BY <1>5
    DEF Step, Lock, Enter, RLock, BuildList, AddToList, File, Unlock, Query, Return,
        IInv, TypeOK
  <2>2. CASE Unlock(h)
    <3>1. IsUpdate(NextCall(g)) /\ NextCall(g) \in Call
      BY <2>1, <2>2 DEF Unlock, StampInv, StampKept, IInv, LockHeld
    <3>2. Done \in Reply
      BY DEF Reply
    <3>3. /\ replies'[g] = Append(replies[g], Done)
          /\ Len(replies'[g]) = Len(replies[g]) + 1
          /\ \A i \in 1 .. Len(replies[g]) : replies'[g][i] = replies[g][i]
      BY <1>1, <2>1, <2>2, <3>2, AppendProperties DEF Unlock, Return, IInv, TypeOK
    <3>4. Len(replies[g]) # 0 /\ Len(replies[g]) # 1
      <4>1. NextCall(g) # QueryAll /\ NextCall(g) # BuiltAt
        BY <3>1 DEF QueryAll, BuiltAt, IsUpdate
      <4>2. program[g][1] = QueryAll /\ program[g][2] = BuiltAt
        BY <1>1 DEF HandleIndex
      <4>3. ASSUME Len(replies[g]) = 0 PROVE FALSE
        BY <4>1, <4>2, <4>3 DEF NextCall
      <4>4. ASSUME Len(replies[g]) = 1 PROVE FALSE
        BY <4>1, <4>2, <4>4 DEF NextCall
      <4>5. QED
        BY <4>3, <4>4
    <3>5. UNCHANGED past
      BY <2>2 DEF Unlock
    <3>6. Len(replies[g]) >= 2
      BY <1>3, <3>4, TwoAtLeast
    <3>7. /\ replies'[g][1] = replies[g][1] /\ replies'[g][2] = replies[g][2]
          /\ ListServed(g) /\ StampServed(g)
      BY <1>2, <1>3, <3>3, <3>6
    <3>8. QED
      BY <3>5, <3>7 DEF ListServed, StampServed
  <2>3. CASE Query(h)
    <3>1. /\ all = past[Len(past)] /\ builtAt = Len(past) /\ Len(past) # 0
          /\ UNCHANGED past
      BY <2>3 DEF Query, IInv, LockHeld, StampInv, StampKept
    <3>2. /\ NextCall(g) \in Call /\ ~IsUpdate(NextCall(g))
      BY <2>1, <2>3 DEF Query, IInv, LockHeld
    <3>3. /\ Len(replies'[g]) = Len(replies[g]) + 1
          /\ \A i \in 1 .. Len(replies[g]) : replies'[g][i] = replies[g][i]
          /\ replies'[g][Len(replies[g]) + 1] = Answer(NextCall(g))
      <4>1. replies'[g] = Append(replies[g], Answer(NextCall(g)))
        BY <2>1, <2>3 DEF Query, Return, IInv, TypeOK
      <4>2. Answer(NextCall(g)) \in Reply
        BY <3>2, AnswerTypes
      <4>3. QED
        BY <1>1, <4>1, <4>2, AppendProperties
    <3>4. CASE Len(replies[g]) = 0
      <4>1. NextCall(g) = QueryAll
        BY <1>1, <3>4 DEF NextCall, HandleIndex
      <4>2. Answer(NextCall(g)) = Listing(all)
        BY <4>1 DEF Answer, QueryAll
      <4>3. QED
        BY <1>1, <3>1, <3>3, <3>4, <4>2 DEF ListServed
    <3>5. CASE Len(replies[g]) = 1
      <4>1. NextCall(g) = BuiltAt
        BY <1>1, <3>5 DEF NextCall, HandleIndex
      <4>2. Answer(NextCall(g)) = Stamp(builtAt)
        BY <4>1 DEF Answer, BuiltAt
      <4>3. QED
        BY <1>1, <1>2, <3>1, <3>3, <3>5, <4>2 DEF ListServed, StampServed
    <3>6. CASE Len(replies[g]) >= 2
      <4>1. /\ replies'[g][1] = replies[g][1] /\ replies'[g][2] = replies[g][2]
            /\ ListServed(g) /\ StampServed(g)
        BY <1>2, <1>3, <3>3, <3>6
      <4>2. QED
        BY <3>1, <4>1 DEF ListServed, StampServed
    <3>7. Len(replies[g]) = 0 \/ Len(replies[g]) = 1 \/ Len(replies[g]) >= 2
      BY <1>3, TwoAtLeast
    <3>8. QED
      BY <3>4, <3>5, <3>6, <3>7
  <2>4. QED
    BY <2>1, <2>2, <2>3
<1>6. QED
  BY <1>4, <1>5

\* An index.json never carries a list that is newer than the lastModified it
\* says, provided HandleIndex is what serves it (query.go:29-38).  The list may be
\* older than that: an Add between the two calls is what ListIsStamped meets.
THEOREM StampsNotOlder ==
    ASSUME \A p \in Programs : Len(p) = 2 /\ QueryAll \in Range(p) => p = HandleIndex
    PROVE  Spec => []StampNotOlder
<1>1. Init => StampInv
  <2> SUFFICES ASSUME Init PROVE StampInv
    OBVIOUS
  <2>1. Len(past) = 1 /\ past[1] = <<>> /\ all = past[1] /\ builtAt = 1
    BY DEF Init
  <2>2. \A h \in Handler : Len(replies[h]) = 0 /\ step[h] = "idle"
    BY EmptySeq DEF Init
  <2>3. QED
    BY <2>1, <2>2 DEF StampInv, StampKept, IndexReplies
<1>2. IInv /\ [Next]_vars /\ StampInv => StampInv'
  <2> SUFFICES ASSUME IInv, [Next]_vars, StampInv PROVE StampInv'
    OBVIOUS
  <2>1. CASE UNCHANGED vars
    BY <2>1
    DEF StampInv, StampKept, IndexReplies, ListServed, StampServed, NextCall, vars, fields,
        mutex
  <2>2. ASSUME NEW h \in Handler, Step(h)
        PROVE  StampInv'
    BY <2>2, StampKeptStep, IndexRepliesStep DEF StampInv
  <2>3. QED
    BY <2>1, <2>2 DEF Next
<1>3. IInv /\ StampInv => StampNotOlder
  <2> SUFFICES ASSUME IInv, StampInv, NEW h \in Handler, IndexServed(h)
               PROVE  \E i \in 1 .. ReplyTo(h, BuiltAt).time :
                          Listing(past[i]) = ReplyTo(h, QueryAll)
    BY DEF StampNotOlder
  <2>1. program[h] = HandleIndex
    BY DEF IInv, TypeOK, IndexServed
  <2>2. /\ DOMAIN program[h] = 1 .. 2
        /\ program[h][1] = QueryAll /\ program[h][2] = BuiltAt /\ QueryAll # BuiltAt
    BY <2>1 DEF HandleIndex, QueryAll, BuiltAt
  <2>3. Len(replies[h]) >= 2
    <3>1. Len(replies[h]) \in Nat
      BY LenProperties DEF IInv, TypeOK
    <3>2. QED
      BY <2>2, <3>1 DEF IndexServed, Finished
  <2>4. PICK t \in 1 .. Len(past) :
            /\ replies[h][2] = Stamp(t)
            /\ \E i \in 1 .. t : replies[h][1] = Listing(past[i])
    BY <2>1, <2>3 DEF StampInv, IndexReplies, StampServed
  <2>5. /\ ReplyTo(h, QueryAll) = replies[h][1]
        /\ ReplyTo(h, BuiltAt) = replies[h][2]
    BY <2>2 DEF ReplyTo
  <2>6. ReplyTo(h, BuiltAt).time = t
    BY <2>4, <2>5 DEF Stamp
  <2>7. QED
    BY <2>4, <2>5, <2>6
<1>4. QED
  BY <1>1, <1>2, <1>3, InductiveInvariant, PTL DEF Spec

=============================================================================
