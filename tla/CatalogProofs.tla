--------------------------- MODULE CatalogProofs ---------------------------
(***************************************************************************)
(* PackageIndex implements Catalog: whatever the goroutines of the server  *)
(* do between them, each call on the index looks to its caller as if it    *)
(* had been made alone, at one instant.  Updates take their instant where  *)
(* the list changes, queries where they read.                              *)
(*                                                                         *)
(* PackageIndexProofs shows that the maps hold the right sets of entries.  *)
(* A caller sees more than that: the order of a listing, and the first     *)
(* entry of a name in a conflict.  So the invariant here says that each    *)
(* map entry is a sublist of the part of the list filed so far.            *)
(***************************************************************************)
EXTENDS PackageIndexProofs, FiniteSetTheorems, WellFoundedInduction

\* The part of the list that is in the maps.
FiledSoFar == Len(all) - Len(rest)
FiledList == SubSeq(all, 1, FiledSoFar)

\* A map entry is a sublist, and a key without entry has none.
MapIs(map, key, ms) == IF key \in DOMAIN map THEN map[key] = ms ELSE ms = <<>>

\* The update in progress files the list from its front.
OrderedFiling ==
    /\ Len(rest) <= Len(all)
    /\ \A i \in 1 .. Len(rest) : rest[i] = all[FiledSoFar + i]
    /\ \A u \in Uuid : MapIs(byUUID, u, Abstract!ByUuid(FiledList, u))
    /\ \A n \in Name : MapIs(byName, Lower(n), Abstract!ByName(FiledList, n))

\* A goroutine inside a call has a call to make.
InsideACall == \A h \in Handler : step[h] # "idle" => ~Finished(h)

CatalogInv == OrderedFiling /\ InsideACall

-----------------------------------------------------------------------------
(* Sublists.  Places are numbered by their rank: how many come up to them.   *)

Rank(P, i) == Cardinality({j \in P : j <= i})

\* Induction over the naturals, as a fact about sets of them.
LEMMA SetOfAllNaturals ==
    ASSUME NEW T \in SUBSET Nat, 0 \in T, \A n \in T : n + 1 \in T
    PROVE  T = Nat
<1>1. SUFFICES ASSUME Nat \ T # {} PROVE FALSE
  OBVIOUS
<1>2. PICK x \in Nat \ T : \A y \in Nat \ T : ~ (<<y, x>> \in OpToRel(<, Nat))
  BY <1>1, WFMin, NatLessThanWellFounded
<1>3. x # 0 /\ x - 1 \in Nat
  OBVIOUS
<1>4. <<x - 1, x>> \in OpToRel(<, Nat)
  BY <1>3 DEF OpToRel
<1>5. x - 1 \in T
  BY <1>2, <1>3, <1>4
<1>6. (x - 1) + 1 = x
  BY <1>3
<1>7. QED
  BY <1>5, <1>6

\* The places of a sublist are finitely many, and so are those up to one of them.
LEMMA PlacesFinite ==
    ASSUME NEW n \in Nat, NEW P \in SUBSET (1 .. n)
    PROVE  /\ IsFiniteSet(P) /\ Cardinality(P) \in Nat
           /\ \A i : /\ IsFiniteSet({j \in P : j <= i}) /\ Rank(P, i) \in Nat
                     /\ Rank(P, i) <= Cardinality(P)
<1>1. IsFiniteSet(1 .. n)
  <2>1. 1 \in Int /\ n \in Int
    OBVIOUS
  <2>2. QED
    BY <2>1, FS_Interval
<1>2. IsFiniteSet(P) /\ Cardinality(P) \in Nat
  BY <1>1, FS_Subset, FS_CardinalityType
<1>3. ASSUME NEW i
      PROVE  /\ IsFiniteSet({j \in P : j <= i}) /\ Rank(P, i) \in Nat
             /\ Rank(P, i) <= Cardinality(P)
  <2>1. {j \in P : j <= i} \subseteq P
    OBVIOUS
  <2>2. QED
    BY <1>2, <2>1, FS_Subset, FS_CardinalityType DEF Rank
<1>4. QED
  BY <1>2, <1>3

\* Ranks tell places apart.
LEMMA RankTellsApart ==
    ASSUME NEW n \in Nat, NEW P \in SUBSET (1 .. n), NEW i \in P, NEW j \in P,
           Rank(P, i) = Rank(P, j)
    PROVE  i = j
<1> DEFINE UpTo(k) == {l \in P : l <= k}
<1>1. /\ i \in Nat /\ j \in Nat /\ i \in UpTo(i) /\ j \in UpTo(j)
      /\ \A k \in P : k \in Nat
  OBVIOUS
<1>2. UpTo(i) \subseteq UpTo(j) \/ UpTo(j) \subseteq UpTo(i)
  <2>1. CASE i <= j
    <3>1. \A k \in P : k <= i => k <= j
      BY <1>1, <2>1
    <3>2. QED
      BY <3>1
  <2>2. CASE j <= i
    <3>1. \A k \in P : k <= j => k <= i
      BY <1>1, <2>2
    <3>2. QED
      BY <3>1
  <2>3. QED
    BY <1>1, <2>1, <2>2
<1>3. UpTo(i) = UpTo(j)
  <2>1. /\ IsFiniteSet(UpTo(i)) /\ IsFiniteSet(UpTo(j))
        /\ Cardinality(UpTo(i)) = Cardinality(UpTo(j))
    BY PlacesFinite DEF Rank
  <2> HIDE DEF UpTo
  <2>2. QED
    BY <1>2, <2>1, FS_Subset
<1>4. i <= j /\ j <= i
  BY <1>1, <1>3
<1>5. QED
  BY <1>1, <1>4

\* What a place that comes last does to the ranks.
LEMMA LastPlace ==
    ASSUME NEW n \in Nat, NEW P \in SUBSET (1 .. n)
    PROVE  LET Q == P \cup {n + 1} IN
           /\ Q \in SUBSET (1 .. n + 1)
           /\ Cardinality(Q) = Cardinality(P) + 1
           /\ \A i \in P : Rank(Q, i) = Rank(P, i)
           /\ Rank(Q, n + 1) = Cardinality(Q)
<1> DEFINE Q == P \cup {n + 1}
<1>1. Q \in SUBSET (1 .. n + 1) /\ n + 1 \notin P
  OBVIOUS
<1>2. Cardinality(Q) = Cardinality(P) + 1
  BY <1>1, PlacesFinite, FS_AddElement
<1>3. ASSUME NEW i \in P
      PROVE  Rank(Q, i) = Rank(P, i)
  <2>1. {j \in Q : j <= i} = {j \in P : j <= i}
    OBVIOUS
  <2>2. QED
    BY <2>1 DEF Rank
<1>4. Rank(Q, n + 1) = Cardinality(Q)
  <2>1. \A j \in Q : j <= n + 1
    BY <1>1
  <2>2. {j \in Q : j <= n + 1} = Q
    BY <2>1
  <2>3. QED
    BY <2>2 DEF Rank
<1>5. QED
  BY <1>1, <1>2, <1>3, <1>4

\* Every number up to that of the places is the rank of one of them.
LEMMA RankReached ==
    \A n \in Nat : \A P \in SUBSET (1 .. n) : \A k \in 1 .. Cardinality(P) :
        \E i \in P : Rank(P, i) = k
<1> DEFINE T == {n \in Nat : \A P \in SUBSET (1 .. n) : \A k \in 1 .. Cardinality(P) :
                                 \E i \in P : Rank(P, i) = k}
<1>1. 0 \in T
  <2>1. \A P \in SUBSET (1 .. 0) : P = {}
    OBVIOUS
  <2>2. Cardinality({}) = 0
    BY FS_EmptySet
  <2>3. \A P \in SUBSET (1 .. 0) : 1 .. Cardinality(P) = {}
    BY <2>1, <2>2
  <2>4. QED
    BY <2>3
<1>2. ASSUME NEW n \in T
      PROVE  n + 1 \in T
  <2> SUFFICES ASSUME NEW Q \in SUBSET (1 .. n + 1), NEW k \in 1 .. Cardinality(Q)
               PROVE  \E i \in Q : Rank(Q, i) = k
    OBVIOUS
  <2>1. CASE n + 1 \notin Q
    <3>1. Q \in SUBSET (1 .. n)
      BY <2>1
    <3>2. QED
      BY <3>1
  <2>2. CASE n + 1 \in Q
    <3> DEFINE P == Q \ {n + 1}
    <3>1. P \in SUBSET (1 .. n) /\ Q = P \cup {n + 1}
      BY <2>2
    <3>2. /\ Cardinality(Q) = Cardinality(P) + 1
          /\ \A i \in P : Rank(Q, i) = Rank(P, i)
          /\ Rank(Q, n + 1) = Cardinality(Q)
      BY <3>1, LastPlace
    <3>3. Cardinality(P) \in Nat
      BY <3>1, PlacesFinite
    <3>4. \A l \in 1 .. Cardinality(P) : \E i \in P : Rank(P, i) = l
      BY <3>1
    <3> HIDE DEF P
    <3>5. k \in 1 .. Cardinality(P) \/ k = Cardinality(Q)
      BY <3>2, <3>3
    <3>6. QED
      BY <2>2, <3>1, <3>2, <3>4, <3>5
  <2>3. QED
    BY <2>1, <2>2
<1>3. T = Nat
  <2> HIDE DEF T
  <2>1. T \in SUBSET Nat
    BY DEF T
  <2>2. QED
    BY <1>1, <1>2, <2>1, SetOfAllNaturals
<1>4. QED
  BY <1>3

\* A sublist lists what is at its places, each at its rank.
LEMMA SublistLists ==
    ASSUME NEW S, NEW ms \in Seq(S), NEW P \in SUBSET (1 .. Len(ms))
    PROVE  /\ Abstract!Sublist(ms, P) \in Seq(S)
           /\ Len(Abstract!Sublist(ms, P)) = Cardinality(P)
           /\ \A i \in P : Abstract!Sublist(ms, P)[Rank(P, i)] = ms[i]
<1> DEFINE Place(k) == CHOOSE i \in P : Rank(P, i) = k
<1>1. Len(ms) \in Nat /\ Cardinality(P) \in Nat /\ DOMAIN ms = 1 .. Len(ms)
  <2>1. Len(ms) \in Nat /\ DOMAIN ms = 1 .. Len(ms)
    BY LenProperties
  <2>2. QED
    BY <2>1, PlacesFinite
<1>2. Abstract!Sublist(ms, P) = [k \in 1 .. Cardinality(P) |-> ms[Place(k)]]
  BY DEF Abstract!Sublist, Abstract!Cardinality, Cardinality, Rank
<1>3. ASSUME NEW k \in 1 .. Cardinality(P)
      PROVE  Place(k) \in P /\ Rank(P, Place(k)) = k
  BY <1>1, RankReached
<1>4. ASSUME NEW i \in P
      PROVE  Rank(P, i) \in 1 .. Cardinality(P) /\ Place(Rank(P, i)) = i
  <2>1. Rank(P, i) \in Nat /\ Rank(P, i) <= Cardinality(P) /\ IsFiniteSet({j \in P : j <= i})
    BY <1>1, PlacesFinite
  <2>2. Rank(P, i) # 0
    <3>1. i \in {j \in P : j <= i}
      BY <1>1
    <3>2. QED
      BY <2>1, <3>1, FS_EmptySet DEF Rank
  <2>3. Rank(P, i) \in 1 .. Cardinality(P)
    BY <1>1, <2>1, <2>2
  <2>4. QED
    BY <1>1, <1>3, <2>3, RankTellsApart
<1> HIDE DEF Place
<1>5. \A k \in 1 .. Cardinality(P) : ms[Place(k)] \in S
  BY <1>1, <1>3, ElementOfSeq
<1>6. Abstract!Sublist(ms, P) \in [1 .. Cardinality(P) -> S]
  BY <1>2, <1>5
<1>7. Abstract!Sublist(ms, P) \in Seq(S) /\ Len(Abstract!Sublist(ms, P)) = Cardinality(P)
  BY <1>1, <1>6, IsASeq, LenProperties
<1>8. QED
  BY <1>2, <1>4, <1>7

\* Sublists grow with their list: the entry appended to it is appended to those
\* that have its place, and the others stay what they are.
LEMMA SublistAppend ==
    ASSUME NEW S, NEW ms \in Seq(S), NEW x \in S, NEW P \in SUBSET (1 .. Len(ms))
    PROVE  /\ Abstract!Sublist(Append(ms, x), P) = Abstract!Sublist(ms, P)
           /\ Abstract!Sublist(Append(ms, x), P \cup {Len(ms) + 1}) =
                  Append(Abstract!Sublist(ms, P), x)
<1> DEFINE more == Append(ms, x)
           Q == P \cup {Len(ms) + 1}
           old == Abstract!Sublist(ms, P)
<1>1. /\ Len(ms) \in Nat
      /\ more \in Seq(S) /\ Len(more) = Len(ms) + 1
      /\ \A i \in 1 .. Len(ms) : more[i] = ms[i]
      /\ more[Len(ms) + 1] = x
  BY LenProperties, AppendProperties
<1>2. /\ P \in SUBSET (1 .. Len(more)) /\ Q \in SUBSET (1 .. Len(more))
      /\ Cardinality(P) \in Nat
      /\ Cardinality(Q) = Cardinality(P) + 1
      /\ \A i \in P : Rank(Q, i) = Rank(P, i)
      /\ Rank(Q, Len(ms) + 1) = Cardinality(P) + 1
  <2>1. Cardinality(P) \in Nat
    BY <1>1, PlacesFinite
  <2>2. /\ Q \in SUBSET (1 .. Len(ms) + 1)
        /\ Cardinality(Q) = Cardinality(P) + 1
        /\ \A i \in P : Rank(Q, i) = Rank(P, i)
        /\ Rank(Q, Len(ms) + 1) = Cardinality(Q)
    BY <1>1, LastPlace
  <2>3. P \in SUBSET (1 .. Len(more)) /\ Q \in SUBSET (1 .. Len(more))
    BY <1>1, <2>2
  <2>4. QED
    BY <2>1, <2>2, <2>3
<1> HIDE DEF more, Q, old
<1>3. /\ old \in Seq(S) /\ Len(old) = Cardinality(P)
      /\ \A i \in P : old[Rank(P, i)] = ms[i]
  BY SublistLists DEF old
<1>4. Abstract!Sublist(more, P) = old
  <2>1. /\ Abstract!Sublist(more, P) \in Seq(S)
        /\ Len(Abstract!Sublist(more, P)) = Cardinality(P)
        /\ \A i \in P : Abstract!Sublist(more, P)[Rank(P, i)] = more[i]
    BY <1>1, <1>2, SublistLists
  <2>2. ASSUME NEW k \in 1 .. Cardinality(P)
        PROVE  Abstract!Sublist(more, P)[k] = old[k]
    <3>1. PICK i \in P : Rank(P, i) = k
      BY <1>1, RankReached
    <3>2. QED
      BY <1>1, <1>3, <2>1, <3>1
  <2>3. QED
    BY <1>3, <2>1, <2>2, SeqEqual
<1>5. Abstract!Sublist(more, Q) = Append(old, x)
  <2>1. /\ Abstract!Sublist(more, Q) \in Seq(S)
        /\ Len(Abstract!Sublist(more, Q)) = Cardinality(P) + 1
        /\ \A i \in Q : Abstract!Sublist(more, Q)[Rank(Q, i)] = more[i]
    BY <1>1, <1>2, SublistLists
  <2>2. /\ Append(old, x) \in Seq(S)
        /\ Len(Append(old, x)) = Cardinality(P) + 1
        /\ \A k \in 1 .. Cardinality(P) : Append(old, x)[k] = old[k]
        /\ Append(old, x)[Cardinality(P) + 1] = x
    BY <1>3, AppendProperties
  <2>3. ASSUME NEW k \in 1 .. Cardinality(P)
        PROVE  Abstract!Sublist(more, Q)[k] = Append(old, x)[k]
    <3>1. PICK i \in P : Rank(P, i) = k
      BY <1>1, RankReached
    <3>2. i \in Q /\ Rank(Q, i) = k
      BY <1>2, <3>1 DEF Q
    <3>3. QED
      BY <1>1, <1>3, <2>1, <2>2, <3>1, <3>2
  <2>4. Abstract!Sublist(more, Q)[Cardinality(P) + 1] = x
    <3>1. Len(ms) + 1 \in Q
      BY DEF Q
    <3>2. QED
      BY <1>1, <1>2, <2>1, <3>1
  <2>5. \A k \in 1 .. Cardinality(P) + 1 :
            Abstract!Sublist(more, Q)[k] = Append(old, x)[k]
    <3>1. \A k \in 1 .. Cardinality(P) + 1 : k \in 1 .. Cardinality(P) \/ k = Cardinality(P) + 1
      BY <1>2
    <3>2. QED
      BY <2>2, <2>3, <2>4, <3>1
  <2>6. QED
    BY <2>1, <2>2, <2>5, SeqEqual
<1>6. QED
  BY <1>4, <1>5 DEF more, Q, old

\* What an appended entry does to the listings of Catalog.
LEMMA ListingAppend ==
    ASSUME NEW ms \in Seq(Manifest), NEW m \in Manifest
    PROVE  /\ \A u : Abstract!ByUuid(Append(ms, m), u) =
                         IF m.id = u THEN Append(Abstract!ByUuid(ms, u), m)
                         ELSE Abstract!ByUuid(ms, u)
           /\ \A n : Abstract!ByName(Append(ms, m), n) =
                         IF NameKey(m) = Lower(n) THEN Append(Abstract!ByName(ms, n), m)
                         ELSE Abstract!ByName(ms, n)
<1> DEFINE more == Append(ms, m)
<1>1. /\ Len(ms) \in Nat /\ DOMAIN ms = 1 .. Len(ms)
      /\ DOMAIN more = 1 .. Len(ms) + 1
      /\ \A i \in 1 .. Len(ms) : more[i] = ms[i]
      /\ more[Len(ms) + 1] = m
  BY LenProperties, AppendProperties
<1>2. \A i : i \in 1 .. Len(ms) + 1 <=> i \in 1 .. Len(ms) \/ i = Len(ms) + 1
  BY <1>1
<1> HIDE DEF more
<1>3. ASSUME NEW u
      PROVE  Abstract!ByUuid(more, u) =
                 IF m.id = u THEN Append(Abstract!ByUuid(ms, u), m) ELSE Abstract!ByUuid(ms, u)
  <2> DEFINE P == {i \in DOMAIN ms : ms[i].id = u}
  <2>1. {i \in DOMAIN more : more[i].id = u} = IF m.id = u THEN P \cup {Len(ms) + 1} ELSE P
    BY <1>1, <1>2
  <2>2. P \in SUBSET (1 .. Len(ms))
    BY <1>1
  <2> HIDE DEF P
  <2>3. /\ Abstract!Sublist(more, P) = Abstract!Sublist(ms, P)
        /\ Abstract!Sublist(more, P \cup {Len(ms) + 1}) = Append(Abstract!Sublist(ms, P), m)
    BY <2>2, SublistAppend DEF more
  <2>4. QED
    BY <2>1, <2>3 DEF Abstract!ByUuid, P
<1>4. ASSUME NEW n
      PROVE  Abstract!ByName(more, n) =
                 IF NameKey(m) = Lower(n) THEN Append(Abstract!ByName(ms, n), m)
                 ELSE Abstract!ByName(ms, n)
  <2> DEFINE P == {i \in DOMAIN ms : NameKey(ms[i]) = Lower(n)}
  <2>1. {i \in DOMAIN more : NameKey(more[i]) = Lower(n)} =
            IF NameKey(m) = Lower(n) THEN P \cup {Len(ms) + 1} ELSE P
    BY <1>1, <1>2
  <2>2. P \in SUBSET (1 .. Len(ms))
    BY <1>1
  <2>3. Abstract!ByName(more, n) = Abstract!Sublist(
          more, {i \in DOMAIN more : NameKey(more[i]) = Lower(n)})
        /\ Abstract!ByName(ms, n) = Abstract!Sublist(ms, P)
    BY DEF Abstract!ByName, Abstract!NameKey, NameKey
  <2> HIDE DEF P
  <2>4. /\ Abstract!Sublist(more, P) = Abstract!Sublist(ms, P)
        /\ Abstract!Sublist(more, P \cup {Len(ms) + 1}) = Append(Abstract!Sublist(ms, P), m)
    BY <2>2, SublistAppend DEF more
  <2>5. QED
    BY <2>1, <2>3, <2>4
<1>5. QED
  BY <1>3, <1>4 DEF more

\* The empty list has no sublists but itself.
LEMMA NothingListed ==
    /\ \A u : Abstract!ByUuid(<<>>, u) = <<>>
    /\ \A n : Abstract!ByName(<<>>, n) = <<>>
<1>1. <<>> \in Seq(Manifest) /\ Len(<<>>) = 0 /\ {} \in SUBSET (1 .. Len(<<>>))
  BY EmptySeq
<1>2. Abstract!Sublist(<<>>, {}) = <<>>
  <2>1. /\ Abstract!Sublist(<<>>, {}) \in Seq(Manifest)
        /\ Len(Abstract!Sublist(<<>>, {})) = Cardinality({})
    BY <1>1, SublistLists
  <2>2. Cardinality({}) = 0
    BY FS_EmptySet
  <2>3. QED
    BY <2>1, <2>2, EmptySeq
<1>3. DOMAIN <<>> = {}
  BY <1>1
<1>4. QED
  BY <1>2, <1>3 DEF Abstract!ByUuid, Abstract!ByName

-----------------------------------------------------------------------------
(* The invariant.                                                            *)

LEMMA OneMore ==
    ASSUME NEW S, NEW ms \in Seq(S), NEW n \in Nat, n < Len(ms)
    PROVE  /\ SubSeq(ms, 1, n) \in Seq(S) /\ ms[n + 1] \in S
           /\ SubSeq(ms, 1, n + 1) = Append(SubSeq(ms, 1, n), ms[n + 1])
<1>1. /\ Len(ms) \in Nat /\ n + 1 \in 1 .. Len(ms) /\ n \in Int /\ n + 1 \in Int /\ 1 \in Int
      /\ \A i \in 1 .. n : i \in 1 .. Len(ms)
      /\ \A i \in 1 .. n + 1 : i \in 1 .. Len(ms)
  <2>1. Len(ms) \in Nat
    BY LenProperties
  <2>2. QED
    BY <2>1
<1>2. ms[n + 1] \in S
  BY <1>1, ElementOfSeq
<1>3. /\ SubSeq(ms, 1, n) \in Seq(S)
      /\ Len(SubSeq(ms, 1, n)) = n
      /\ \A i \in 1 .. n : SubSeq(ms, 1, n)[i] = ms[i]
  <2>1. /\ SubSeq(ms, 1, n) \in Seq(S)
        /\ Len(SubSeq(ms, 1, n)) = IF 1 <= n THEN n - 1 + 1 ELSE 0
        /\ \A i \in 1 .. n - 1 + 1 : SubSeq(ms, 1, n)[i] = ms[1 + i - 1]
    BY <1>1, SubSeqProperties
  <2>2. QED
    BY <2>1
<1>4. /\ SubSeq(ms, 1, n + 1) \in Seq(S)
      /\ Len(SubSeq(ms, 1, n + 1)) = n + 1
      /\ \A i \in 1 .. n + 1 : SubSeq(ms, 1, n + 1)[i] = ms[i]
  <2>1. /\ SubSeq(ms, 1, n + 1) \in Seq(S)
        /\ Len(SubSeq(ms, 1, n + 1)) = IF 1 <= n + 1 THEN n + 1 - 1 + 1 ELSE 0
        /\ \A i \in 1 .. n + 1 - 1 + 1 : SubSeq(ms, 1, n + 1)[i] = ms[1 + i - 1]
    BY <1>1, SubSeqProperties
  <2>2. QED
    BY <2>1
<1>5. /\ Append(SubSeq(ms, 1, n), ms[n + 1]) \in Seq(S)
      /\ Len(Append(SubSeq(ms, 1, n), ms[n + 1])) = n + 1
      /\ \A i \in 1 .. n : Append(SubSeq(ms, 1, n), ms[n + 1])[i] = ms[i]
      /\ Append(SubSeq(ms, 1, n), ms[n + 1])[n + 1] = ms[n + 1]
  BY <1>2, <1>3, AppendProperties
<1>6. \A i \in 1 .. n + 1 :
          SubSeq(ms, 1, n + 1)[i] = Append(SubSeq(ms, 1, n), ms[n + 1])[i]
  <2>1. \A i \in 1 .. n + 1 : i \in 1 .. n \/ i = n + 1
    OBVIOUS
  <2>2. QED
    BY <1>4, <1>5, <2>1
<1>7. SubSeq(ms, 1, n + 1) = Append(SubSeq(ms, 1, n), ms[n + 1])
  BY <1>4, <1>5, <1>6, SeqEqual
<1>8. QED
  BY <1>2, <1>3, <1>7

\* Filing an entry appends it to the entry of its key.
LEMMA PushIs ==
    ASSUME NEW map, NEW key, NEW x, NEW k, NEW ms, MapIs(map, k, ms)
    PROVE  MapIs(Push(map, key, x), k, IF k = key THEN Append(ms, x) ELSE ms)
<1>1. Append(<<>>, x) = <<x>>
  OBVIOUS
<1>2. QED
  BY <1>1 DEF MapIs, Push

LEMMA CatalogFileStep ==
    ASSUME IInv, OrderedFiling, NEW h \in Handler, File(h)
    PROVE  OrderedFiling'
<1> DEFINE m == Head(rest)
<1>1. /\ all \in Seq(Manifest) /\ rest \in Seq(Manifest) /\ rest # <<>>
      /\ byUUID' = Push(byUUID, m.id, m) /\ byName' = Push(byName, NameKey(m), m)
      /\ rest' = Tail(rest) /\ all' = all
  BY DEF File, IInv, TypeOK
<1>2. /\ Len(all) \in Nat /\ Len(rest) \in Nat \ {0} /\ Len(rest) <= Len(all)
      /\ m = rest[1] /\ Len(Tail(rest)) = Len(rest) - 1
      /\ \A i \in 1 .. Len(rest) - 1 : Tail(rest)[i] = rest[i + 1]
      /\ \A i \in 1 .. Len(rest) : rest[i] = all[FiledSoFar + i]
  BY <1>1, LenProperties, EmptySeq, HeadTailProperties DEF OrderedFiling
<1>3. /\ FiledSoFar \in Nat /\ FiledSoFar < Len(all)
      /\ FiledSoFar' = FiledSoFar + 1
      /\ m = all[FiledSoFar + 1]
  BY <1>1, <1>2 DEF FiledSoFar
<1>4. /\ FiledList \in Seq(Manifest) /\ m \in Manifest
      /\ FiledList' = Append(FiledList, m)
  BY <1>1, <1>3, OneMore DEF FiledList
<1>5. Len(rest') <= Len(all')
  BY <1>1, <1>2
<1>6. ASSUME NEW i \in 1 .. Len(rest')
      PROVE  rest'[i] = all'[FiledSoFar' + i]
  <2>1. i + 1 \in 1 .. Len(rest) /\ i \in 1 .. Len(rest) - 1 /\ i \in Nat
    BY <1>1, <1>2
  <2>2. FiledSoFar + (i + 1) = FiledSoFar' + i
    BY <1>3, <2>1
  <2>3. rest[i + 1] = all[FiledSoFar + (i + 1)] /\ Tail(rest)[i] = rest[i + 1]
    BY <1>2, <2>1
  <2>4. QED
    BY <1>1, <2>2, <2>3
<1> HIDE DEF m
<1>7. ASSUME NEW u \in Uuid
      PROVE  MapIs(byUUID', u, Abstract!ByUuid(FiledList', u))
  <2>1. MapIs(byUUID, u, Abstract!ByUuid(FiledList, u))
    BY DEF OrderedFiling
  <2>2. Abstract!ByUuid(FiledList', u) =
            IF u = m.id THEN Append(Abstract!ByUuid(FiledList, u), m)
            ELSE Abstract!ByUuid(FiledList, u)
    BY <1>4, ListingAppend
  <2>3. QED
    BY <1>1, <2>1, <2>2, PushIs
<1>8. ASSUME NEW n \in Name
      PROVE  MapIs(byName', Lower(n), Abstract!ByName(FiledList', n))
  <2>1. MapIs(byName, Lower(n), Abstract!ByName(FiledList, n))
    BY DEF OrderedFiling
  <2>2. Abstract!ByName(FiledList', n) =
            IF Lower(n) = NameKey(m) THEN Append(Abstract!ByName(FiledList, n), m)
            ELSE Abstract!ByName(FiledList, n)
    BY <1>4, ListingAppend
  <2>3. QED
    BY <1>1, <2>1, <2>2, PushIs
<1>9. OrderedFiling' <=> /\ Len(rest') <= Len(all')
                         /\ \A i \in 1 .. Len(rest') : rest'[i] = all'[FiledSoFar' + i]
                         /\ \A u \in Uuid : MapIs(byUUID', u, Abstract!ByUuid(FiledList', u))
                         /\ \A n \in Name : MapIs(byName', Lower(n), Abstract!ByName(FiledList', n))
  BY DEF OrderedFiling
<1>10. QED
  BY <1>5, <1>6, <1>7, <1>8, <1>9

LEMMA CatalogBuildStep ==
    ASSUME IInv, NEW h \in Handler, BuildList(h)
    PROVE  OrderedFiling'
<1>1. /\ all' = rest' /\ all' \in Seq(Manifest) /\ byUUID' = EmptyMap /\ byName' = EmptyMap
  BY NextCallTypes, CallTypes DEF BuildList
<1>2. /\ Len(all') \in Nat /\ Len(rest') = Len(all') /\ FiledSoFar' = 0
  BY <1>1, LenProperties DEF FiledSoFar
<1>3. FiledList' = <<>>
  BY <1>2, SubSeqEmpty DEF FiledList
<1>4. \A i \in 1 .. Len(rest') : rest'[i] = all'[FiledSoFar' + i]
  BY <1>1, <1>2
<1>5. /\ \A u \in Uuid : MapIs(byUUID', u, Abstract!ByUuid(FiledList', u))
      /\ \A n \in Name : MapIs(byName', Lower(n), Abstract!ByName(FiledList', n))
  BY <1>1, <1>3, NothingListed, EmptyMapValues DEF MapIs
<1>6. Len(rest') <= Len(all')
  BY <1>2
<1>7. QED
  BY <1>4, <1>5, <1>6 DEF OrderedFiling

LEMMA CatalogAddStep ==
    ASSUME IInv, OrderedFiling, NEW h \in Handler, AddToList(h)
    PROVE  OrderedFiling'
<1> DEFINE m == NextCall(h).manifest
<1>1. /\ m \in Manifest /\ all \in Seq(Manifest)
      /\ all' = Append(all, m) /\ rest' = <<m>>
      /\ UNCHANGED <<byUUID, byName>>
  BY NextCallTypes, CallTypes DEF AddToList, IInv, TypeOK
<1>2. rest = <<>>
  BY DEF AddToList, IInv, LockHeld, FilingProgress
<1> HIDE DEF m
<1>3. /\ Len(all) \in Nat /\ all' \in Seq(Manifest) /\ Len(all') = Len(all) + 1
      /\ \A i \in 1 .. Len(all) : all'[i] = all[i]
      /\ all'[Len(all) + 1] = m
      /\ Len(rest') = 1 /\ rest'[1] = m /\ Len(rest) = 0
  BY <1>1, <1>2, LenProperties, AppendProperties
<1>4. FiledSoFar = Len(all) /\ FiledSoFar' = Len(all)
  BY <1>3 DEF FiledSoFar
<1>5. FiledList = all
  BY <1>1, <1>4, SubSeqFull DEF FiledList
<1>6. FiledList' = all
  <2>1. 1 \in Int /\ Len(all) \in Int /\ \A i \in 1 .. Len(all) : all'[i] \in Manifest
    BY <1>1, <1>3, ElementOfSeq
  <2>2. /\ SubSeq(all', 1, Len(all)) \in Seq(Manifest)
        /\ Len(SubSeq(all', 1, Len(all))) = IF 1 <= Len(all) THEN Len(all) - 1 + 1 ELSE 0
        /\ \A i \in 1 .. Len(all) - 1 + 1 : SubSeq(all', 1, Len(all))[i] = all'[1 + i - 1]
    BY <2>1, SubSeqProperties
  <2>3. /\ Len(SubSeq(all', 1, Len(all))) = Len(all)
        /\ \A i \in 1 .. Len(all) : SubSeq(all', 1, Len(all))[i] = all'[i]
    BY <1>3, <2>2
  <2>4. SubSeq(all', 1, Len(all)) = all
    BY <1>1, <1>3, <2>2, <2>3, SeqEqual
  <2>5. QED
    BY <1>4, <2>4 DEF FiledList
<1>7. Len(rest') <= Len(all') /\ \A i \in 1 .. Len(rest') : rest'[i] = all'[FiledSoFar' + i]
  BY <1>3, <1>4
<1>8. /\ \A u \in Uuid : MapIs(byUUID', u, Abstract!ByUuid(FiledList', u))
      /\ \A n \in Name : MapIs(byName', Lower(n), Abstract!ByName(FiledList', n))
  BY <1>1, <1>5, <1>6 DEF OrderedFiling
<1>9. QED
  BY <1>7, <1>8 DEF OrderedFiling

LEMMA CatalogInvStep ==
    ASSUME IInv, CatalogInv, NEW h \in Handler, Step(h)
    PROVE  CatalogInv'
<1>1. OrderedFiling'
  <2>1. CASE UNCHANGED <<all, rest, byUUID, byName>>
    BY <2>1 DEF CatalogInv, OrderedFiling, FiledSoFar, FiledList
  <2>2. QED
    BY <2>1, CatalogFileStep, CatalogBuildStep, CatalogAddStep
    DEF CatalogInv, Step, Lock, Enter, RLock, Unlock, Query, fields
<1>2. InsideACall'
  <2>1. ASSUME NEW g \in Handler \ {h}
        PROVE  step'[g] = step[g] /\ Finished(g)' = Finished(g)
    BY DEF Step, Lock, Enter, RLock, BuildList, AddToList, File, Unlock, Query, Return,
           Goto, Finished, IInv, TypeOK
  <2>2. step'[h] # "idle" => ~Finished(h)'
    <3>1. CASE Unlock(h) \/ Query(h)
      BY <3>1 DEF Unlock, Query, Return, Goto, IInv, TypeOK
    <3>2. CASE UNCHANGED <<replies, program>> /\ ~Finished(h)
      BY <3>2 DEF Finished
    <3>3. QED
      BY <3>1, <3>2
      DEF Step, Lock, Enter, RLock, BuildList, AddToList, File, Goto, CatalogInv, InsideACall
  <2>3. QED
    BY <2>1, <2>2 DEF CatalogInv, InsideACall
<1>3. QED
  BY <1>1, <1>2 DEF CatalogInv

-----------------------------------------------------------------------------
(* The refinement, step by step.                                             *)

\* What a caller of Catalog has been told.
Told == [h \in Handler |->
            IF step[h] = "filing" THEN Append(replies[h], Done) ELSE replies[h]]

\* Outside an update, a query answers from the fields what Catalog answers from
\* its list.
LEMMA SameAnswer ==
    ASSUME IInv, StampKept, OrderedFiling, \A g \in Handler : step[g] # "filing",
           NEW call \in Call, ~IsUpdate(call)
    PROVE  Answer(call) = Abstract!Answer(call, all, Len(past))
<1>1. FiledList = all
  <2>1. rest = <<>> /\ all \in Seq(Manifest)
    BY DEF IInv, TypeOK, FilingProgress
  <2>2. Len(all) \in Nat /\ Len(rest) = 0
    BY <2>1, LenProperties, EmptySeq
  <2>3. FiledSoFar = Len(all)
    BY <2>2 DEF FiledSoFar
  <2>4. QED
    BY <2>1, <2>3, SubSeqFull DEF FiledList
<1>2. /\ \A u \in Uuid : /\ MapIs(byUUID, u, Abstract!ByUuid(all, u))
                         /\ ValuesAt(byUUID, u) = WithUuid(all, u)
                         /\ u \in DOMAIN byUUID => byUUID[u] # <<>>
      /\ \A n \in Name : /\ MapIs(byName, Lower(n), Abstract!ByName(all, n))
                         /\ ValuesAt(byName, Lower(n)) = WithName(all, n)
                         /\ Lower(n) \in DOMAIN byName => byName[Lower(n)] # <<>>
  BY <1>1, NothingLeft DEF OrderedFiling, IInv, FilingProgress, Filed
<1>3. builtAt = Len(past)
  BY DEF StampKept
<1>4. CASE call.op = "QueryAll"
  BY <1>4 DEF Answer, Abstract!Answer, Listing, Abstract!Listing
<1>5. CASE call.op = "BuiltAt"
  BY <1>3, <1>5 DEF Answer, Abstract!Answer, Stamp, Abstract!Stamp
<1>6. CASE call.op = "QueryByUUID"
  <2>1. call.uuid \in Uuid
    BY <1>6 DEF Call
  <2>2. ListingAt(byUUID, call.uuid) =
            Abstract!ListingOrNotFound(Abstract!ByUuid(all, call.uuid))
    BY <1>2, <2>1
    DEF MapIs, ListingAt, Abstract!ListingOrNotFound, Listing, Abstract!Listing,
        NotFound, Abstract!NotFound
  <2>3. QED
    BY <1>6, <2>2 DEF Answer, Abstract!Answer
<1>7. CASE call.op = "QueryByName"
  <2>1. call.name \in Name
    BY <1>7 DEF Call
  <2>2. ListingAt(byName, Lower(call.name)) =
            Abstract!ListingOrNotFound(Abstract!ByName(all, call.name))
    BY <1>2, <2>1
    DEF MapIs, ListingAt, Abstract!ListingOrNotFound, Listing, Abstract!Listing,
        NotFound, Abstract!NotFound
  <2>3. QED
    BY <1>7, <2>2 DEF Answer, Abstract!Answer
<1>8. CASE call.op = "Exists"
  <2>1. call.uuid \in Uuid
    BY <1>8 DEF Call
  <2>2. (\E m \in ValuesAt(byUUID, call.uuid) : m.version = call.version) =
            Abstract!Exists(all, call.uuid, call.version)
    BY <1>2, <2>1
    DEF WithUuid, Abstract!Exists, Abstract!WithUuid, Range, Abstract!Range
  <2>3. QED
    BY <1>8, <2>2 DEF Answer, Abstract!Answer, Answered, Abstract!Answered
<1>9. CASE call.op = "NameConflict"
  <2> DEFINE n == call.name
             u == call.uuid
             key == Lower(call.name)
  <2>1. n \in Name /\ u \in Uuid
    BY <1>9 DEF Call
  <2>2. Abstract!NameConflict(all, n, u) <=>
            /\ WithName(all, n) # {}
            /\ \A m \in WithName(all, n) : m.id # u
    BY DEF Abstract!NameConflict, Abstract!WithName, WithName, Abstract!NameKey, NameKey,
           Range, Abstract!Range
  <2>3. key \in DOMAIN byName => byName[key] = Abstract!ByName(all, n) /\ byName[key] # <<>>
    BY <1>2, <2>1 DEF MapIs
  <2>4. ValuesAt(byName, key) = WithName(all, n)
    BY <1>2, <2>1
  <2>5. key \notin DOMAIN byName => WithName(all, n) = {}
    BY <2>4 DEF ValuesAt
  <2>6. key \in DOMAIN byName => WithName(all, n) # {}
    <3>1. ASSUME key \in DOMAIN byName
          PROVE  Range(byName[key]) # {}
      <4>1. byName[key] \in Seq(Manifest) /\ byName[key] # <<>>
        BY <2>3, <3>1 DEF IInv, TypeOK, MapsFrom
      <4>2. Len(byName[key]) \in Nat \ {0} /\ DOMAIN byName[key] = 1 .. Len(byName[key])
        BY <4>1, EmptySeq, LenProperties
      <4>3. 1 \in DOMAIN byName[key]
        BY <4>2
      <4>4. QED
        BY <4>3 DEF Range
    <3>2. QED
      BY <2>4, <3>1 DEF ValuesAt
  <2>7. FirstConflict(n, u) = IF Abstract!NameConflict(all, n, u)
                              THEN Abstract!ByName(all, n)[1].name ELSE NoName
    BY <2>2, <2>3, <2>4, <2>5, <2>6 DEF FirstConflict
  <2>8. QED
    BY <1>9, <2>7
    DEF Answer, Abstract!Answer, ConflictName, Abstract!ConflictName, Abstract!NoName, NoName
<1>10. QED
  BY <1>4, <1>5, <1>6, <1>7, <1>8, <1>9 DEF Call, IsUpdate

\* A step that tells no caller anything is none of Catalog's.
LEMMA Stutters ==
    ASSUME UNCHANGED <<past, program, Told>>
    PROVE  UNCHANGED Abstract!vars
BY DEF Told, Abstract!vars

\* A step that tells one caller something tells the others nothing.
LEMMA TellsOne ==
    ASSUME IInv, NEW h \in Handler, NEW reply, Told'[h] = Append(Told[h], reply),
           \A g \in Handler \ {h} : step'[g] = step[g] /\ replies'[g] = replies[g]
    PROVE  Told' = [Told EXCEPT ![h] = Append(@, reply)]
<1>1. \A g \in Handler \ {h} : Told'[g] = Told[g]
  BY DEF Told
<1>2. QED
  BY <1>1 DEF Told

LEMMA UpdateImplements ==
    ASSUME IInv, StampKept, CatalogInv, NEW h \in Handler, BuildList(h) \/ AddToList(h)
    PROVE  Abstract!Update(h)
<1>1. /\ step[h] = "writing" /\ step' = [step EXCEPT ![h] = "filing"]
      /\ UNCHANGED <<program, replies>>
      /\ step \in [Handler -> Steps]
  BY DEF BuildList, AddToList, Goto, IInv, TypeOK
<1>2. Told[h] = replies[h] /\ Told'[h] = Append(replies[h], Done)
  BY <1>1 DEF Told
<1>3. Abstract!NextCall(h) = NextCall(h) /\ ~Abstract!Finished(h)
  BY <1>1, <1>2
  DEF Abstract!NextCall, NextCall, Abstract!Finished, Finished, CatalogInv, InsideACall, Told
<1>4. Abstract!IsUpdate(NextCall(h))
  BY DEF BuildList, AddToList, Abstract!IsUpdate
<1>5. past' = Append(past, Abstract!Updated(NextCall(h), Abstract!ListNow))
  <2>1. Abstract!ListNow = all
    BY DEF Abstract!ListNow, StampKept
  <2>2. QED
    BY <2>1 DEF BuildList, AddToList, Abstract!Updated
<1>6. Abstract!Return(h, Abstract!Done)
  <2>1. Told' = [Told EXCEPT ![h] = Append(@, Done)]
    BY <1>1, <1>2, TellsOne
  <2>2. QED
    BY <2>1 DEF Abstract!Return, Told, Done, Abstract!Done
<1>7. QED
  BY <1>1, <1>3, <1>4, <1>5, <1>6 DEF Abstract!Update

LEMMA QueryImplements ==
    ASSUME IInv, StampKept, CatalogInv, NEW h \in Handler, Query(h)
    PROVE  Abstract!Query(h)
<1>1. /\ step[h] = "reading" /\ step' = [step EXCEPT ![h] = "idle"]
      /\ replies' = [replies EXCEPT ![h] = Append(@, Answer(NextCall(h)))]
      /\ UNCHANGED <<program, past>>
      /\ step \in [Handler -> Steps] /\ DOMAIN replies = Handler
  BY DEF Query, Return, Goto, IInv, TypeOK
<1>2. Told[h] = replies[h] /\ Told'[h] = Append(replies[h], Answer(NextCall(h)))
  BY <1>1 DEF Told
<1>3. Abstract!NextCall(h) = NextCall(h) /\ ~Abstract!Finished(h)
  BY <1>1, <1>2
  DEF Abstract!NextCall, NextCall, Abstract!Finished, Finished, CatalogInv, InsideACall, Told
<1>4. NextCall(h) \in Call /\ ~IsUpdate(NextCall(h)) /\ \A g \in Handler : step[g] # "filing"
  BY <1>1 DEF IInv, LockHeld
<1>5. ~Abstract!IsUpdate(NextCall(h))
  BY <1>4 DEF IsUpdate, Abstract!IsUpdate
<1>6. Answer(NextCall(h)) = Abstract!Answer(NextCall(h), Abstract!ListNow, Len(past))
  <2>1. Abstract!ListNow = all
    BY DEF Abstract!ListNow, StampKept
  <2>2. QED
    BY <1>4, <2>1, SameAnswer DEF CatalogInv
<1>7. Told' = [Told EXCEPT ![h] = Append(@, Answer(NextCall(h)))]
  <2>1. PICK reply : reply = Answer(NextCall(h))
    OBVIOUS
  <2>2. Told' = [Told EXCEPT ![h] = Append(@, reply)]
    BY <1>1, <1>2, <2>1, TellsOne
  <2>3. QED
    BY <2>1, <2>2
<1>8. QED
  BY <1>1, <1>3, <1>5, <1>6, <1>7 DEF Abstract!Query, Abstract!Return, Told

LEMMA StepImplements ==
    ASSUME IInv, StampKept, CatalogInv, NEW h \in Handler, Step(h)
    PROVE  [Abstract!Next]_Abstract!vars
<1>1. CASE Lock(h) \/ Enter(h) \/ RLock(h) \/ File(h)
  <2>1. /\ UNCHANGED <<past, program, replies>>
        /\ \A g \in Handler : step'[g] = "filing" <=> step[g] = "filing"
    BY <1>1 DEF Lock, Enter, RLock, File, Goto, IInv, TypeOK
  <2>2. UNCHANGED Told
    BY <2>1 DEF Told
  <2>3. QED
    BY <2>1, <2>2, Stutters
<1>2. CASE BuildList(h) \/ AddToList(h)
  BY <1>2, UpdateImplements DEF Abstract!Next, Abstract!MakeCall
<1>3. CASE Unlock(h)
  <2>1. /\ step[h] = "filing" /\ step' = [step EXCEPT ![h] = "idle"]
        /\ replies' = [replies EXCEPT ![h] = Append(@, Done)]
        /\ UNCHANGED <<past, program>>
        /\ DOMAIN step = Handler /\ DOMAIN replies = Handler
    BY <1>3 DEF Unlock, Return, Goto, IInv, TypeOK
  <2>2. \A g \in Handler : Told'[g] = Told[g]
    BY <2>1 DEF Told
  <2>3. UNCHANGED Told
    BY <2>2 DEF Told
  <2>4. QED
    BY <2>1, <2>3, Stutters
<1>4. CASE Query(h)
  BY <1>4, QueryImplements DEF Abstract!Next, Abstract!MakeCall
<1>5. QED
  BY <1>1, <1>2, <1>3, <1>4 DEF Step

\* While nobody updates it, the order in which a map lists the entries of a key
\* is that of the list: the listing of a UUID or a name is index.json cut down
\* to it, and the package a name conflict reports is the first one listed
\* (index.go:36-155).
MapsInOrder ==
    (\A h \in Handler : step[h] # "filing") =>
        /\ \A u \in Uuid : MapIs(byUUID, u, Abstract!ByUuid(all, u))
        /\ \A n \in Name : MapIs(byName, Lower(n), Abstract!ByName(all, n))

LEMMA CatalogInvariant == Spec => [](StampKept /\ CatalogInv)
<1>1. Init => StampKept /\ CatalogInv
  <2> SUFFICES ASSUME Init PROVE StampKept /\ CatalogInv
    OBVIOUS
  <2>1. StampKept
    BY DEF Init, StampKept
  <2>2. /\ all = <<>> /\ rest = <<>> /\ byUUID = EmptyMap /\ byName = EmptyMap
        /\ Len(all) = 0 /\ Len(rest) = 0
    BY EmptySeq DEF Init
  <2>3. FiledList = <<>>
    BY <2>2, SubSeqEmpty DEF FiledList, FiledSoFar
  <2>4. OrderedFiling
    BY <2>2, <2>3, NothingListed, EmptyMapValues DEF OrderedFiling, MapIs
  <2>5. InsideACall
    BY DEF Init, InsideACall
  <2>6. QED
    BY <2>1, <2>4, <2>5 DEF CatalogInv
<1>2. IInv /\ [Next]_vars /\ StampKept /\ CatalogInv => StampKept' /\ CatalogInv'
  <2> SUFFICES ASSUME IInv, [Next]_vars, StampKept, CatalogInv
               PROVE  StampKept' /\ CatalogInv'
    OBVIOUS
  <2>1. CASE UNCHANGED vars
    <3>1. /\ UNCHANGED <<all, byUUID, byName, builtAt, step, rest, program, replies, past>>
      BY <2>1 DEF vars, fields
    <3>2. StampKept'
      BY <3>1 DEF StampKept, NextCall
    <3>3. CatalogInv'
      BY <3>1 DEF CatalogInv, OrderedFiling, FiledSoFar, FiledList, InsideACall, Finished
    <3>4. QED
      BY <3>2, <3>3
  <2>2. ASSUME NEW h \in Handler, Step(h)
        PROVE  StampKept' /\ CatalogInv'
    BY <2>2, StampKeptStep, CatalogInvStep
  <2>3. QED
    BY <2>1, <2>2 DEF Next
<1>3. QED
  BY <1>1, <1>2, InductiveInvariant, PTL DEF Spec

\* Outside an update both maps list their entries in the order of index.json
\* (index.go:36-155).
THEOREM MapsKeepTheOrder == Spec => []MapsInOrder
<1>1. IInv /\ OrderedFiling => MapsInOrder
  <2> SUFFICES ASSUME IInv, OrderedFiling, \A h \in Handler : step[h] # "filing"
               PROVE  /\ \A u \in Uuid : MapIs(byUUID, u, Abstract!ByUuid(all, u))
                      /\ \A n \in Name : MapIs(byName, Lower(n), Abstract!ByName(all, n))
    BY DEF MapsInOrder
  <2>1. rest = <<>> /\ all \in Seq(Manifest)
    BY DEF IInv, TypeOK, FilingProgress
  <2>2. Len(all) \in Nat /\ Len(rest) = 0
    BY <2>1, LenProperties, EmptySeq
  <2>3. FiledSoFar = Len(all)
    BY <2>2 DEF FiledSoFar
  <2>4. FiledList = all
    BY <2>1, <2>3, SubSeqFull DEF FiledList
  <2>5. QED
    BY <2>4 DEF OrderedFiling
<1>2. CatalogInv => OrderedFiling
  BY DEF CatalogInv
<1>3. QED
  BY <1>1, <1>2, InductiveInvariant, CatalogInvariant, PTL

\* The index implements the catalogue: with any number of goroutines, every
\* reply is the one Catalog gives at the instant the call takes effect.  What
\* IsCatalog says beyond this, that calls return, is liveness.
THEOREM ImplementsCatalog == Spec => Abstract!SafeSpec
<1>1. Init => Abstract!Init
  <2> SUFFICES ASSUME Init PROVE Abstract!Init
    OBVIOUS
  <2>1. Told = [h \in Handler |-> <<>>]
    BY DEF Init, Told
  <2>2. QED
    BY <2>1 DEF Init, Told, Abstract!Init
<1>2. IInv /\ StampKept /\ CatalogInv /\ [Next]_vars => [Abstract!Next]_Abstract!vars
  <2> SUFFICES ASSUME IInv, StampKept, CatalogInv, [Next]_vars
               PROVE  [Abstract!Next]_Abstract!vars
    OBVIOUS
  <2>1. CASE UNCHANGED vars
    BY <2>1, Stutters DEF vars, Told
  <2>2. ASSUME NEW h \in Handler, Step(h)
        PROVE  [Abstract!Next]_Abstract!vars
    BY <2>2, StepImplements
  <2>3. QED
    BY <2>1, <2>2 DEF Next
<1>3. QED
  BY <1>1, <1>2, InductiveInvariant, CatalogInvariant, PTL DEF Spec, Abstract!SafeSpec

=============================================================================
