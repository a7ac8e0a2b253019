---------------------------- MODULE SourceProofs ----------------------------
(***************************************************************************)
(* Proofs about the operators of Source and ServerConfig: what expanding a *)
(* template gives in whatever order its keys are taken, what trimming      *)
(* leaves of an address, which dependencies are read back.                 *)
(*                                                                         *)
(* Expanding is a recursion over sets of keys, putting a value into a text *)
(* one over the text.  The first section shows that the functions these    *)
(* recursions define exist; the rest uses their equations.                 *)
(***************************************************************************)
EXTENDS Source, SequenceTheorems, FiniteSetTheorems, WellFoundedInduction, TLAPS

\* Concatenation and one-element sequences under a name: the provers take an
\* equation with \o or << >> apart into one about lengths and elements.
Cat(s, t) == s \o t
One(x) == <<x>>

LEMMA CatSeq ==
    ASSUME NEW S
    PROVE  /\ \A s, t \in Seq(S) : Cat(s, t) \in Seq(S)
           /\ \A s \in Seq(S) : Cat(s, <<>>) = s /\ Cat(<<>>, s) = s
BY ConcatProperties, ConcatEmptySeq DEF Cat

LEMMA CatAssociative ==
    ASSUME NEW S
    PROVE  \A s, t, u \in Seq(S) : Cat(Cat(s, t), u) = Cat(s, Cat(t, u))
BY ConcatAssociative DEF Cat

LEMMA CatAppend ==
    ASSUME NEW S
    PROVE  /\ \A s \in Seq(S), x \in S : Cat(s, One(x)) = Append(s, x)
           /\ \A x \in S : One(x) \in Seq(S)
BY AppendIsConcat DEF Cat, One

-----------------------------------------------------------------------------
(* Recursion.                                                                *)

\* Induction over the naturals, as a fact about sets of them.
LEMMA SetOfAllNaturals ==
    ASSUME NEW T \in SUBSET Nat, 0 \in T, \A n \in T : n + 1 \in T
    PROVE  T = Nat
<1>1. SUFFICES ASSUME Nat \ T # {} PROVE FALSE
  OBVIOUS
<1>2. PICK x \in Nat \ T : \A y \in Nat \ T : ~ (<<y, x>> \in OpToRel(<, Nat))
  BY <1>1, WFMin, NatLessThanWellFounded
<1>3. x # 0 /\ x - 1 \in Nat
  OBVIOUS
<1>4. <<x - 1, x>> \in OpToRel(<, Nat)
  BY <1>3 DEF OpToRel
<1>5. x - 1 \in T
  BY <1>2, <1>3, <1>4
<1>6. (x - 1) + 1 = x
  BY <1>3
<1>7. QED
  BY <1>5, <1>6

\* The concatenations that FlattenSeq builds one from the other.
Flattens(f, seqs) ==
    f = [i \in 1 .. Len(seqs) |-> IF i = 1 THEN seqs[i] ELSE f[i - 1] \o seqs[i]]

LEMMA FlattenDefined ==
    ASSUME NEW S, NEW seqs \in Seq(S)
    PROVE  \E f : Flattens(f, seqs)
<1> DEFINE Upto(f, n) ==
             f = [i \in 1 .. n |-> IF i = 1 THEN seqs[i] ELSE f[i - 1] \o seqs[i]]
           T == {n \in Nat : \E f : Upto(f, n)}
<1>1. 0 \in T
  <2> DEFINE f == [i \in 1 .. 0 |-> {}]
  <2>1. f = [i \in 1 .. 0 |-> IF i = 1 THEN seqs[i] ELSE f[i - 1] \o seqs[i]]
    OBVIOUS
  <2>2. QED
    BY <2>1
<1>2. ASSUME NEW n \in T
      PROVE  n + 1 \in T
  <2>1. PICK f : Upto(f, n)
    OBVIOUS
  <2> DEFINE Step(g, i) == IF i = 1 THEN seqs[i] ELSE g[i - 1] \o seqs[i]
             g == [i \in 1 .. n + 1 |-> IF i = n + 1 THEN Step(f, i) ELSE f[i]]
  <2>2. ASSUME NEW i \in 1 .. n + 1
        PROVE  g[i] = Step(g, i)
    <3>1. CASE i = n + 1
      <4>1. CASE i = 1
        BY <3>1, <4>1
      <4>2. CASE i # 1
        <5>1. i - 1 \in 1 .. n + 1 /\ i - 1 # n + 1
          BY <3>1, <4>2
        <5>2. g[i - 1] = f[i - 1]
          BY <5>1
        <5>3. QED
          BY <3>1, <5>2
      <4>3. QED
        BY <4>1, <4>2
    <3>2. CASE i # n + 1
      <4>1. i \in 1 .. n
        BY <3>2
      <4>2. g[i] = Step(f, i)
        BY <2>1, <3>2, <4>1
      <4>3. CASE i = 1
        BY <4>2, <4>3
      <4>4. CASE i # 1
        <5>1. i - 1 \in 1 .. n + 1 /\ i - 1 # n + 1
          BY <4>1, <4>4
        <5>2. g[i - 1] = f[i - 1]
          BY <5>1
        <5>3. QED
          BY <4>2, <5>2
      <4>5. QED
        BY <4>3, <4>4
    <3>3. QED
      BY <3>1, <3>2
  <2>3. g = [i \in 1 .. n + 1 |-> Step(g, i)]
    <3>1. g = [i \in 1 .. n + 1 |-> g[i]]
      OBVIOUS
    <3> HIDE DEF g, Step
    <3>2. QED
      BY <2>2, <3>1
  <2>4. \E h : Upto(h, n + 1)
    BY <2>3
  <2> HIDE DEF Upto
  <2>5. QED
    BY <2>4
<1>3. T = Nat
  <2> HIDE DEF T
  <2>1. T \in SUBSET Nat
    BY DEF T
  <2>2. QED
    BY <1>1, <1>2, <2>1, SetOfAllNaturals
<1>4. Len(seqs) \in T
  BY <1>3, LenProperties
<1>5. QED
  BY <1>4 DEF Flattens

\* What FlattenSeq computes is a sequence, and one more sequence goes at its end.
LEMMA FlattenSteps ==
    ASSUME NEW S, NEW seqs \in Seq(Seq(S)), NEW f, Flattens(f, seqs)
    PROVE  \A i \in 1 .. Len(seqs) : f[i] \in Seq(S)
<1> DEFINE T == {n \in Nat : n \in 1 .. Len(seqs) => f[n] \in Seq(S)}
<1>1. 0 \in T
  OBVIOUS
<1>2. ASSUME NEW n \in T
      PROVE  n + 1 \in T
  <2> SUFFICES ASSUME n + 1 \in 1 .. Len(seqs)
               PROVE  f[n + 1] \in Seq(S)
    OBVIOUS
  <2>1. seqs[n + 1] \in Seq(S)
    BY ElementOfSeq
  <2>2. f[n + 1] = IF n + 1 = 1 THEN seqs[n + 1] ELSE f[(n + 1) - 1] \o seqs[n + 1]
    BY DEF Flattens
  <2>3. CASE n = 0
    BY <2>1, <2>2, <2>3
  <2>4. CASE n # 0
    <3>1. (n + 1) - 1 = n /\ n \in 1 .. Len(seqs) /\ n + 1 # 1
      BY <2>4, LenProperties
    <3>2. f[n] \in Seq(S)
      BY <3>1
    <3>3. QED
      BY <2>1, <2>2, <3>1, <3>2, ConcatProperties
  <2>5. QED
    BY <2>3, <2>4
<1>3. T = Nat
  <2> HIDE DEF T
  <2>1. T \in SUBSET Nat
    BY DEF T
  <2>2. QED
    BY <1>1, <1>2, <2>1, SetOfAllNaturals
<1>4. QED
  BY <1>3

\* FlattenSeq reads the last of the concatenations.
LEMMA FlattenIsLast ==
    ASSUME NEW S, NEW seqs \in Seq(Seq(S)), seqs # <<>>
    PROVE  \E f : Flattens(f, seqs) /\ FlattenSeq(seqs) = f[Len(seqs)]
<1> DEFINE f == CHOOSE g : Flattens(g, seqs)
<1>1. Flattens(f, seqs)
  BY FlattenDefined
<1>2. Len(seqs) # 0
  BY EmptySeq, LenProperties
<1>3. FlattenSeq(seqs) = f[Len(seqs)]
  BY <1>2 DEF FlattenSeq, Flattens
<1>4. QED
  BY <1>1, <1>3

LEMMA FlattenType ==
    ASSUME NEW S, NEW seqs \in Seq(Seq(S))
    PROVE  FlattenSeq(seqs) \in Seq(S)
<1>1. CASE seqs = <<>>
  BY <1>1, EmptySeq DEF FlattenSeq
<1>2. CASE seqs # <<>>
  <2>1. PICK f : Flattens(f, seqs) /\ FlattenSeq(seqs) = f[Len(seqs)]
    BY <1>2, FlattenIsLast
  <2>2. Len(seqs) \in 1 .. Len(seqs)
    BY <1>2, EmptySeq, LenProperties
  <2>3. QED
    BY <2>1, <2>2, FlattenSteps
<1>3. QED
  BY <1>1, <1>2

LEMMA FlattenAppend ==
    ASSUME NEW S, NEW seqs \in Seq(Seq(S)), NEW s \in Seq(S)
    PROVE  FlattenSeq(Append(seqs, s)) = Cat(FlattenSeq(seqs), s)
<1> DEFINE more == Append(seqs, s)
<1>1. /\ more \in Seq(Seq(S)) /\ Len(more) = Len(seqs) + 1 /\ more # <<>>
      /\ Len(seqs) \in Nat /\ more[Len(more)] = s
      /\ \A i \in 1 .. Len(seqs) : more[i] = seqs[i]
  BY AppendProperties, LenProperties
<1>2. PICK g : Flattens(g, more) /\ FlattenSeq(more) = g[Len(more)]
  BY <1>1, FlattenIsLast
<1> HIDE DEF more
<1>3. CASE seqs = <<>>
  <2>1. Len(more) = 1 /\ FlattenSeq(seqs) = <<>>
    BY <1>1, <1>3 DEF FlattenSeq
  <2>2. g[Len(more)] = s
    <3>1. 1 \in 1 .. Len(more) /\ more[1] = s
      BY <1>1, <2>1
    <3>2. g[1] = more[1]
      BY <1>2, <3>1 DEF Flattens
    <3>3. QED
      BY <2>1, <3>1, <3>2
  <2>3. <<>> \o s = s
    BY ConcatEmptySeq
  <2>4. QED
    BY <1>2, <2>1, <2>2, <2>3 DEF more, Cat
<1>4. CASE seqs # <<>>
  <2>1. PICK f : Flattens(f, seqs) /\ FlattenSeq(seqs) = f[Len(seqs)]
    BY <1>4, FlattenIsLast
  <2>2. Len(seqs) >= 1
    BY <1>1, <1>4, EmptySeq
  <2> DEFINE T == {n \in Nat : n \in 1 .. Len(seqs) => g[n] = f[n]}
  <2>3. 0 \in T
    OBVIOUS
  <2>4. ASSUME NEW n \in T
        PROVE  n + 1 \in T
    <3> SUFFICES ASSUME n + 1 \in 1 .. Len(seqs)
                 PROVE  g[n + 1] = f[n + 1]
      OBVIOUS
    <3>1. n + 1 \in 1 .. Len(more) /\ more[n + 1] = seqs[n + 1]
      BY <1>1
    <3>2. g[n + 1] = IF n + 1 = 1 THEN more[n + 1] ELSE g[(n + 1) - 1] \o more[n + 1]
      BY <1>2, <3>1 DEF Flattens
    <3>3. f[n + 1] = IF n + 1 = 1 THEN seqs[n + 1] ELSE f[(n + 1) - 1] \o seqs[n + 1]
      BY <2>1 DEF Flattens
    <3>4. CASE n = 0
      BY <3>1, <3>2, <3>3, <3>4
    <3>5. CASE n # 0
      <4>1. (n + 1) - 1 = n /\ n \in 1 .. Len(seqs) /\ n + 1 # 1
        BY <1>1, <3>5
      <4>2. g[n] = f[n]
        BY <4>1
      <4>3. QED
        BY <3>1, <3>2, <3>3, <4>1, <4>2
    <3>6. QED
      BY <3>4, <3>5
  <2>5. T = Nat
    <3> HIDE DEF T
    <3>1. T \in SUBSET Nat
      BY DEF T
    <3>2. QED
      BY <2>3, <2>4, <3>1, SetOfAllNaturals
  <2>6. g[Len(seqs)] = f[Len(seqs)]
    <3>1. Len(seqs) \in 1 .. Len(seqs)
      BY <1>1, <2>2
    <3>2. \A n \in T : n \in 1 .. Len(seqs) => g[n] = f[n]
      OBVIOUS
    <3> HIDE DEF T
    <3>3. Len(seqs) \in T
      BY <1>1, <2>5
    <3>4. QED
      BY <3>1, <3>2, <3>3
  <2>7. g[Len(more)] = g[Len(seqs)] \o s
    <3>1. Len(more) \in 1 .. Len(more) /\ Len(more) # 1 /\ Len(more) - 1 = Len(seqs)
      BY <1>1, <2>2
    <3>2. QED
      BY <1>1, <1>2, <3>1 DEF Flattens
  <2>8. QED
    BY <1>2, <2>1, <2>6, <2>7 DEF more, Cat
<1>5. QED
  BY <1>3, <1>4

-----------------------------------------------------------------------------
(* Putting a value into a text.                                              *)

\* What becomes of one token.
Put(token, key, value) == IF token = Braced(key) THEN value ELSE <<token>>

LEMMA SubstituteType ==
    ASSUME NEW S, NEW text \in Seq(S), NEW key, NEW value \in Seq(S)
    PROVE  /\ [i \in DOMAIN text |-> Put(text[i], key, value)] \in Seq(Seq(S))
           /\ Substitute(text, key, value) \in Seq(S)
<1> DEFINE puts == [i \in DOMAIN text |-> Put(text[i], key, value)]
<1>1. \A i \in DOMAIN text : Put(text[i], key, value) \in Seq(S)
  <2> SUFFICES ASSUME NEW i \in DOMAIN text
               PROVE  Put(text[i], key, value) \in Seq(S)
    OBVIOUS
  <2>1. text[i] \in S
    BY ElementOfSeq, LenProperties
  <2>2. <<text[i]>> \in Seq(S)
    BY <2>1
  <2>3. QED
    BY <2>2 DEF Put
<1>2. puts \in Seq(Seq(S))
  <2>1. Len(text) \in Nat /\ DOMAIN text = 1 .. Len(text)
    BY LenProperties
  <2>2. \A i \in 1 .. Len(text) : Put(text[i], key, value) \in Seq(S)
    BY <1>1, <2>1
  <2>3. puts = [i \in 1 .. Len(text) |-> Put(text[i], key, value)]
    BY <2>1
  <2>4. QED
    BY <2>1, <2>2, <2>3, IsASeq
<1>3. Substitute(text, key, value) = FlattenSeq(puts)
  BY DEF Substitute, Put
<1>4. QED
  BY <1>2, <1>3, FlattenType

LEMMA SubstituteEmpty ==
    ASSUME NEW key, NEW value
    PROVE  Substitute(<<>>, key, value) = <<>>
<1>1. [i \in DOMAIN <<>> |-> Put(<<>>[i], key, value)] = <<>>
  BY EmptySeq
<1>2. FlattenSeq(<<>>) = <<>>
  BY EmptySeq DEF FlattenSeq
<1>3. QED
  BY <1>1, <1>2 DEF Substitute, Put

LEMMA SubstituteAppend ==
    ASSUME NEW S, NEW text \in Seq(S), NEW token \in S, NEW key, NEW value \in Seq(S)
    PROVE  Substitute(Cat(text, One(token)), key, value)
             = Cat(Substitute(text, key, value), Put(token, key, value))
<1> DEFINE more == Append(text, token)
           P(t) == [i \in DOMAIN t |-> Put(t[i], key, value)]
<1>1. /\ more \in Seq(S) /\ Len(text) \in Nat /\ Len(more) = Len(text) + 1
      /\ \A i \in 1 .. Len(text) : more[i] = text[i]
      /\ more[Len(text) + 1] = token
      /\ DOMAIN text = 1 .. Len(text) /\ DOMAIN more = 1 .. Len(text) + 1
  BY AppendProperties, LenProperties
<1>2. /\ P(text) \in Seq(Seq(S)) /\ P(more) \in Seq(Seq(S))
      /\ Put(token, key, value) \in Seq(S)
  <2>1. <<token>> \in Seq(S)
    OBVIOUS
  <2> HIDE DEF more
  <2>2. QED
    BY <1>1, <2>1, SubstituteType DEF Put
<1>3. P(more) = Append(P(text), Put(token, key, value))
  <2> DEFINE right == Append(P(text), Put(token, key, value))
  <2>1. Len(P(text)) = Len(text)
    BY <1>1, <1>2, LenProperties
  <2>2. /\ right \in Seq(Seq(S)) /\ Len(right) = Len(text) + 1
        /\ \A i \in 1 .. Len(text) : right[i] = P(text)[i]
        /\ right[Len(text) + 1] = Put(token, key, value)
    BY <1>2, <2>1, AppendProperties
  <2>3. DOMAIN P(more) = 1 .. Len(text) + 1
    BY <1>1
  <2>4. Len(P(more)) = Len(text) + 1
    BY <1>1, <1>2, <2>3, LenProperties
  <2>5. \A i \in 1 .. Len(text) : P(more)[i] = P(text)[i]
    <3> SUFFICES ASSUME NEW i \in 1 .. Len(text)
                 PROVE  P(more)[i] = P(text)[i]
      OBVIOUS
    <3>1. i \in DOMAIN text /\ i \in DOMAIN more /\ more[i] = text[i]
      BY <1>1
    <3> HIDE DEF more
    <3>2. QED
      BY <3>1
  <2>6. P(more)[Len(text) + 1] = Put(token, key, value)
    <3>1. Len(text) + 1 \in DOMAIN more
      BY <1>1
    <3> HIDE DEF more
    <3>2. QED
      BY <1>1, <3>1
  <2> HIDE DEF P, right, more
  <2>7. \A i \in 1 .. Len(right) : P(more)[i] = right[i]
    <3>1. \A i \in 1 .. Len(right) : i \in 1 .. Len(text) \/ i = Len(text) + 1
      BY <1>1, <2>2
    <3>2. QED
      BY <2>2, <2>5, <2>6, <3>1
  <2>8. P(more) = right
    BY <1>2, <2>2, <2>4, <2>7, SeqEqual
  <2>9. QED
    BY <2>8 DEF right
<1>4. /\ Substitute(more, key, value) = FlattenSeq(P(more))
      /\ Substitute(text, key, value) = FlattenSeq(P(text))
  BY DEF Substitute, Put
<1> HIDE DEF P, more
<1>5. Substitute(more, key, value)
        = Cat(Substitute(text, key, value), Put(token, key, value))
  BY <1>2, <1>3, <1>4, FlattenAppend
<1>6. more = Cat(text, One(token))
  BY CatAppend DEF more
<1>7. QED
  BY <1>5, <1>6

\* A sequence is empty or one token longer than another.
LEMMA LongerByOne ==
    ASSUME NEW S, NEW n \in Nat, NEW text \in Seq(S), Len(text) = n + 1
    PROVE  \E t \in Seq(S), token \in S : /\ text = Cat(t, One(token)) /\ Len(t) = n
                                           /\ Range(t) \subseteq Range(text)
                                           /\ token \in Range(text)
<1>1. text # <<>>
  BY EmptySeq
<1>2. PICK t \in Seq(S), token \in S : text = Append(t, token)
  BY <1>1, SequenceEmptyOrAppend
<1>3. /\ DOMAIN t = 1 .. Len(t) /\ DOMAIN text = 1 .. Len(t) + 1
      /\ \A i \in 1 .. Len(t) : text[i] = t[i]
      /\ text[Len(t) + 1] = token /\ Len(t) \in Nat /\ Len(text) = Len(t) + 1
  BY <1>2, AppendProperties, LenProperties
<1>4. Range(t) \subseteq Range(text) /\ token \in Range(text)
  <2>1. \A i \in DOMAIN t : i \in DOMAIN text /\ text[i] = t[i]
    BY <1>3
  <2>2. Len(t) + 1 \in DOMAIN text
    BY <1>3
  <2>3. QED
    BY <1>3, <2>1, <2>2 DEF Range
<1>5. Len(t) = n
  BY <1>3
<1>6. Cat(t, One(token)) = Append(t, token)
  BY CatAppend
<1>7. Cat(t, One(token)) = text
  BY <1>2, <1>6
<1>8. QED
  BY <1>4, <1>5, <1>7

\* Putting a value into a text puts it into its parts.
LEMMA SubstituteCat ==
    ASSUME NEW S, NEW key, NEW value \in Seq(S), NEW left \in Seq(S)
    PROVE  \A right \in Seq(S) : Substitute(Cat(left, right), key, value)
             = Cat(Substitute(left, key, value), Substitute(right, key, value))
<1> DEFINE Sub(t) == Substitute(t, key, value)
           T == {n \in Nat : \A right \in Seq(S) : Len(right) = n =>
                                Sub(Cat(left, right)) = Cat(Sub(left), Sub(right))}
<1>1. 0 \in T
  <2>1. \A right \in Seq(S) : Len(right) = 0 => right = <<>>
    BY EmptySeq
  <2>2. Sub(left) \in Seq(S) /\ Sub(<<>>) = <<>>
    BY SubstituteType, SubstituteEmpty
  <2> HIDE DEF Sub
  <2>3. Cat(Sub(left), <<>>) = Sub(left) /\ Cat(left, <<>>) = left
    BY <2>2, CatSeq
  <2>4. QED
    BY <2>1, <2>2, <2>3
<1>2. ASSUME NEW n \in T
      PROVE  n + 1 \in T
  <2> SUFFICES ASSUME NEW right \in Seq(S), Len(right) = n + 1
               PROVE  Sub(Cat(left, right)) = Cat(Sub(left), Sub(right))
    OBVIOUS
  <2>1. PICK t \in Seq(S), token \in S : right = Cat(t, One(token)) /\ Len(t) = n
    BY LongerByOne
  <2> DEFINE put == Put(token, key, value)
  <2>2. One(token) \in Seq(S)
    BY CatAppend
  <2>3. put \in Seq(S)
    BY <2>2 DEF Put, One
  <2>4. /\ Cat(left, t) \in Seq(S)
        /\ Cat(left, right) = Cat(Cat(left, t), One(token))
    BY <2>1, <2>2, CatSeq, CatAssociative
  <2>5. Sub(Cat(left, right)) = Cat(Sub(Cat(left, t)), put) /\ Sub(right) = Cat(Sub(t), put)
    BY <2>1, <2>4, SubstituteAppend
  <2>6. Sub(Cat(left, t)) = Cat(Sub(left), Sub(t))
    BY <2>1
  <2>7. Sub(left) \in Seq(S) /\ Sub(t) \in Seq(S)
    BY SubstituteType
  <2> HIDE DEF Sub, put, T
  <2>8. Cat(Cat(Sub(left), Sub(t)), put) = Cat(Sub(left), Cat(Sub(t), put))
    BY <2>3, <2>7, CatAssociative
  <2>9. QED
    BY <2>5, <2>6, <2>8
<1>3. T = Nat
  <2> HIDE DEF T
  <2>1. T \in SUBSET Nat
    BY DEF T
  <2>2. QED
    BY <1>1, <1>2, <2>1, SetOfAllNaturals
<1>4. QED
  <2> SUFFICES ASSUME NEW right \in Seq(S)
               PROVE  Sub(Cat(left, right)) = Cat(Sub(left), Sub(right))
    OBVIOUS
  <2>1. Len(right) \in T
    BY <1>3, LenProperties
  <2> HIDE DEF Sub
  <2>2. QED
    BY <2>1

\* A text without the placeholder stays as it is.
LEMMA SubstituteAbsent ==
    ASSUME NEW S, NEW key, NEW value \in Seq(S)
    PROVE  \A text \in Seq(S) : Braced(key) \notin Range(text) =>
               Substitute(text, key, value) = text
<1> DEFINE T == {n \in Nat : \A text \in Seq(S) :
                    Len(text) = n /\ Braced(key) \notin Range(text) =>
                        Substitute(text, key, value) = text}
<1>1. 0 \in T
  <2>1. \A text \in Seq(S) : Len(text) = 0 => text = <<>>
    BY EmptySeq
  <2>2. QED
    BY <2>1, SubstituteEmpty
<1>2. ASSUME NEW n \in T
      PROVE  n + 1 \in T
  <2> SUFFICES ASSUME NEW text \in Seq(S), Len(text) = n + 1,
                      Braced(key) \notin Range(text)
               PROVE  Substitute(text, key, value) = text
    OBVIOUS
  <2>1. PICK t \in Seq(S), token \in S :
            /\ text = Cat(t, One(token)) /\ Len(t) = n
            /\ Range(t) \subseteq Range(text) /\ token \in Range(text)
    BY LongerByOne
  <2>2. Substitute(t, key, value) = t
    BY <2>1
  <2>3. Put(token, key, value) = One(token)
    BY <2>1 DEF Put, One
  <2>4. Substitute(Cat(t, One(token)), key, value) = Cat(t, One(token))
    BY <2>2, <2>3, SubstituteAppend
  <2>5. QED
    BY <2>1, <2>4
<1>3. T = Nat
  <2> HIDE DEF T
  <2>1. T \in SUBSET Nat
    BY DEF T
  <2>2. QED
    BY <1>1, <1>2, <2>1, SetOfAllNaturals
<1>4. QED
  <2> SUFFICES ASSUME NEW text \in Seq(S), Braced(key) \notin Range(text)
               PROVE  Substitute(text, key, value) = text
    OBVIOUS
  <2>1. Len(text) \in T
    BY <1>3, LenProperties
  <2>2. QED
    BY <2>1

\* The placeholder itself becomes the value.
LEMMA SubstituteKey ==
    ASSUME NEW S, NEW key, NEW value \in Seq(S), Braced(key) \in S
    PROVE  Substitute(One(Braced(key)), key, value) = value
<1> DEFINE e == <<>>
<1>1. e \in Seq(S) /\ Substitute(e, key, value) = e
  BY EmptySeq, SubstituteEmpty
<1>2. Cat(e, value) = value /\ Cat(e, One(Braced(key))) = One(Braced(key))
  BY CatAppend, CatSeq
<1>3. Put(Braced(key), key, value) = value
  BY DEF Put
<1> HIDE DEF e
<1>4. Substitute(Cat(e, One(Braced(key))), key, value)
        = Cat(Substitute(e, key, value), Put(Braced(key), key, value))
  BY <1>1, SubstituteAppend
<1>5. QED
  BY <1>1, <1>2, <1>3, <1>4

-----------------------------------------------------------------------------
(* Expanding a template.                                                     *)

\* The texts there are once the keys of a set are done, from those of smaller
\* sets.
Texts(after, keys, template, w) ==
    IF keys = {} THEN {template}
    ELSE UNION { {Substitute(text, k, w[k]) : text \in after[keys \ {k}]} : k \in keys }
Expands(after, template, w) ==
    after = [keys \in SUBSET DOMAIN w |-> Texts(after, keys, template, w)]

\* Sets of keys have sizes, and a set without one of its keys is smaller by one.
LEMMA KeySets ==
    ASSUME NEW D, IsFiniteSet(D), NEW keys \in SUBSET D
    PROVE  /\ Cardinality(keys) \in Nat /\ (Cardinality(keys) = 0 <=> keys = {})
           /\ \A k \in keys : /\ keys \ {k} \in SUBSET D
                              /\ Cardinality(keys \ {k}) = Cardinality(keys) - 1
<1>1. IsFiniteSet(keys)
  BY FS_Subset
<1>2. QED
  BY <1>1, FS_CardinalityType, FS_EmptySet, FS_RemoveElement

LEMMA TextsDepend ==
    ASSUME NEW a, NEW b, NEW keys, NEW template, NEW w,
           \A k \in keys : a[keys \ {k}] = b[keys \ {k}]
    PROVE  Texts(a, keys, template, w) = Texts(b, keys, template, w)
<1> DEFINE From(f, k) == {Substitute(text, k, w[k]) : text \in f[keys \ {k}]}
<1>1. \A k \in keys : From(a, k) = From(b, k)
  OBVIOUS
<1>2. {From(a, k) : k \in keys} = {From(b, k) : k \in keys}
  <2> HIDE DEF From
  <2>1. QED
    BY <1>1
<1>3. QED
  BY <1>2 DEF Texts

LEMMA ExpandsDefined ==
    ASSUME NEW template, NEW w, IsFiniteSet(DOMAIN w)
    PROVE  \E after : Expands(after, template, w)
<1> DEFINE D == DOMAIN w
           Upto(a, n) == \A keys \in SUBSET D : Cardinality(keys) <= n =>
                             a[keys] = Texts(a, keys, template, w)
           T == {n \in Nat : \E a : Upto(a, n)}
<1>1. 0 \in T
  <2> DEFINE a == [keys \in SUBSET D |-> {template}]
  <2>1. \A keys \in SUBSET D : Cardinality(keys) <= 0 => keys = {}
    BY KeySets
  <2>2. \A keys \in SUBSET D : a[keys] = {template}
    OBVIOUS
  <2> HIDE DEF a
  <2>3. Upto(a, 0)
    BY <2>1, <2>2 DEF Texts
  <2> HIDE DEF Upto
  <2>4. QED
    BY <2>3
<1>2. ASSUME NEW n \in T
      PROVE  n + 1 \in T
  <2>1. PICK a : Upto(a, n)
    OBVIOUS
  <2> DEFINE b == [keys \in SUBSET D |-> IF Cardinality(keys) <= n THEN a[keys]
                                         ELSE Texts(a, keys, template, w)]
  <2>2. \A keys \in SUBSET D : Cardinality(keys) <= n => b[keys] = a[keys]
    OBVIOUS
  <2>3. ASSUME NEW keys \in SUBSET D, Cardinality(keys) <= n + 1
        PROVE  b[keys] = Texts(b, keys, template, w)
    <3>1. b[keys] = Texts(a, keys, template, w)
      BY <2>1
    <3>2. \A k \in keys : a[keys \ {k}] = b[keys \ {k}]
      <4> SUFFICES ASSUME NEW k \in keys
                   PROVE  a[keys \ {k}] = b[keys \ {k}]
        OBVIOUS
      <4>1. /\ keys \ {k} \in SUBSET D /\ Cardinality(keys) \in Nat
            /\ Cardinality(keys \ {k}) = Cardinality(keys) - 1
        BY KeySets
      <4>2. Cardinality(keys \ {k}) <= n
        BY <2>3, <4>1
      <4> HIDE DEF b
      <4>3. QED
        BY <2>2, <4>1, <4>2
    <3> HIDE DEF b
    <3>3. Texts(a, keys, template, w) = Texts(b, keys, template, w)
      BY <3>2, TextsDepend
    <3>4. QED
      BY <3>1, <3>3
  <2> HIDE DEF b
  <2>4. Upto(b, n + 1)
    BY <2>3
  <2> HIDE DEF Upto
  <2>5. QED
    BY <2>4
<1>3. T = Nat
  <2> HIDE DEF T
  <2>1. T \in SUBSET Nat
    BY DEF T
  <2>2. QED
    BY <1>1, <1>2, <2>1, SetOfAllNaturals
<1>4. Cardinality(D) \in T
  BY <1>3, FS_CardinalityType
<1>5. PICK a : Upto(a, Cardinality(D))
  BY <1>4
<1> DEFINE after == [keys \in SUBSET D |-> a[keys]]
<1>6. ASSUME NEW keys \in SUBSET D
      PROVE  after[keys] = Texts(after, keys, template, w)
  <2>1. Cardinality(keys) <= Cardinality(D)
    BY FS_Subset
  <2>2. a[keys] = Texts(a, keys, template, w)
    BY <1>5, <2>1
  <2>3. \A k \in keys : keys \ {k} \in SUBSET D
    OBVIOUS
  <2>4. \A k \in keys : after[keys \ {k}] = a[keys \ {k}]
    BY <2>3
  <2>5. after[keys] = a[keys]
    OBVIOUS
  <2> HIDE DEF after, Upto
  <2>6. Texts(a, keys, template, w) = Texts(after, keys, template, w)
    BY <2>4, TextsDepend
  <2>7. QED
    BY <2>2, <2>5, <2>6
<1>7. after = [keys \in SUBSET D |-> after[keys]]
  OBVIOUS
<1> HIDE DEF after, Upto
<1>8. after = [keys \in SUBSET D |-> Texts(after, keys, template, w)]
  BY <1>6, <1>7
<1>9. QED
  BY <1>8 DEF Expands

\* Every text a template can become is of a kind that the template is of and that
\* putting in one value after another keeps.  good has the texts of that kind for
\* each set of keys done.
LEMMA ExpansionsKeep ==
    ASSUME NEW template, NEW w, IsFiniteSet(DOMAIN w), NEW good,
           template \in good[{}],
           \A keys \in SUBSET DOMAIN w : \A k \in keys : \A text \in good[keys \ {k}] :
               Substitute(text, k, w[k]) \in good[keys]
    PROVE  Expansions(template, w) \subseteq good[DOMAIN w]
<1> DEFINE D == DOMAIN w
           after == CHOOSE a : Expands(a, template, w)
<1>1. Expands(after, template, w)
  BY ExpandsDefined
<1>2. Expansions(template, w) = after[D]
  BY DEF Expansions, Expands, Texts
<1> HIDE DEF after
<1>3. \A keys \in SUBSET D : after[keys] = Texts(after, keys, template, w)
  BY <1>1 DEF Expands
<1> DEFINE T == {n \in Nat : \A keys \in SUBSET D :
                                Cardinality(keys) = n => after[keys] \subseteq good[keys]}
<1>4. 0 \in T
  <2>1. \A keys \in SUBSET D : Cardinality(keys) = 0 => keys = {}
    BY KeySets
  <2>2. after[{}] = {template}
    BY <1>3 DEF Texts
  <2>3. QED
    BY <2>1, <2>2
<1>5. ASSUME NEW n \in T
      PROVE  n + 1 \in T
  <2> SUFFICES ASSUME NEW keys \in SUBSET D, Cardinality(keys) = n + 1,
                      NEW text \in after[keys]
               PROVE  text \in good[keys]
    OBVIOUS
  <2>1. keys # {} /\ text \in Texts(after, keys, template, w)
    BY <1>3, KeySets
  <2>2. PICK k \in keys : text \in {Substitute(t, k, w[k]) : t \in after[keys \ {k}]}
    BY <2>1 DEF Texts
  <2>3. PICK t \in after[keys \ {k}] : text = Substitute(t, k, w[k])
    BY <2>2
  <2>4. keys \ {k} \in SUBSET D /\ Cardinality(keys \ {k}) = n
    BY KeySets
  <2>5. t \in good[keys \ {k}]
    BY <2>3, <2>4
  <2>6. QED
    BY <2>3, <2>5
<1>6. T = Nat
  <2> HIDE DEF T
  <2>1. T \in SUBSET Nat
    BY DEF T
  <2>2. QED
    BY <1>4, <1>5, <2>1, SetOfAllNaturals
<1>7. Cardinality(D) \in T
  BY <1>6, FS_CardinalityType
<1>8. QED
  BY <1>2, <1>7

-----------------------------------------------------------------------------
(* The shipped templates.                                                    *)

Texted(text) == text \in Seq(STRING) /\ Plain(text)
PlainVars(w) == DOMAIN w \subseteq TemplateKeys /\ \A k \in DOMAIN w : Texted(w[k])

\* What stands in a text for the placeholder of a key.
Part(w, keys, k) == IF k \in keys THEN w[k] ELSE <<Braced(k)>>

LEMMA KeysFinite == IsFiniteSet(TemplateKeys) /\ IsFiniteSet(BaseKeys)
<1>1. IsFiniteSet({}) /\ \A S, x : IsFiniteSet(S) => IsFiniteSet(S \cup {x})
  BY FS_EmptySet, FS_AddElement
<1>2. TemplateKeys = ((({} \cup {"baseURL"}) \cup {"repoKey"}) \cup {ItemKey("path")})
                        \cup {ItemKey("name")}
  BY DEF TemplateKeys, BaseKeys, ItemFields
<1>3. BaseKeys = ({} \cup {"baseURL"}) \cup {"repoKey"}
  BY DEF BaseKeys
<1>4. QED
  <2>1. IsFiniteSet(({} \cup {"baseURL"}) \cup {"repoKey"})
    BY <1>1
  <2>2. QED
    BY <1>1, <1>2, <1>3, <2>1

LEMMA ShortTexts ==
    ASSUME NEW S
    PROVE  (\A s \in S : <<s>> \in Seq(S)) /\ (\A s, t \in S : <<s, t>> \in Seq(S))
OBVIOUS

\* A part is a text, and putting in the value of a key changes its own part only.
LEMMA PartStep ==
    ASSUME NEW w, PlainVars(w), NEW keys \in SUBSET DOMAIN w, NEW k \in keys,
           NEW l \in DOMAIN w
    PROVE  /\ Part(w, keys, l) \in Seq(STRING)
           /\ Part(w, keys \ {k}, l) \in Seq(STRING)
           /\ Substitute(Part(w, keys \ {k}, l), k, w[k]) = Part(w, keys, l)
<1>1. k \in TemplateKeys /\ l \in TemplateKeys
  BY DEF PlainVars
<1>2. Braced(l) \in STRING /\ Braced(k) \in STRING /\ (l # k => Braced(l) # Braced(k))
  BY <1>1, KeysAssumption
<1>3. w[k] \in Seq(STRING) /\ w[l] \in Seq(STRING) /\ Braced(k) \notin Range(w[l])
  BY <1>1 DEF PlainVars, Texted, Plain
<1>4. <<Braced(l)>> \in Seq(STRING)
  BY <1>2
<1>5. CASE l = k
  BY <1>2, <1>3, <1>4, <1>5, SubstituteKey DEF Part, One
<1>6. CASE l # k /\ l \in keys
  BY <1>3, <1>6, SubstituteAbsent DEF Part
<1>7. CASE l # k /\ l \notin keys
  <2>1. Range(<<Braced(l)>>) = {Braced(l)}
    BY DEF Range
  <2>2. QED
    BY <1>2, <1>3, <1>4, <1>7, <2>1, SubstituteAbsent DEF Part
<1>8. QED
  BY <1>5, <1>6, <1>7

\* Nor does it change what stands between them.
LEMMA FixedStep ==
    ASSUME NEW k \in TemplateKeys, NEW value \in Seq(STRING)
    PROVE  /\ Substitute(<<"/">>, k, value) = <<"/">>
           /\ Substitute(<<"/", "api/search/aql">>, k, value) = <<"/", "api/search/aql">>
           /\ <<"/">> \in Seq(STRING) /\ <<"/", "api/search/aql">> \in Seq(STRING)
<1>1. Braced(k) # "/" /\ Braced(k) # "api/search/aql"
  BY KeysAssumption
<1>2. <<"/">> \in Seq(STRING) /\ <<"/", "api/search/aql">> \in Seq(STRING)
  <2>1. "/" \in STRING /\ "api/search/aql" \in STRING
    BY KeysAssumption
  <2>2. QED
    BY <2>1, ShortTexts
<1>3. /\ Range(<<"/">>) = {"/"}
      /\ Range(<<"/", "api/search/aql">>) = {"/", "api/search/aql"}
  BY DEF Range
<1>4. QED
  BY <1>1, <1>2, <1>3, SubstituteAbsent

\* What goes into a text goes into what it is joined of.
LEMMA QueryURLStep ==
    ASSUME NEW k \in TemplateKeys, NEW value \in Seq(STRING), NEW base \in Seq(STRING)
    PROVE  Substitute(QueryURL(base), k, value) = QueryURL(Substitute(base, k, value))
<1> DEFINE end == <<"/", "api/search/aql">>
<1>1. end \in Seq(STRING) /\ Substitute(end, k, value) = end
  BY FixedStep
<1>2. \A t : QueryURL(t) = Cat(t, end)
  BY DEF QueryURL, Cat
<1> HIDE DEF end
<1>3. QED
  BY <1>1, <1>2, SubstituteCat

LEMMA ObjectURLStep ==
    ASSUME NEW k \in TemplateKeys, NEW value \in Seq(STRING),
           NEW b \in Seq(STRING), NEW r \in Seq(STRING), NEW p \in Seq(STRING),
           NEW n \in Seq(STRING)
    PROVE  Substitute(ObjectURL(b, r, p, n), k, value)
             = ObjectURL(Substitute(b, k, value), Substitute(r, k, value),
                         Substitute(p, k, value), Substitute(n, k, value))
<1> DEFINE Sub(t) == Substitute(t, k, value)
           s == <<"/">>
<1>1. s \in Seq(STRING) /\ Sub(s) = s
  BY FixedStep
<1>2. \A x, y, z, u : ObjectURL(x, y, z, u)
                        = Cat(Cat(Cat(Cat(Cat(Cat(x, s), y), s), z), s), u)
  BY DEF ObjectURL, Cat
<1>3. \A t, u \in Seq(STRING) : Cat(t, u) \in Seq(STRING) /\ Sub(Cat(t, u)) = Cat(Sub(t), Sub(u))
  BY CatSeq, SubstituteCat
<1> HIDE DEF Sub, s
<1>4. Cat(b, s) \in Seq(STRING) /\ Sub(Cat(b, s)) = Cat(Sub(b), s)
  BY <1>1, <1>3
<1> DEFINE b1 == Cat(Cat(b, s), r)  b2 == Cat(Cat(b1, s), p)
<1>5. b1 \in Seq(STRING) /\ Sub(b1) = Cat(Cat(Sub(b), s), Sub(r))
  BY <1>3, <1>4
<1> HIDE DEF b1
<1>6. Cat(b1, s) \in Seq(STRING) /\ Sub(Cat(b1, s)) = Cat(Sub(b1), s)
  BY <1>1, <1>3, <1>5
<1>7. b2 \in Seq(STRING) /\ Sub(b2) = Cat(Cat(Sub(b1), s), Sub(p))
  BY <1>3, <1>6
<1> HIDE DEF b2
<1>8. Cat(b2, s) \in Seq(STRING) /\ Sub(Cat(b2, s)) = Cat(Sub(b2), s)
  BY <1>1, <1>3, <1>7
<1>9. Sub(Cat(Cat(b2, s), n)) = Cat(Cat(Sub(b2), s), Sub(n))
  BY <1>3, <1>8
<1>10. Sub(ObjectURL(b, r, p, n)) = ObjectURL(Sub(b), Sub(r), Sub(p), Sub(n))
  BY <1>2, <1>5, <1>7, <1>9 DEF b1, b2
<1>11. QED
  BY <1>10 DEF Sub

\* In whatever order Go's map iteration takes the keys, the list action is sent to
\* one address (source.go:88-89, 178-184).
THEOREM ListURLsOne ==
    ASSUME NEW actions, actions.url = ListTemplate, Texted(actions.baseURL),
           Texted(actions.repoKey)
    PROVE  ListURLs(actions) \subseteq {QueryURL(actions.baseURL)}
<1> DEFINE w == BaseVars(actions)
           Join(keys) == QueryURL(Part(w, keys, "baseURL"))
           good == [keys \in SUBSET BaseKeys |-> {Join(keys)}]
<1>1. /\ DOMAIN w = BaseKeys /\ w["baseURL"] = actions.baseURL
      /\ w["repoKey"] = actions.repoKey
  BY DEF BaseVars, BaseKeys
<1>2. PlainVars(w)
  BY <1>1 DEF PlainVars, BaseKeys, TemplateKeys
<1>3. Join({}) = ListTemplate
  BY DEF Part, ListTemplate
<1>4. Join(BaseKeys) = QueryURL(actions.baseURL)
  BY <1>1 DEF Part, BaseKeys
<1> HIDE DEF w
<1>5. ASSUME NEW keys \in SUBSET BaseKeys, NEW k \in keys
      PROVE  Substitute(Join(keys \ {k}), k, w[k]) = Join(keys)
  <2>1. k \in TemplateKeys /\ w[k] \in Seq(STRING) /\ "baseURL" \in BaseKeys
    BY <1>1, <1>2 DEF PlainVars, Texted, BaseKeys, TemplateKeys
  <2>2. /\ Part(w, keys \ {k}, "baseURL") \in Seq(STRING)
        /\ Substitute(Part(w, keys \ {k}, "baseURL"), k, w[k]) = Part(w, keys, "baseURL")
    BY <1>1, <1>2, <2>1, PartStep
  <2>3. Substitute(QueryURL(Part(w, keys \ {k}, "baseURL")), k, w[k])
          = QueryURL(Substitute(Part(w, keys \ {k}, "baseURL"), k, w[k]))
    BY <2>1, <2>2, QueryURLStep
  <2>4. QED
    BY <2>2, <2>3
<1> HIDE DEF Join
<1>6. \A keys \in SUBSET DOMAIN w : \A k \in keys : \A text \in good[keys \ {k}] :
          Substitute(text, k, w[k]) \in good[keys]
  <2> SUFFICES ASSUME NEW keys \in SUBSET BaseKeys, NEW k \in keys,
                      NEW text \in good[keys \ {k}]
               PROVE  Substitute(text, k, w[k]) \in good[keys]
    BY <1>1
  <2>1. text = Join(keys \ {k})
    OBVIOUS
  <2>2. QED
    BY <1>5, <2>1
<1>7. ListTemplate \in good[{}] /\ good[BaseKeys] = {Join(BaseKeys)}
  BY <1>3
<1> HIDE DEF good
<1>8. Expansions(ListTemplate, w) \subseteq {Join(BaseKeys)}
  BY <1>1, <1>6, <1>7, KeysFinite, ExpansionsKeep
<1>9. QED
  BY <1>4, <1>8 DEF ListURLs, w

\* In whatever order Go's map iteration takes the keys, a path and a name without
\* a template key lead to one address, their own (source.go:178-184, 203-212).
THEOREM ItemURLsOne ==
    ASSUME NEW actions, actions.itemURL = ItemTemplate, Texted(actions.baseURL),
           Texted(actions.repoKey),
           NEW item, Texted(item.path), Texted(item.name)
    PROVE  ItemURLs(actions, item) \subseteq
             {ObjectURL(actions.baseURL, actions.repoKey, item.path, item.name)}
<1> DEFINE w == ItemVars(actions, item)
           Join(keys) == ObjectURL(Part(w, keys, "baseURL"), Part(w, keys, "repoKey"),
                                   Part(w, keys, ItemKey("path")),
                                   Part(w, keys, ItemKey("name")))
           good == [keys \in SUBSET TemplateKeys |-> {Join(keys)}]
<1>1. /\ DOMAIN w = TemplateKeys
      /\ w["baseURL"] = actions.baseURL /\ w["repoKey"] = actions.repoKey
      /\ w[ItemKey("path")] = item.path /\ w[ItemKey("name")] = item.name
  <2>1. /\ {"baseURL", "repoKey", ItemKey("path"), ItemKey("name")} = TemplateKeys
        /\ BaseKeys = {"baseURL", "repoKey"}
    BY DEF TemplateKeys, BaseKeys, ItemFields
  <2>2. DOMAIN w = TemplateKeys
    BY DEF ItemVars
  <2>3. w["baseURL"] = actions.baseURL /\ w["repoKey"] = actions.repoKey
    BY <2>1 DEF ItemVars, BaseVars
  <2>4. ASSUME NEW f \in ItemFields
        PROVE  w[ItemKey(f)] = item[f]
    <3>1. ItemKey(f) \in TemplateKeys /\ ItemKey(f) \notin BaseKeys
      BY KeysAssumption DEF TemplateKeys
    <3>2. (CHOOSE g \in ItemFields : ItemKey(f) = ItemKey(g)) = f
      BY KeysAssumption
    <3>3. QED
      BY <3>1, <3>2 DEF ItemVars
  <2>5. QED
    BY <2>2, <2>3, <2>4 DEF ItemFields
<1>2. PlainVars(w)
  BY <1>1 DEF PlainVars, BaseKeys, TemplateKeys, ItemFields
<1>3. {"baseURL", "repoKey", ItemKey("path"), ItemKey("name")} \subseteq TemplateKeys
  BY DEF TemplateKeys, BaseKeys, ItemFields
<1> HIDE DEF w
<1>4. Join(TemplateKeys)
        = ObjectURL(actions.baseURL, actions.repoKey, item.path, item.name)
  BY <1>1, <1>3 DEF Part
<1>5. ItemTemplate = Join({})
  BY DEF Part, ItemTemplate
<1>6. ASSUME NEW keys \in SUBSET TemplateKeys, NEW k \in keys
      PROVE  Substitute(Join(keys \ {k}), k, w[k]) = Join(keys)
  <2> DEFINE From(l) == Part(w, keys \ {k}, l)
  <2>1. k \in TemplateKeys /\ w[k] \in Seq(STRING)
    BY <1>1, <1>2 DEF PlainVars, Texted
  <2>2. \A l \in TemplateKeys : /\ From(l) \in Seq(STRING)
                                /\ Substitute(From(l), k, w[k]) = Part(w, keys, l)
    BY <1>1, <1>2, PartStep
  <2> HIDE DEF From
  <2>3. \A b, r, p, n \in Seq(STRING) :
            Substitute(ObjectURL(b, r, p, n), k, w[k])
              = ObjectURL(Substitute(b, k, w[k]), Substitute(r, k, w[k]),
                          Substitute(p, k, w[k]), Substitute(n, k, w[k]))
    BY <2>1, ObjectURLStep
  <2>4. Substitute(ObjectURL(From("baseURL"), From("repoKey"), From(ItemKey("path")),
                             From(ItemKey("name"))), k, w[k])
          = Join(keys)
    BY <1>3, <2>2, <2>3
  <2>5. QED
    BY <2>4 DEF From
<1> HIDE DEF Join
<1>7. \A keys \in SUBSET DOMAIN w : \A k \in keys : \A text \in good[keys \ {k}] :
          Substitute(text, k, w[k]) \in good[keys]
  <2> SUFFICES ASSUME NEW keys \in SUBSET TemplateKeys, NEW k \in keys,
                      NEW text \in good[keys \ {k}]
               PROVE  Substitute(text, k, w[k]) \in good[keys]
    BY <1>1
  <2>1. text = Join(keys \ {k})
    OBVIOUS
  <2>2. QED
    BY <1>6, <2>1
<1>8. ItemTemplate \in good[{}] /\ good[TemplateKeys] = {Join(TemplateKeys)}
  BY <1>5
<1> HIDE DEF good
<1>9. Expansions(ItemTemplate, w) \subseteq {Join(TemplateKeys)}
  BY <1>1, <1>7, <1>8, KeysFinite, ExpansionsKeep
<1>10. QED
  BY <1>4, <1>9 DEF ItemURLs, w

-----------------------------------------------------------------------------
(* Trimming.                                                                 *)

\* A set of numbers up to some number has a greatest.
LEMMA GreatestNumber ==
    ASSUME NEW n \in Nat, NEW I \in SUBSET (1 .. n), I # {}
    PROVE  Max(I) \in I /\ \A i \in I : i <= Max(I)
<1> DEFINE T == {m \in Nat : \A i \in I : i <= m}
<1>1. n \in T
  OBVIOUS
<1>2. PICK m \in T : \A k \in T : ~ (<<k, m>> \in OpToRel(<, Nat))
  <2>1. T \subseteq Nat /\ T # {}
    BY <1>1
  <2> HIDE DEF T
  <2>2. QED
    BY <2>1, WFMin, NatLessThanWellFounded
<1>3. \A k \in T : ~ (k < m)
  BY <1>2 DEF OpToRel
<1>4. m \in I
  <2> SUFFICES ASSUME m \notin I PROVE FALSE
    OBVIOUS
  <2>1. m \in Nat /\ \A i \in I : i \in 1 .. n /\ i <= m /\ i # m
    BY <1>2
  <2>2. \A i \in I : i <= m - 1 /\ m - 1 \in Nat
    BY <2>1
  <2>3. m - 1 \in T
    BY <2>2
  <2>4. m - 1 < m
    BY <2>1
  <2> HIDE DEF T
  <2>5. QED
    BY <1>3, <2>3, <2>4
<1>5. m \in I /\ \A i \in I : m >= i
  BY <1>2, <1>4
<1>6. /\ Max(I) \in I
      /\ \A i \in I : Max(I) >= i
  BY <1>5 DEF Max
<1>7. QED
  BY <1>6

\* What trimming leaves ends in something else than a slash, or is empty.
LEMMA TrimRightEnd ==
    ASSUME NEW S, NEW text \in Seq(S)
    PROVE  \E n \in 0 .. Len(text) :
              /\ TrimRight(text) = SubSeq(text, 1, n)
              /\ n # 0 => text[n] # "/"
              /\ \A i \in n + 1 .. Len(text) : text[i] = "/"
<1> DEFINE I == {i \in 1 .. Len(text) : text[i] # "/"}
<1>1. Len(text) \in Nat
  BY LenProperties
<1>2. TrimRight(text) = SubSeq(text, 1, IF I # {} THEN Max(I) ELSE 0)
  BY DEF TrimRight, SelectLastInSeq
<1>3. CASE I = {}
  BY <1>1, <1>2, <1>3
<1>4. CASE I # {}
  <2>1. Max(I) \in I /\ \A i \in I : i <= Max(I)
    BY <1>1, <1>4, GreatestNumber
  <2> DEFINE n == Max(I)
  <2>2. n \in 1 .. Len(text) /\ text[n] # "/"
    BY <2>1
  <2>3. \A i \in n + 1 .. Len(text) : i \in 1 .. Len(text) /\ ~ (i <= n)
    BY <1>1, <2>2
  <2>4. TrimRight(text) = SubSeq(text, 1, n)
    BY <1>2, <1>4
  <2>5. \A i \in I : i <= n
    BY <2>1
  <2> HIDE DEF n
  <2>6. \A i \in n + 1 .. Len(text) : text[i] = "/"
    BY <2>3, <2>5
  <2>7. n \in 0 .. Len(text)
    BY <1>1, <2>2
  <2>8. QED
    BY <2>2, <2>4, <2>6, <2>7
<1>5. QED
  BY <1>3, <1>4

\* Only slashes at the end go.
LEMMA TrimRightSlashes ==
    ASSUME NEW S, NEW text \in Seq(S), text # <<>>, text[Len(text)] # "/",
           NEW ends \in Seq(S), \A i \in DOMAIN ends : ends[i] = "/"
    PROVE  TrimRight(Cat(text, ends)) = text
<1> DEFINE all == Cat(text, ends)
<1>1. /\ all \in Seq(S) /\ Len(all) = Len(text) + Len(ends)
      /\ \A i \in 1 .. Len(text) : all[i] = text[i]
      /\ \A i \in Len(text) + 1 .. Len(all) : all[i] = ends[i - Len(text)]
      /\ Len(text) \in Nat \ {0} /\ Len(ends) \in Nat /\ DOMAIN ends = 1 .. Len(ends)
  BY ConcatProperties, LenProperties, EmptySeq DEF Cat
<1> HIDE DEF all
<1>2. PICK n \in 0 .. Len(all) : /\ TrimRight(all) = SubSeq(all, 1, n)
                                 /\ n # 0 => all[n] # "/"
                                 /\ \A i \in n + 1 .. Len(all) : all[i] = "/"
  BY <1>1, TrimRightEnd
<1>3. ~ (n < Len(text))
  BY <1>1, <1>2
<1>4. ~ (n > Len(text))
  <2> SUFFICES ASSUME n > Len(text) PROVE FALSE
    OBVIOUS
  <2>1. n \in Len(text) + 1 .. Len(all) /\ n - Len(text) \in DOMAIN ends /\ n # 0
    BY <1>1, <1>2
  <2>2. all[n] = ends[n - Len(text)]
    BY <1>1, <2>1
  <2>3. ends[n - Len(text)] = "/"
    BY <2>1
  <2>4. QED
    BY <1>2, <2>1, <2>2, <2>3
<1>5. n = Len(text)
  BY <1>1, <1>2, <1>3, <1>4
<1>6. SubSeq(all, 1, n) = text
  <2>1. 1 \in 1 .. Len(all) + 1 /\ n \in 0 .. Len(all)
    BY <1>1, <1>2
  <2>2. /\ SubSeq(all, 1, n) \in Seq(S) /\ Len(SubSeq(all, 1, n)) = n
        /\ \A i \in 1 .. n : SubSeq(all, 1, n)[i] = all[i]
    BY <1>1, <1>5, <2>1, SubSeqProperties
  <2>3. QED
    BY <1>1, <1>5, <2>2, SeqEqual
<1>7. QED
  BY <1>2, <1>6 DEF all

LEMMA ReverseSeq ==
    ASSUME NEW S, NEW s \in Seq(S)
    PROVE  /\ Reverse(s) \in Seq(S) /\ Len(Reverse(s)) = Len(s)
           /\ \A i \in 1 .. Len(s) : Reverse(s)[i] = s[(Len(s) - i) + 1]
           /\ Reverse(Reverse(s)) = s
           /\ Range(Reverse(s)) \subseteq Range(s)
<1>1. Len(s) \in Nat /\ DOMAIN s = 1 .. Len(s) /\ \A i \in 1 .. Len(s) : s[i] \in S
  BY LenProperties, ElementOfSeq
<1>2. \A i \in 1 .. Len(s) : (Len(s) - i) + 1 \in 1 .. Len(s)
  BY <1>1
<1>3. \A i \in 1 .. Len(s) : Reverse(s)[i] = s[(Len(s) - i) + 1]
  BY DEF Reverse
<1>4. Reverse(s) \in Seq(S)
  BY <1>1, <1>2, IsASeq DEF Reverse
<1>5. Len(Reverse(s)) = Len(s)
  BY <1>1, <1>4, LenProperties DEF Reverse
<1>6. Range(Reverse(s)) \subseteq Range(s)
  <2>1. DOMAIN Reverse(s) = 1 .. Len(s)
    BY DEF Reverse
  <2>2. QED
    BY <1>1, <1>2, <1>3, <2>1 DEF Range
<1>7. Reverse(Reverse(s)) = s
  <2> DEFINE r == Reverse(s)
  <2>1. r \in Seq(S) /\ Len(r) = Len(s) /\ \A i \in 1 .. Len(s) : r[i] = s[(Len(s) - i) + 1]
    BY <1>3, <1>4, <1>5
  <2> HIDE DEF r
  <2>2. \A i \in 1 .. Len(s) : Reverse(r)[i] = r[(Len(s) - i) + 1]
    BY <2>1 DEF Reverse
  <2>3. \A i \in 1 .. Len(s) : (Len(s) - ((Len(s) - i) + 1)) + 1 = i
    BY <1>1
  <2>4. \A i \in 1 .. Len(s) : Reverse(r)[i] = s[i]
    BY <1>2, <2>1, <2>2, <2>3
  <2>5. Reverse(r) = [i \in 1 .. Len(s) |-> s[i]]
    BY <2>1, <2>4 DEF Reverse
  <2>6. s = [i \in 1 .. Len(s) |-> s[i]]
    BY <1>1
  <2>7. QED
    BY <2>5, <2>6 DEF r
<1>8. QED
  BY <1>3, <1>4, <1>5, <1>6, <1>7

LEMMA ReverseCat ==
    ASSUME NEW S, NEW s \in Seq(S), NEW t \in Seq(S)
    PROVE  Reverse(Cat(s, t)) = Cat(Reverse(t), Reverse(s))
<1> DEFINE u == Cat(s, t)  a == Reverse(u)  r == Reverse(s)  q == Reverse(t)  b == Cat(q, r)
<1>1. /\ u \in Seq(S) /\ Len(u) = Len(s) + Len(t)
      /\ \A i \in 1 .. Len(s) : u[i] = s[i]
      /\ \A i \in Len(s) + 1 .. Len(u) : u[i] = t[i - Len(s)]
      /\ Len(s) \in Nat /\ Len(t) \in Nat
  BY ConcatProperties, LenProperties DEF Cat
<1>2. /\ r \in Seq(S) /\ Len(r) = Len(s)
      /\ \A i \in 1 .. Len(s) : r[i] = s[(Len(s) - i) + 1]
  BY ReverseSeq
<1>3. /\ q \in Seq(S) /\ Len(q) = Len(t)
      /\ \A i \in 1 .. Len(t) : q[i] = t[(Len(t) - i) + 1]
  BY ReverseSeq
<1> HIDE DEF u, r, q
<1>4. /\ a \in Seq(S) /\ Len(a) = Len(u)
      /\ \A i \in 1 .. Len(u) : a[i] = u[(Len(u) - i) + 1]
  BY <1>1, ReverseSeq
<1>5. /\ b \in Seq(S) /\ Len(b) = Len(t) + Len(s)
      /\ \A i \in 1 .. Len(t) : b[i] = q[i]
      /\ \A i \in Len(t) + 1 .. Len(b) : b[i] = r[i - Len(t)]
  <2>1. /\ b \in Seq(S) /\ Len(b) = Len(q) + Len(r)
        /\ \A i \in 1 .. Len(q) : b[i] = q[i]
        /\ \A i \in Len(q) + 1 .. Len(q) + Len(r) : b[i] = r[i - Len(q)]
    <3>1. q \in Seq(S) /\ r \in Seq(S)
      BY <1>2, <1>3
    <3>2. QED
      BY <3>1, ConcatProperties DEF Cat
  <2> HIDE DEF b
  <2>2. QED
    BY <1>1, <1>2, <1>3, <2>1
<1> HIDE DEF a, b
<1>6. ASSUME NEW i \in 1 .. Len(a)
      PROVE  a[i] = b[i]
  <2>1. a[i] = u[(Len(u) - i) + 1]
    BY <1>1, <1>4
  <2>2. CASE i \in 1 .. Len(t)
    <3>1. (Len(u) - i) + 1 \in Len(s) + 1 .. Len(u)
      BY <1>1, <2>2
    <3>2. ((Len(u) - i) + 1) - Len(s) = (Len(t) - i) + 1
      BY <1>1, <2>2
    <3>3. a[i] = t[(Len(t) - i) + 1]
      BY <1>1, <2>1, <3>1, <3>2
    <3>4. QED
      BY <1>3, <1>5, <2>2, <3>3
  <2>3. CASE i \notin 1 .. Len(t)
    <3>1. /\ i \in Len(t) + 1 .. Len(b) /\ i - Len(t) \in 1 .. Len(s)
          /\ (Len(u) - i) + 1 \in 1 .. Len(s)
          /\ (Len(u) - i) + 1 = (Len(s) - (i - Len(t))) + 1
      BY <1>1, <1>4, <1>5, <2>3
    <3>2. a[i] = s[(Len(s) - (i - Len(t))) + 1]
      BY <1>1, <2>1, <3>1
    <3>3. b[i] = s[(Len(s) - (i - Len(t))) + 1]
      BY <1>2, <1>5, <3>1
    <3>4. QED
      BY <3>2, <3>3
  <2>4. QED
    BY <2>2, <2>3
<1>7. a = b
  <2>1. a \in Seq(S) /\ b \in Seq(S) /\ Len(a) = Len(b)
    BY <1>1, <1>4, <1>5
  <2>2. \A i \in 1 .. Len(a) : a[i] = b[i]
    BY <1>4, <1>6
  <2>3. QED
    BY <2>1, <2>2, SeqEqual
<1>8. QED
  BY <1>7 DEF a, b, q, r, u

\* Loading takes the slashes an operator puts around a repository key, and nothing
\* else of it (actions.go:65-69).
THEOREM TrimSlashes ==
    ASSUME NEW S, NEW text \in Seq(S), text # <<>>, text[1] # "/", text[Len(text)] # "/",
           NEW starts \in Seq(S), \A i \in DOMAIN starts : starts[i] = "/",
           NEW ends \in Seq(S), \A i \in DOMAIN ends : ends[i] = "/"
    PROVE  Trim(Cat(Cat(starts, text), ends)) = text
<1> DEFINE left == Cat(starts, text)
<1>1. /\ left \in Seq(S) /\ Len(left) = Len(starts) + Len(text)
      /\ \A i \in Len(starts) + 1 .. Len(left) : left[i] = text[i - Len(starts)]
      /\ Len(text) \in Nat \ {0} /\ Len(starts) \in Nat /\ DOMAIN starts = 1 .. Len(starts)
  BY ConcatProperties, LenProperties, EmptySeq DEF Cat
<1>2. Reverse(left) = Cat(Reverse(text), Reverse(starts))
  BY ReverseCat
<1> HIDE DEF left
<1>3. left # <<>> /\ left[Len(left)] # "/"
  <2>1. Len(left) # 0
    BY <1>1
  <2>2. Len(left) - Len(starts) = Len(text) /\ Len(left) \in Len(starts) + 1 .. Len(left)
    BY <1>1
  <2>3. QED
    BY <1>1, <2>1, <2>2, EmptySeq
<1>4. TrimRight(Cat(left, ends)) = left
  BY <1>1, <1>3, TrimRightSlashes
<1>5. /\ Reverse(text) \in Seq(S) /\ Len(Reverse(text)) = Len(text)
      /\ Reverse(text)[Len(text)] = text[1]
  <2>1. Len(text) \in 1 .. Len(text) /\ (Len(text) - Len(text)) + 1 = 1
    BY <1>1
  <2>2. Reverse(text)[Len(text)] = text[(Len(text) - Len(text)) + 1]
    BY <2>1, ReverseSeq
  <2>3. QED
    BY <2>1, <2>2, ReverseSeq
<1>6. Reverse(text) # <<>> /\ Reverse(text)[Len(Reverse(text))] # "/"
  BY <1>1, <1>5, EmptySeq
<1>7. Reverse(starts) \in Seq(S) /\ \A i \in DOMAIN Reverse(starts) : Reverse(starts)[i] = "/"
  <2>1. /\ Reverse(starts) \in Seq(S) /\ Len(Reverse(starts)) = Len(starts)
        /\ \A i \in 1 .. Len(starts) : Reverse(starts)[i] = starts[(Len(starts) - i) + 1]
    BY ReverseSeq
  <2>2. \A i \in 1 .. Len(starts) : (Len(starts) - i) + 1 \in DOMAIN starts
    BY <1>1
  <2>3. DOMAIN Reverse(starts) = 1 .. Len(starts)
    BY DEF Reverse
  <2>4. QED
    BY <2>1, <2>2, <2>3
<1>8. TrimRight(Cat(Reverse(text), Reverse(starts))) = Reverse(text)
  BY <1>5, <1>6, <1>7, TrimRightSlashes
<1>9. Reverse(Reverse(text)) = text
  BY ReverseSeq
<1>10. Trim(Cat(left, ends)) = text
  BY <1>2, <1>4, <1>8, <1>9 DEF Trim
<1>11. QED
  BY <1>10 DEF left

\* Trimming puts nothing into a text.
PartOf(t, text) == Texted(t) /\ Range(t) \subseteq Range(text)

LEMMA TrimmedTexts ==
    ASSUME NEW text, Texted(text)
    PROVE  PartOf(TrimRight(text), text) /\ PartOf(Trim(text), text)
<1>1. ASSUME NEW t, Texted(t)
      PROVE  PartOf(TrimRight(t), t)
  <2>1. t \in Seq(STRING) /\ Len(t) \in Nat /\ DOMAIN t = 1 .. Len(t)
    BY <1>1, LenProperties DEF Texted
  <2>2. PICK n \in 0 .. Len(t) : TrimRight(t) = SubSeq(t, 1, n)
    BY <2>1, TrimRightEnd
  <2>3. /\ SubSeq(t, 1, n) \in Seq(STRING)
        /\ DOMAIN SubSeq(t, 1, n) = 1 .. n
        /\ \A i \in 1 .. n : SubSeq(t, 1, n)[i] = t[i]
    <3>1. n \in Nat /\ n <= Len(t)
      BY <2>1
    <3>2. \A i \in 1 .. n : i \in 1 .. Len(t)
      BY <2>1, <3>1
    <3>3. /\ SubSeq(t, 1, n) \in Seq(STRING) /\ Len(SubSeq(t, 1, n)) = n
          /\ \A i \in 1 .. n : SubSeq(t, 1, n)[i] = t[i]
      BY <2>1, <3>1, SubSeqProperties
    <3>4. QED
      BY <3>3, LenProperties
  <2>4. Range(SubSeq(t, 1, n)) \subseteq Range(t)
    BY <2>1, <2>3 DEF Range
  <2>5. QED
    BY <1>1, <2>2, <2>3, <2>4 DEF Texted, Plain, PartOf
<1>2. ASSUME NEW t, Texted(t)
      PROVE  PartOf(Reverse(t), t)
  <2>1. Reverse(t) \in Seq(STRING) /\ Range(Reverse(t)) \subseteq Range(t)
    BY <1>2, ReverseSeq DEF Texted
  <2>2. QED
    BY <1>2, <2>1 DEF Texted, Plain, PartOf
<1>3. \A t : Texted(t) => PartOf(TrimRight(t), t) /\ PartOf(Reverse(t), t)
  BY <1>1, <1>2
<1> DEFINE a == TrimRight(text)  b == Reverse(a)  c == TrimRight(b)
<1>4. PartOf(a, text) /\ Texted(a)
  BY <1>3 DEF PartOf
<1>5. PartOf(b, a) /\ Texted(b)
  BY <1>3, <1>4 DEF PartOf
<1>6. PartOf(c, b) /\ Texted(c)
  BY <1>3, <1>5 DEF PartOf
<1>7. PartOf(Reverse(c), c)
  BY <1>3, <1>6
<1>8. Trim(text) = Reverse(c)
  BY DEF Trim
<1> HIDE DEF a, b, c
<1>9. PartOf(Trim(text), text)
  BY <1>4, <1>5, <1>6, <1>7, <1>8 DEF PartOf
<1>10. QED
  BY <1>4, <1>9 DEF a

-----------------------------------------------------------------------------
(* What means itself in a URL.                                               *)

\* The parts of a literal text are literal, and so is what is put together from
\* literal texts.
LEMMA LiteralParts ==
    ASSUME NEW text, Literal(text), NEW t, PartOf(t, text)
    PROVE  Literal(t)
BY DEF Literal, PartOf

LEMMA LiteralCat ==
    ASSUME NEW s \in Seq(STRING), Literal(s), NEW t \in Seq(STRING), Literal(t)
    PROVE  Cat(s, t) \in Seq(STRING) /\ Literal(Cat(s, t))
<1> DEFINE u == Cat(s, t)
<1>1. /\ u \in Seq(STRING) /\ Len(u) = Len(s) + Len(t)
      /\ \A i \in 1 .. Len(s) : u[i] = s[i]
      /\ \A i \in Len(s) + 1 .. Len(u) : u[i] = t[i - Len(s)]
  BY ConcatProperties DEF Cat
<1> HIDE DEF u
<1>2. /\ Len(s) \in Nat /\ DOMAIN s = 1 .. Len(s)
      /\ Len(t) \in Nat /\ DOMAIN t = 1 .. Len(t)
      /\ Len(u) \in Nat /\ DOMAIN u = 1 .. Len(u)
  BY <1>1, LenProperties
<1>3. ASSUME NEW i \in DOMAIN u
      PROVE  u[i] \in Range(s) \cup Range(t)
  <2>1. CASE i \in 1 .. Len(s)
    BY <1>1, <1>2, <2>1 DEF Range
  <2>2. CASE i \notin 1 .. Len(s)
    <3>1. i \in Len(s) + 1 .. Len(u) /\ i - Len(s) \in 1 .. Len(t)
      BY <1>1, <1>2, <2>2
    <3>2. QED
      BY <1>1, <1>2, <3>1 DEF Range
  <2>3. QED
    BY <2>1, <2>2
<1>4. Range(u) \subseteq Range(s) \cup Range(t)
  BY <1>3 DEF Range
<1>5. QED
  BY <1>1, <1>4 DEF Literal, u

LEMMA LiteralFixed ==
    /\ <<"/">> \in Seq(STRING) /\ Literal(<<"/">>)
    /\ <<"/", "api/search/aql">> \in Seq(STRING) /\ Literal(<<"/", "api/search/aql">>)
<1>1. /\ <<"/">> \in Seq(STRING) /\ <<"/", "api/search/aql">> \in Seq(STRING)
  <2>1. "/" \in STRING /\ "api/search/aql" \in STRING
    BY KeysAssumption
  <2>2. QED
    BY <2>1, ShortTexts
<1>2. Range(<<"/">>) = {"/"} /\ Range(<<"/", "api/search/aql">>) = {"/", "api/search/aql"}
  BY DEF Range
<1>3. {"/", "api/search/aql"} \cap (Cuts \cup {BadEscape} \cup DOMAIN Escapes) = {}
  BY EscapesAssumption DEF Cuts, BadEscape
<1>4. QED
  BY <1>1, <1>2, <1>3 DEF Literal

\* The URL of the query and the URL of an object are literal if their parts are.
LEMMA LiteralURLs ==
    ASSUME NEW b \in Seq(STRING), Literal(b), NEW r \in Seq(STRING), Literal(r),
           NEW p \in Seq(STRING), Literal(p), NEW n \in Seq(STRING), Literal(n)
    PROVE  /\ QueryURL(b) \in Seq(STRING) /\ Literal(QueryURL(b))
           /\ ObjectURL(b, r, p, n) \in Seq(STRING) /\ Literal(ObjectURL(b, r, p, n))
<1> DEFINE L == {s \in Seq(STRING) : Literal(s)}
           end == <<"/", "api/search/aql">>
           slash == <<"/">>
<1>1. \A s, t \in L : Cat(s, t) \in L
  BY LiteralCat
<1>2. end \in L /\ slash \in L
  BY LiteralFixed
<1>3. QueryURL(b) = Cat(b, end)
  BY DEF QueryURL, Cat
<1>4. ObjectURL(b, r, p, n) = Cat(Cat(Cat(Cat(Cat(Cat(b, slash), r), slash), p), slash), n)
  BY DEF ObjectURL, Cat
<1>5. b \in L /\ r \in L /\ p \in L /\ n \in L
  OBVIOUS
<1> HIDE DEF L, end, slash
<1>6. QueryURL(b) \in L /\ ObjectURL(b, r, p, n) \in L
  BY <1>1, <1>2, <1>3, <1>4, <1>5
<1>7. QED
  BY <1>6 DEF L

\* A literal URL reaches the address it is, and no other.
THEOREM LiteralReaches ==
    ASSUME NEW url \in Seq(STRING), Literal(url), NEW address
    PROVE  Reaches(url, address) <=> address = url
<1>1. Len(url) \in Nat /\ DOMAIN url = 1 .. Len(url)
  BY LenProperties
<1>2. \A n \in DOMAIN url : url[n] \notin Cuts /\ url[n] # BadEscape
                            /\ url[n] \notin DOMAIN Escapes
  BY DEF Literal, Range
<1>3. Parses(url)
  BY <1>2 DEF Parses
<1>4. PathLength(url) = Len(url)
  BY <1>2 DEF PathLength
<1>5. \A n \in DOMAIN url : Decoded(url[n]) = url[n]
  BY <1>2 DEF Decoded
<1>6. Requested(url) = [n \in 1 .. Len(url) |-> url[n]]
  BY <1>1, <1>4, <1>5 DEF Requested
<1>7. url = [n \in 1 .. Len(url) |-> url[n]]
  BY <1>1
<1>8. QED
  BY <1>3, <1>6, <1>7 DEF Reaches

-----------------------------------------------------------------------------
(* Loading the actions file, and the dependencies of a manifest.             *)

\* A value that is one placeholder stands for that variable.
LEMMA ResolvesTo ==
    ASSUME NEW urlEnv, NEW v \in DOMAIN urlEnv,
           \A u, w \in DOMAIN urlEnv : Braced(u) = Braced(w) => u = w
    PROVE  ResolveEnvPlaceholder(<<Braced(v)>>, urlEnv) = urlEnv[v]
<1>1. \A u : <<Braced(v)>> = <<Braced(u)>> <=> Braced(v) = Braced(u)
  OBVIOUS
<1>2. Named(<<Braced(v)>>, urlEnv) = {v}
  BY <1>1 DEF Named
<1>3. QED
  BY <1>2 DEF ResolveEnvPlaceholder

\* Two addresses that take queries at the same URL are the same.
LEMMA QueryURLInjective ==
    ASSUME NEW a \in Seq(STRING), NEW b \in Seq(STRING), QueryURL(a) = QueryURL(b)
    PROVE  a = b
<1> DEFINE end == <<"/", "api/search/aql">>
<1>1. end \in Seq(STRING)
  <2>1. "/" \in STRING /\ "api/search/aql" \in STRING
    BY KeysAssumption
  <2>2. QED
    BY <2>1, ShortTexts
<1>2. Cat(a, end) = Cat(b, end)
  BY DEF QueryURL, Cat
<1> HIDE DEF end
<1>3. \A s, t, u \in Seq(STRING) : Cat(s, u) = Cat(t, u) => s = t
  BY ConcatSimplifications DEF Cat
<1>4. QED
  BY <1>1, <1>2, <1>3

\* Whichever way its author wrote them, a manifest that decodes has the
\* dependencies that were meant (manifest.go:39-67).
THEOREM DependenciesReadBack ==
    ASSUME NEW json, NEW deps, Writes(json, deps), DependenciesDecode(json)
    PROVE  DependenciesOf(json) = deps
<1>1. \A d \in deps : d = Dependency(d.name, d.id)
  BY DEF Writes
<1>2. CASE json = AsNull /\ deps = {}
  BY <1>2 DEF AsNull, DependenciesOf
<1>3. CASE json = AsArray(deps)
  BY <1>3 DEF AsArray, DependenciesOf
<1>4. CASE \E d \in deps : json = AsOne(d) /\ deps = {d}
  <2>1. PICK d \in deps : json = AsOne(d) /\ deps = {d}
    BY <1>4
  <2>2. /\ json.kind = "object" /\ DOMAIN json.texts = {"name", "id"}
        /\ json.texts["name"] = d.name /\ json.texts["id"] = d.id
    BY <2>1 DEF AsOne
  <2>3. IsSingle(json)
    BY <2>2 DEF DependenciesDecode
  <2>4. TextOf(json.texts, "name") = d.name /\ TextOf(json.texts, "id") = d.id
    BY <2>2 DEF TextOf
  <2>5. DependenciesOf(json) = {Dependency(d.name, d.id)}
    BY <2>2, <2>3, <2>4 DEF DependenciesOf
  <2>6. QED
    BY <1>1, <2>1, <2>5
<1>5. CASE json = AsMap(deps) /\ \A d, e \in deps : d.name = e.name => d = e
  <2> DEFINE names == {d.name : d \in deps}
             Of(n) == CHOOSE d \in deps : d.name = n
  <2>1. /\ json.kind = "object" /\ json.texts = <<>> /\ DOMAIN json.objects = names
        /\ \A n \in names : json.objects[n] = Of(n).id
    BY <1>5 DEF AsMap
  <2>2. ~IsSingle(json)
    BY <2>1, EmptySeq DEF IsSingle, TextOf
  <2>3. DependenciesOf(json) = {Dependency(n, json.objects[n]) : n \in names}
    BY <2>1, <2>2 DEF DependenciesOf
  <2>4. \A d \in deps : Of(d.name) = d
    BY <1>5
  <2>5. \A d \in deps : d.name \in names /\ Dependency(d.name, json.objects[d.name]) = d
    BY <1>1, <2>1, <2>4
  <2>6. QED
    BY <2>3, <2>5
<1>6. QED
  BY <1>2, <1>3, <1>4, <1>5 DEF Writes

=============================================================================
