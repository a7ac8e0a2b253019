---------------------------- MODULE StartupProofs ----------------------------
(* Proofs about Startup, for any files, environment, repository and number of *)
(* changes: the mode publishing is served in, what is kept out of the index,  *)
(* what a load makes of the repository.  The invariant has three layers, each *)
(* proved from those before it: what was read and what a manifest can be      *)
(* (Inv), the types and the shape of a load (Typed), and which object each    *)
(* manifest of a load came from (Exact).                                      *)
EXTENDS Startup, SourceProofs

MaxManifest == "backend.maxManifestResponseBytes"

\* What a manifest in a load or in the index can be.
Sound(i) ==
    /\ i.body.size <= Limit(MaxManifest)
    /\ i.body.wellFormed
    /\ DependenciesDecode(i.body.dependencies)
Sounds == {Manifest(i.body) : i \in {j \in Items : Sound(j)}}

\* The operator's files are read once and obeyed.
Configured ==
    server \in {"configured", "loading", "serving"} =>
        /\ config = [ cfg |-> Settings(setup.file, setup.env),
                      actions |-> LoadActions(setup.actions, setup.urlEnv) ]
        /\ Valid(config.cfg)

\* Only a configured process loads.
LoadsConfigured == server \in {"loading", "serving"} \/ load = NoLoad

SoundOnly ==
    /\ setup.file.limit \in [Limits -> Int]
    /\ stored \subseteq Items
    /\ load.got \in Seq(Sounds) /\ index \in Seq(Sounds)

Inv == Configured /\ LoadsConfigured /\ SoundOnly /\ PublishOnlyWhenAsked

-----------------------------------------------------------------------------
(* The operators of ServerConfig and Source the invariant rests on.          *)

\* Reading up to one byte above the limit finds every body above it.
LEMMA FitsWithin ==
    ASSUME NEW size \in Nat, NEW limit \in Int, Fits(size, limit)
    PROVE  size <= limit
<1>1. PICK m \in {size, limit + 1} : m = BytesRead(size, limit)
  <2>1. \E x \in {size, limit + 1} : \A y \in {size, limit + 1} : x <= y
    OBVIOUS
  <2>2. QED
    BY <2>1 DEF BytesRead, Min
<1>2. m <= limit
  BY <1>1 DEF Fits, TooLarge
<1>3. QED
  BY <1>1, <1>2

\* A valid configuration serves the mode it was given, from the variable if
\* that is set, else from the file.
LEMMA ServedModeWanted ==
    ASSUME Valid(Settings(setup.file, setup.env)),
           PublishEnabled(Settings(setup.file, setup.env))
    PROVE  (IF AtomicPublish(Settings(setup.file, setup.env)) THEN PublishAtomic
            ELSE PublishTwoStep) = Wanted
<1> DEFINE cfg == Settings(setup.file, setup.env)
<1>1. cfg.publishMode \in {PublishAtomic, PublishTwoStep}
  BY DEF Valid, PublishEnabled
<1>2. (IF AtomicPublish(cfg) THEN PublishAtomic ELSE PublishTwoStep) = cfg.publishMode
  BY <1>1 DEF AtomicPublish
<1>3. cfg.publishMode = OrElse(setup.env.PUBLISH_MODE,
                               IF setup.file.publishMode = Omitted THEN PublishOff
                               ELSE setup.file.publishMode)
  BY DEF Settings
<1>4. cfg.publishMode # PublishOff
  BY DEF PublishEnabled
<1>5. QED
  BY <1>2, <1>3, <1>4 DEF OrElse, Wanted

-----------------------------------------------------------------------------
(* The invariant holds initially and every step keeps it.                    *)

LEMMA InitInv == Init => Inv
<1> SUFFICES ASSUME Init PROVE Inv
  OBVIOUS
<1>1. PICK s \in Starts : setup = s[1] /\ stored = s[2]
  BY DEF Init
<1>2. SoundOnly
  BY <1>1, StartupAssumption, EmptySeq DEF Init, SoundOnly, NoLoad
<1>3. QED
  BY <1>2 DEF Init, Inv, Configured, LoadsConfigured, PublishOnlyWhenAsked

LEMMA ExitKeeps ==
    ASSUME Inv, Exit
    PROVE  Inv'
<1>1. SoundOnly'
  BY EmptySeq DEF Exit, Inv, SoundOnly, Sounds, Sound, Limit, NoLoad
<1>2. QED
  BY <1>1 DEF Exit, Inv, Configured, LoadsConfigured, PublishOnlyWhenAsked, Wanted

LEMMA ReadConfigKeeps ==
    ASSUME Inv, ReadConfig
    PROVE  Inv'
<1>1. Configured'
  BY DEF ReadConfig, ReadsConfig, ConfigLoads, Configured
<1>2. QED
  BY <1>1
  DEF ReadConfig, Inv, LoadsConfigured, SoundOnly, Sounds, Sound, Limit,
      PublishOnlyWhenAsked, Wanted

LEMMA ListKeeps ==
    ASSUME Inv, NEW by, List(by),
           \/ server = "configured" /\ server' = "loading"
           \/ server = "serving" /\ UNCHANGED server
    PROVE  Inv'
<1>1. load'.got = <<>>
  BY DEF List
<1>2. UNCHANGED <<setup, config, stored, index, publishing>>
  BY DEF List
<1>3. SoundOnly'
  BY <1>1, <1>2, EmptySeq DEF Inv, SoundOnly, Sounds, Sound, Limit
<1>4. QED
  BY <1>2, <1>3 DEF Inv, Configured, LoadsConfigured, PublishOnlyWhenAsked, Wanted

\* What can be had at a URL is in the repository under that address, and sound.
LEMMA HadSound ==
    ASSUME Inv, server \in {"loading", "serving"}, NEW url, NEW i \in Had(url)
    PROVE  i \in stored /\ i \in Items /\ Reaches(url, Address(i)) /\ Sound(i)
<1>1. /\ i \in stored /\ Reaches(url, Address(i))
      /\ BodyFits(i.body, config.cfg) /\ Decodes(i.body, config.cfg)
  BY DEF Had
<1>2. config.cfg.limit[MaxManifest] = Limit(MaxManifest)
  <2>1. config.cfg = Settings(setup.file, setup.env)
    BY DEF Inv, Configured
  <2>2. Settings(setup.file, setup.env).limit = setup.file.limit
    BY DEF Settings
  <2>3. QED
    BY <2>1, <2>2 DEF Limit
<1>3. i \in Items /\ i.body.size \in Nat /\ Limit(MaxManifest) \in Int
  BY <1>1, StartupAssumption DEF Inv, SoundOnly, Limit, Limits, MaxManifest
<1>4. i.body.size <= Limit(MaxManifest)
  BY <1>1, <1>2, <1>3, FitsWithin DEF BodyFits, MaxManifest
<1>5. QED
  BY <1>1, <1>3, <1>4 DEF Decodes, Sound

LEMMA FetchManifestKeeps ==
    ASSUME Inv, FetchManifest
    PROVE  Inv'
<1> DEFINE Fetch(i) ==
             load' = [load EXCEPT !.urls = Tail(@), !.got = Append(@, Manifest(i.body))]
<1>1. PICK url : \E i \in Had(url) : Fetch(i)
  BY DEF FetchManifest
<1>2. PICK i \in Had(url) : Fetch(i)
  BY <1>1
<1>3. UNCHANGED <<server, setup, config, stored, index, publishing>>
  BY DEF FetchManifest
<1>4. load # NoLoad /\ server \in {"loading", "serving"}
  BY DEF FetchManifest, NoLoad, Inv, LoadsConfigured
<1>5. Manifest(i.body) \in Sounds
  BY <1>4, HadSound DEF Sounds
<1>6. Append(load.got, Manifest(i.body)) \in Seq(Sounds)
  BY <1>5, AppendProperties DEF Inv, SoundOnly
<1>7. load'.got = Append(load.got, Manifest(i.body)) \/ load'.got = load.got
  BY <1>2
<1>8. SoundOnly'
  BY <1>3, <1>6, <1>7 DEF Inv, SoundOnly, Sounds, Sound, Limit
<1>9. QED
  BY <1>3, <1>4, <1>8 DEF Inv, Configured, LoadsConfigured, PublishOnlyWhenAsked, Wanted

LEMMA BuildKeeps ==
    ASSUME Inv, Build
    PROVE  Inv'
<1>1. /\ server \in {"loading", "serving"} /\ server' = "serving"
      /\ load' = NoLoad /\ index' = load.got
      /\ UNCHANGED <<setup, config, stored>>
  BY DEF Build, Inv, LoadsConfigured
<1>2. config.cfg = Settings(setup.file, setup.env) /\ Valid(config.cfg)
  <2>1. config = [ cfg |-> Settings(setup.file, setup.env),
                   actions |-> LoadActions(setup.actions, setup.urlEnv) ]
    BY <1>1 DEF Inv, Configured
  <2>2. QED
    BY <1>1, <2>1 DEF Inv, Configured
<1>3. PublishOnlyWhenAsked'
  <2>1. Wanted' = Wanted
    BY <1>1 DEF Wanted
  <2>2. publishing' = PublishOff \/ publishing' = Wanted
    BY <1>2, ServedModeWanted DEF Build
  <2>3. QED
    BY <2>1, <2>2 DEF PublishOnlyWhenAsked
<1>4. SoundOnly'
  BY <1>1, EmptySeq DEF Inv, SoundOnly, Sounds, Sound, Limit, NoLoad
<1>5. QED
  BY <1>1, <1>2, <1>3, <1>4 DEF Inv, Configured, LoadsConfigured

LEMMA NextKeeps ==
    ASSUME Inv, [Next]_vars
    PROVE  Inv'
<1> USE DEF Configured, LoadsConfigured, SoundOnly, Sounds, Sound, Limit,
            PublishOnlyWhenAsked, Wanted
<1>1. CASE Start
  BY <1>1 DEF Start, Inv
<1>2. CASE ProcessStep
  <2>1. CASE ReadConfig \/ RefuseConfig
    BY <2>1, ReadConfigKeeps, ExitKeeps DEF RefuseConfig
  <2>2. CASE ListAtStart \/ ListFails
    BY <2>2, ListKeeps, ExitKeeps DEF ListAtStart, ListFails
  <2>3. CASE FetchManifest \/ Build
    BY <2>3, FetchManifestKeeps, BuildKeeps
  <2>4. CASE FetchFails
    <3>1. CASE server = "loading" /\ Exit
      BY <3>1, ExitKeeps
    <3>2. CASE load' = NoLoad /\ UNCHANGED <<server, setup, config, stored, index, publishing>>
      BY <3>2, EmptySeq DEF Inv, NoLoad
    <3>3. QED
      BY <2>4, <3>1, <3>2 DEF FetchFails
  <2>5. CASE ListenFails
    BY <2>5, ExitKeeps DEF ListenFails
  <2>6. QED
    BY <1>2, <2>1, <2>2, <2>3, <2>4, <2>5 DEF ProcessStep
<1>3. CASE \E c \in Callers : StartRefresh(c)
  BY <1>3, ListKeeps DEF StartRefresh
<1>4. CASE \E c \in Callers : RefuseRefresh(c)
  BY <1>4 DEF RefuseRefresh, vars, Inv
<1>5. CASE Change
  BY <1>5 DEF Change, Inv
<1>6. CASE UNCHANGED vars
  BY <1>6 DEF vars, Inv
<1>7. QED
  BY <1>1, <1>2, <1>3, <1>4, <1>5, <1>6 DEF Next

-----------------------------------------------------------------------------
(* Types.                                                                    *)

\* A load has for each item it has not had the URLs its template can become.
IsLoad(l, cfg, phase) ==
    /\ l = [by |-> l.by, items |-> l.items, urls |-> l.urls, got |-> l.got]
    /\ l.by \in Callers \cup {Process, Nobody}
    /\ l.by = Nobody <=> l = NoLoad
    /\ l.by = Process <=> phase = "loading"
    /\ l.items \in Seq(Items)
    /\ Len(l.got) <= Len(l.items)
    /\ l.urls = [n \in 1 .. Len(l.items) - Len(l.got) |->
                   ItemURLs(cfg.actions, l.items[Len(l.got) + n])]

Phases == {"down", "starting", "configured", "loading", "serving"}
Typed ==
    /\ server \in Phases
    /\ \E s \in Starts : setup = s[1]
    /\ stored \subseteq Items /\ IsFiniteSet(stored)
    /\ reachable \in BOOLEAN /\ portFree \in BOOLEAN
    /\ publishing \in {PublishOff, PublishAtomic, PublishTwoStep}
    /\ changes \in 0 .. MaxChanges
    /\ config # Unread <=> server \in {"configured", "loading", "serving"}
    /\ server # "serving" => publishing = PublishOff /\ index = <<>>
    /\ IsLoad(load, config, server)

LEMMA NoLoadIsLoad ==
    ASSUME NEW cfg, NEW phase, phase # "loading"
    PROVE  IsLoad(NoLoad, cfg, phase)
<1> DEFINE e == <<>>
           F == [n \in 1 .. Len(e) - Len(e) |-> ItemURLs(cfg.actions, e[Len(e) + n])]
<1>1. e \in Seq(Items) /\ Len(e) = 0
  BY EmptySeq
<1>2. NoLoad = [by |-> Nobody, items |-> e, urls |-> e, got |-> e]
  BY DEF NoLoad
<1>3. e = F
  BY EmptySeq
<1>4. Nobody # Process
  BY DEF Nobody, Process
<1> HIDE DEF e
<1>5. /\ NoLoad.by = Nobody /\ NoLoad.items = e /\ NoLoad.urls = e /\ NoLoad.got = e
  BY <1>2
<1>6. NoLoad.urls = [n \in 1 .. Len(NoLoad.items) - Len(NoLoad.got) |->
                       ItemURLs(cfg.actions, NoLoad.items[Len(NoLoad.got) + n])]
  BY <1>3, <1>5
<1>7. Len(NoLoad.got) <= Len(NoLoad.items)
  BY <1>1, <1>5
<1>8. QED
  BY <1>1, <1>2, <1>4, <1>5, <1>6, <1>7 DEF IsLoad

\* A listing has each object that matches once.
LEMMA ListingOfSet ==
    ASSUME NEW M, IsFiniteSet(M), NEW items \in SetToSeqs(M)
    PROVE  items \in Seq(M) /\ Len(items) = Cardinality(M) /\ Range(items) = M
<1> DEFINE D == 1 .. Cardinality(M)
<1>1. Cardinality(M) \in Nat
  BY FS_CardinalityType
<1>2. items \in [D -> M] /\ \A i, j \in D : i # j => items[i] # items[j]
  BY DEF SetToSeqs
<1>3. items \in Seq(M) /\ Len(items) = Cardinality(M)
  <2>1. items \in Seq(M)
    BY <1>1, <1>2
  <2>2. DOMAIN items = 1 .. Len(items) /\ Len(items) \in Nat
    BY <2>1, LenProperties
  <2>3. QED
    BY <1>1, <1>2, <2>1, <2>2
<1>4. items \in Injection(D, M)
  BY <1>2 DEF Injection, IsInjective
<1>5. IsFiniteSet(D) /\ Cardinality(D) = Cardinality(M)
  BY <1>1, FS_Interval
<1> HIDE DEF D
<1>6. items \in Surjection(D, M)
  BY <1>4, <1>5, FS_Injection
<1>7. Range(items) = M
  BY <1>2, <1>6 DEF Surjection, Range
<1>8. QED
  BY <1>3, <1>7

\* k is l with one manifest more.
HasOneMore(k, l, cfg, m) ==
    /\ Len(l.got) + 1 \in 1 .. Len(l.items)
    /\ Head(l.urls) = ItemURLs(cfg.actions, l.items[Len(l.got) + 1])
    /\ k.items = l.items /\ k # NoLoad /\ l # NoLoad
    /\ Len(k.got) = Len(l.got) + 1
    /\ \A n \in 1 .. Len(l.got) : k.got[n] = l.got[n]
    /\ k.got[Len(l.got) + 1] = m

LEMMA FetchIsLoad ==
    ASSUME NEW l, NEW cfg, NEW phase, IsLoad(l, cfg, phase), l.urls # <<>>,
           NEW S, l.got \in Seq(S), NEW m \in S,
           NEW k, k = [l EXCEPT !.urls = Tail(@), !.got = Append(@, m)]
    PROVE  IsLoad(k, cfg, phase) /\ HasOneMore(k, l, cfg, m)
<1> DEFINE U(n) == ItemURLs(cfg.actions, l.items[n])
           size == Len(l.items)  had == Len(l.got)
           T == {U(n) : n \in 1 .. size}
<1>1. /\ k = [by |-> l.by, items |-> l.items, urls |-> Tail(l.urls), got |-> Append(l.got, m)]
  BY DEF IsLoad
<1>2. size \in Nat /\ had \in Nat /\ had <= size
  BY LenProperties DEF IsLoad
<1>3. l.urls = [n \in 1 .. size - had |-> U(had + n)]
  BY DEF IsLoad
<1>4. /\ Append(l.got, m) \in Seq(S) /\ Len(Append(l.got, m)) = had + 1
      /\ \A n \in 1 .. had : Append(l.got, m)[n] = l.got[n]
      /\ Append(l.got, m)[had + 1] = m
  BY AppendProperties
<1> HIDE DEF size, had, U
<1>5. l.urls \in Seq(T) /\ Len(l.urls) = size - had
  <2>1. \A n \in 1 .. size - had : had + n \in 1 .. size
    BY <1>2
  <2>2. \A n \in 1 .. size - had : U(had + n) \in T
    BY <2>1
  <2> HIDE DEF T
  <2>3. size - had \in Nat
    BY <1>2
  <2>4. l.urls \in Seq(T)
    BY <1>3, <2>2, <2>3, IsASeq
  <2>5. QED
    BY <1>3, <2>3, <2>4, LenProperties
<1>6. size - had # 0
  BY <1>5, EmptySeq
<1>7. /\ Head(l.urls) = l.urls[1] /\ Tail(l.urls) \in Seq(T)
      /\ Len(Tail(l.urls)) = size - had - 1
      /\ \A n \in 1 .. size - had - 1 : Tail(l.urls)[n] = l.urls[n + 1]
  <2> HIDE DEF T
  <2>1. QED
    BY <1>5, HeadTailProperties
<1>8. Head(l.urls) = U(had + 1) /\ had + 1 \in 1 .. size
  <2>1. 1 \in 1 .. size - had /\ had + 1 \in 1 .. size
    BY <1>2, <1>6
  <2>2. l.urls[1] = U(had + 1)
    BY <1>3, <2>1
  <2>3. QED
    BY <1>7, <2>1, <2>2
<1>9. Tail(l.urls) = [n \in 1 .. size - (had + 1) |-> U((had + 1) + n)]
  <2>1. size - had - 1 = size - (had + 1)
    BY <1>2
  <2>2. \A n \in 1 .. size - (had + 1) :
            n \in 1 .. size - had - 1 /\ n + 1 \in 1 .. size - had /\ had + (n + 1) = (had + 1) + n
    BY <1>2
  <2>3. ASSUME NEW n \in 1 .. size - (had + 1)
        PROVE  Tail(l.urls)[n] = U((had + 1) + n)
    <3> HIDE DEF T
    <3>1. Tail(l.urls)[n] = l.urls[n + 1]
      BY <1>7, <2>2
    <3>2. l.urls[n + 1] = U(had + (n + 1))
      BY <1>3, <2>2
    <3>3. had + (n + 1) = (had + 1) + n
      BY <2>2
    <3>4. QED
      BY <3>1, <3>2, <3>3
  <2>4. DOMAIN Tail(l.urls) = 1 .. size - (had + 1)
    BY <1>7, <2>1, LenProperties
  <2>5. Tail(l.urls) = [n \in 1 .. size - (had + 1) |-> Tail(l.urls)[n]]
    <3>1. \A t \in Seq(T) : t = [n \in DOMAIN t |-> t[n]]
      <4> HIDE DEF T
      <4>1. QED
        BY LenProperties
    <3>2. QED
      BY <1>7, <2>4, <3>1
  <2>6. QED
    BY <2>3, <2>5
<1>10. /\ k.by = l.by /\ k.items = l.items /\ k.urls = Tail(l.urls) /\ k.got = Append(l.got, m)
  BY <1>1
<1>11. k.by # Nobody /\ k # NoLoad /\ l # NoLoad
  <2>1. l # NoLoad
    BY DEF NoLoad
  <2>2. l.by # Nobody
    BY <2>1 DEF IsLoad
  <2>3. QED
    BY <1>10, <2>1, <2>2 DEF NoLoad
<1>12. /\ k = [by |-> k.by, items |-> k.items, urls |-> k.urls, got |-> k.got]
       /\ Len(k.items) = size /\ Len(k.got) = had + 1
  BY <1>1, <1>4, <1>10 DEF size
<1>13. k.urls = [n \in 1 .. Len(k.items) - Len(k.got) |->
                   ItemURLs(cfg.actions, k.items[Len(k.got) + n])]
  BY <1>9, <1>10, <1>12 DEF U
<1>14. had + 1 <= size
  BY <1>2, <1>8
<1>15. IsLoad(k, cfg, phase)
  BY <1>10, <1>11, <1>12, <1>13, <1>14 DEF IsLoad
<1>16. HasOneMore(k, l, cfg, m)
  BY <1>4, <1>8, <1>10, <1>11 DEF had, size, U, HasOneMore
<1>17. QED
  BY <1>15, <1>16

LEMMA ConfigIsRead ==
    ASSUME NEW c, NEW a
    PROVE  [cfg |-> c, actions |-> a] # Unread
<1>1. "actions" \in DOMAIN [cfg |-> c, actions |-> a] /\ "actions" \notin DOMAIN Unread
  BY DEF Unread
<1>2. QED
  BY <1>1

LEMMA MatchedFinite ==
    ASSUME Typed
    PROVE  IsFiniteSet(Matched) /\ Matched \subseteq stored
BY FS_EmptySet DEF Typed, Matched

\* The load a listing starts.
LEMMA ListIsLoad ==
    ASSUME Typed, NEW by \in Callers \cup {Process}, List(by), NEW phase,
           by = Process <=> phase = "loading"
    PROVE  /\ IsLoad(load', config, phase) /\ load' # NoLoad /\ load'.got = <<>>
           /\ load'.items \in SetToSeqs(Matched)
<1>1. PICK items \in SetToSeqs(Matched) :
          load' = [ by |-> by, items |-> items, got |-> <<>>,
                    urls |-> [n \in DOMAIN items |-> ItemURLs(config.actions, items[n])] ]
  BY DEF List
<1>2. items \in Seq(Items)
  <2>1. items \in Seq(Matched) /\ Matched \subseteq Items
    BY MatchedFinite, ListingOfSet DEF Typed
  <2>2. QED
    BY <2>1
<1> DEFINE e == <<>>
           U(n) == ItemURLs(config.actions, items[n])
<1>3. e \in Seq(Items) /\ Len(e) = 0 /\ Len(items) \in Nat /\ DOMAIN items = 1 .. Len(items)
  BY <1>2, EmptySeq, LenProperties
<1> HIDE DEF e, U
<1>4. [n \in DOMAIN items |-> U(n)] = [n \in 1 .. Len(items) - Len(e) |-> U(Len(e) + n)]
  <2>1. DOMAIN items = 1 .. Len(items) - Len(e)
    BY <1>3
  <2>2. \A n \in DOMAIN items : Len(e) + n = n
    BY <1>3
  <2>3. QED
    BY <2>1, <2>2
<1>5. load' = [by |-> by, items |-> items, got |-> e, urls |-> [n \in DOMAIN items |-> U(n)]]
  BY <1>1 DEF e, U
<1>6. /\ load'.by = by /\ load'.items = items /\ load'.got = e
      /\ load'.urls = [n \in 1 .. Len(items) - Len(e) |-> U(Len(e) + n)]
  BY <1>4, <1>5
<1>7. by # Nobody
  BY CallersAssumption DEF Nobody, Process
<1>8. load' # NoLoad
  BY <1>6, <1>7 DEF NoLoad
<1>9. load' = [by |-> load'.by, items |-> load'.items, urls |-> load'.urls, got |-> load'.got]
  BY <1>5
<1>10. load'.urls = [n \in 1 .. Len(load'.items) - Len(load'.got) |->
                       ItemURLs(config.actions, load'.items[Len(load'.got) + n])]
  BY <1>6 DEF U
<1>11. Len(load'.got) <= Len(load'.items)
  BY <1>3, <1>6
<1>12. IsLoad(load', config, phase)
  BY <1>2, <1>6, <1>7, <1>8, <1>9, <1>10, <1>11 DEF IsLoad
<1>13. QED
  BY <1>6, <1>8, <1>12 DEF e

LEMMA InitTyped == Init => Typed
<1> SUFFICES ASSUME Init PROVE Typed
  OBVIOUS
<1>1. PICK s \in Starts : setup = s[1] /\ stored = s[2]
  BY DEF Init
<1>2. IsLoad(load, config, server)
  BY NoLoadIsLoad DEF Init
<1>3. stored \subseteq Items /\ IsFiniteSet(stored) /\ MaxChanges \in Nat
  BY <1>1, StartupAssumption
<1>4. QED
  BY <1>1, <1>2, <1>3 DEF Init, Typed, Phases

\* What a step leaves alone of the types.
Same == UNCHANGED <<setup, stored, reachable, portFree, changes>>

LEMMA ExitTyped ==
    ASSUME Typed, Exit, server # "serving"
    PROVE  Typed'
<1>1. IsLoad(load, config, server)'
  BY NoLoadIsLoad DEF Exit
<1>2. Same /\ UNCHANGED <<index, publishing>> /\ server' = "down" /\ config' = Unread
  BY DEF Exit, Same
<1>3. QED
  BY <1>1, <1>2 DEF Typed, Same, Phases

LEMMA NextTyped ==
    ASSUME Inv, Typed, [Next]_vars
    PROVE  Typed'
<1>1. CASE Start
  <2>1. IsLoad(load, config, server)'
    BY <1>1 DEF Start, Typed, IsLoad
  <2>2. /\ Same /\ UNCHANGED <<index, publishing, config>>
        /\ server = "down" /\ server' = "starting"
    BY <1>1 DEF Start, Same
  <2>3. QED
    BY <2>1, <2>2 DEF Typed, Same, Phases
<1>2. CASE ReadConfig
  <2>1. /\ Same /\ UNCHANGED <<load, index, publishing>>
        /\ server = "starting" /\ server' = "configured"
    BY <1>2 DEF ReadConfig, Same
  <2>2. config' # Unread
    BY <1>2, ConfigIsRead DEF ReadConfig
  <2>3. load' = NoLoad
    BY <2>1 DEF Inv, LoadsConfigured
  <2>4. IsLoad(load, config, server)'
    BY <2>1, <2>3, NoLoadIsLoad
  <2>5. QED
    BY <2>1, <2>2, <2>4 DEF Typed, Same, Phases
<1>3. CASE RefuseConfig \/ ListFails \/ ListenFails
  BY <1>3, ExitTyped DEF RefuseConfig, ListFails, ListenFails
<1>4. CASE ListAtStart
  <2>1. /\ Same /\ UNCHANGED <<index, publishing, config>>
        /\ server = "configured" /\ server' = "loading"
    BY <1>4 DEF ListAtStart, List, Same
  <2>2. IsLoad(load', config, "loading")
    BY <1>4, ListIsLoad DEF ListAtStart
  <2>3. IsLoad(load, config, server)'
    BY <2>1, <2>2
  <2>4. QED
    BY <2>1, <2>3 DEF Typed, Same, Phases
<1>5. CASE FetchManifest
  <2>1. Same /\ UNCHANGED <<server, index, publishing, config>>
    BY <1>5 DEF FetchManifest, Same
  <2>2. PICK url : \E i \in Had(url) : 
           load' = [load EXCEPT !.urls = Tail(@), !.got = Append(@, Manifest(i.body))]
    BY <1>5 DEF FetchManifest
  <2>3. PICK i \in Had(url) :
           load' = [load EXCEPT !.urls = Tail(@), !.got = Append(@, Manifest(i.body))]
    BY <2>2
  <2>4. load # NoLoad /\ load.urls # <<>>
    BY <1>5 DEF FetchManifest, NoLoad
  <2>5. Manifest(i.body) \in Sounds /\ load.got \in Seq(Sounds)
    BY <2>4, HadSound DEF Sounds, Inv, LoadsConfigured, SoundOnly
  <2>6. IsLoad(load', config, server)
    <3>1. IsLoad(load, config, server)
      BY DEF Typed
    <3>2. QED
      BY <2>3, <2>4, <2>5, <3>1, FetchIsLoad
  <2>7. IsLoad(load, config, server)'
    BY <2>1, <2>6
  <2>8. QED
    BY <2>1, <2>7 DEF Typed, Same, Phases
<1>6. CASE FetchFails
  <2>1. CASE server = "loading" /\ Exit
    BY <2>1, ExitTyped
  <2>2. CASE server = "serving" /\ load' = NoLoad
                  /\ UNCHANGED <<server, setup, config, stored, reachable,
                                 portFree, index, publishing, changes>>
    <3>1. IsLoad(load, config, server)'
      BY <2>2, NoLoadIsLoad
    <3>2. QED
      BY <2>2, <3>1 DEF Typed
  <2>3. QED
    BY <1>6, <2>1, <2>2 DEF FetchFails
<1>7. CASE Build
  <2>1. /\ Same /\ UNCHANGED config /\ server' = "serving" /\ load' = NoLoad
        /\ server \in {"loading", "serving"}
        /\ publishing' \in {PublishOff, PublishAtomic, PublishTwoStep}
    BY <1>7 DEF Build, Same, Inv, LoadsConfigured
  <2>2. IsLoad(load, config, server)'
    BY <2>1, NoLoadIsLoad
  <2>3. QED
    BY <2>1, <2>2 DEF Typed, Same, Phases
<1>8. ASSUME NEW c \in Callers, StartRefresh(c)
      PROVE  Typed'
  <2>1. Same /\ UNCHANGED <<server, index, publishing, config>> /\ server = "serving"
    BY <1>8 DEF StartRefresh, List, Same
  <2>2. c # Process
    BY CallersAssumption
  <2>3. IsLoad(load', config, server)
    BY <1>8, <2>1, <2>2, ListIsLoad DEF StartRefresh
  <2>4. IsLoad(load, config, server)'
    BY <2>1, <2>3
  <2>5. QED
    BY <2>1, <2>4 DEF Typed, Same, Phases
<1>9. CASE Change
  <2>1. UNCHANGED <<server, setup, config, load, index, publishing>>
    BY <1>9 DEF Change
  <2>2. changes' \in 0 .. MaxChanges
    BY <1>9, StartupAssumption DEF Change, Typed
  <2>3. reachable' \in BOOLEAN /\ portFree' \in BOOLEAN
    BY <1>9 DEF Change, Typed
  <2>4. stored' \subseteq Items /\ IsFiniteSet(stored')
    <3>1. CASE UNCHANGED stored
      BY <3>1 DEF Typed
    <3>2. CASE \E i \in Items : stored' = IF i \in stored THEN stored \ {i} ELSE stored \cup {i}
      BY <3>2, FS_AddElement, FS_RemoveElement DEF Typed
    <3>3. QED
      BY <1>9, <3>1, <3>2 DEF Change
  <2>5. QED
    BY <2>1, <2>2, <2>3, <2>4 DEF Typed
<1>10. CASE UNCHANGED vars \/ \E c \in Callers : RefuseRefresh(c)
  BY <1>10 DEF vars, RefuseRefresh, Typed
<1>11. QED
  BY <1>1, <1>2, <1>3, <1>4, <1>5, <1>6, <1>7, <1>8, <1>9, <1>10 DEF Next, ProcessStep

LEMMA TypedGivesTypes == Inv /\ Typed => TypeOK
<1> SUFFICES ASSUME Inv, Typed PROVE TypeOK
  OBVIOUS
<1>1. Range(load.items) \subseteq Items
  <2>1. load.items \in Seq(Items)
    BY DEF Typed, IsLoad
  <2>2. QED
    BY <2>1, ElementOfSeq, LenProperties DEF Range
<1>2. Range(load.got) \cup Range(index) \subseteq {Manifest(i.body) : i \in Items}
  <2>1. load.got \in Seq(Sounds) /\ index \in Seq(Sounds)
    BY DEF Inv, SoundOnly
  <2>2. Range(load.got) \subseteq Sounds /\ Range(index) \subseteq Sounds
    BY <2>1, ElementOfSeq, LenProperties DEF Range
  <2>3. QED
    BY <2>2 DEF Sounds
<1>3. Len(load.got) + Len(load.urls) = Len(load.items)
  <2> DEFINE n == Len(load.items) - Len(load.got)
  <2>1. Len(load.items) \in Nat /\ Len(load.got) \in Nat /\ n \in Nat
    BY LenProperties DEF Inv, SoundOnly, Typed, IsLoad
  <2>2. DOMAIN load.urls = 1 .. n
    BY DEF Typed, IsLoad
  <2>3. \E T : load.urls \in Seq(T)
    <3> DEFINE T == {load.urls[m] : m \in 1 .. n}
    <3>1. load.urls = [m \in 1 .. n |-> load.urls[m]]
      BY <2>2 DEF Typed, IsLoad
    <3>2. \A m \in 1 .. n : load.urls[m] \in T
      OBVIOUS
    <3> HIDE DEF T, n
    <3>3. load.urls \in Seq(T)
      BY <2>1, <3>1, <3>2, IsASeq
    <3>4. QED
      BY <3>3
  <2>4. Len(load.urls) = n
    <3> HIDE DEF n
    <3>1. QED
      BY <2>1, <2>2, <2>3, LenProperties
  <2>5. QED
    BY <2>1, <2>4
<1>4. QED
  BY <1>1, <1>2, <1>3 DEF Typed, IsLoad, TypeOK, Phases

-----------------------------------------------------------------------------
(* Which object a manifest came from.                                        *)

\* Only the repository the operator names and means lists anything.
FromHere == load.items # <<>> =>
    config.actions.baseURL = BaseURL /\ config.actions.repoKey = RepoKey

\* A manifest that was had is a sound object's: of the object listed in its
\* place if that has a plain name, and of one in the repository as long as that
\* does not change.
Comes(n) ==
    \E i \in Items :
        /\ load.got[n] = Manifest(i.body) /\ Sound(i)
        /\ PlainName(load.items[n]) => i = load.items[n]
        /\ changes = 0 => i \in stored
Fetched == \A n \in 1 .. Len(load.got) : Comes(n)

\* As long as the repository does not change, a load has all of it.
Listed == changes = 0 /\ load # NoLoad =>
    Range(load.items) = Matched /\ Len(load.items) = Cardinality(Matched)

Exact == FromHere /\ Fetched /\ Listed /\ IndexIsExact

-----------------------------------------------------------------------------
LEMMA SlashesAreTexts ==
    ASSUME NEW n \in 0 .. 1
    PROVE  Slashes(n) \in Seq(STRING) /\ \A i \in DOMAIN Slashes(n) : Slashes(n)[i] = "/"
<1>1. "/" \in STRING
  BY KeysAssumption
<1>2. QED
  BY <1>1 DEF Slashes

\* The actions as they are loaded.
LEMMA LoadedActions ==
    ASSUME Inv, Typed, server \in {"configured", "loading", "serving"}
    PROVE  /\ config.actions.url = ListTemplate /\ config.actions.itemURL = ItemTemplate
           /\ Texted(config.actions.baseURL) /\ Texted(config.actions.repoKey)
           /\ Literal(config.actions.baseURL)
           /\ MeansTheRepository => config.actions.repoKey = RepoKey
<1> DEFINE URL == "ARTIFACTORY_URL"
           KEY == "ARTIFACTORY_REPO_KEY"
           file == setup.actions
           env == setup.urlEnv
<1>1. /\ {"baseURL", "repoKey", "url", "itemURL"} \subseteq DOMAIN file
      /\ file.baseURL = <<Braced(URL)>> /\ file.repoKey = <<Braced(KEY)>>
      /\ file.url = ListTemplate /\ file.itemURL = ItemTemplate
      /\ Braced(URL) # Braced(KEY) /\ DOMAIN env = {URL, KEY}
      /\ \A v \in DOMAIN env : env[v] \in Seq(STRING) /\ Plain(env[v]) /\ Literal(env[v])
  BY ShippedAssumption DEF Typed
<1>2. config.actions = LoadActions(file, env)
  BY DEF Inv, Configured
<1>3. /\ \A u, w \in DOMAIN env : Braced(u) = Braced(w) => u = w
      /\ URL \in DOMAIN env /\ KEY \in DOMAIN env
  BY <1>1
<1> HIDE DEF URL, KEY, file, env
<1>4. /\ ResolveEnvPlaceholder(file.baseURL, env) = env[URL]
      /\ ResolveEnvPlaceholder(file.repoKey, env) = env[KEY]
  <2>1. /\ ResolveEnvPlaceholder(<<Braced(URL)>>, env) = env[URL]
        /\ ResolveEnvPlaceholder(<<Braced(KEY)>>, env) = env[KEY]
    BY <1>3, ResolvesTo
  <2>2. QED
    BY <1>1, <2>1
<1>5. /\ config.actions.url = ListTemplate /\ config.actions.itemURL = ItemTemplate
      /\ config.actions.baseURL = TrimRight(env[URL])
      /\ config.actions.repoKey = Trim(env[KEY])
  BY <1>1, <1>2, <1>4 DEF LoadActions
<1>6. Texted(env[URL]) /\ Texted(env[KEY]) /\ Literal(env[URL])
  BY <1>1, <1>3 DEF Texted
<1>7. ASSUME MeansTheRepository PROVE Trim(env[KEY]) = RepoKey
  <2>1. PICK m \in 0 .. 1, n \in 0 .. 1 :
            setup.urlEnv.ARTIFACTORY_REPO_KEY = Slashes(m) \o RepoKey \o Slashes(n)
    BY <1>7 DEF MeansTheRepository
  <2>2. env[KEY] = Cat(Cat(Slashes(m), RepoKey), Slashes(n))
    BY <2>1 DEF env, KEY, Cat
  <2>3. /\ RepoKey \in Seq(STRING) /\ RepoKey # <<>>
        /\ RepoKey[1] # "/" /\ RepoKey[Len(RepoKey)] # "/"
    BY AddressAssumption
  <2>4. QED
    BY <2>2, <2>3, SlashesAreTexts, TrimSlashes
<1>8. Literal(TrimRight(env[URL]))
  BY <1>6, TrimmedTexts, LiteralParts
<1>9. Texted(TrimRight(env[URL])) /\ Texted(Trim(env[KEY]))
  BY <1>6, TrimmedTexts DEF PartOf
<1>10. QED
  BY <1>5, <1>7, <1>8, <1>9

\* What answers a query with an object is the repository itself.
LEMMA ListedHere ==
    ASSUME Inv, Typed, server \in {"configured", "serving"},
           NEW by \in Callers \cup {Process}, List(by),
           NEW items \in SetToSeqs(Matched), items # <<>>
    PROVE  config.actions.baseURL = BaseURL /\ config.actions.repoKey = RepoKey
<1>1. Matched # {}
  <2>1. items \in Seq(Matched) /\ Len(items) = Cardinality(Matched)
    BY MatchedFinite, ListingOfSet
  <2>2. Len(items) # 0
    BY <2>1, EmptySeq
  <2>3. QED
    BY <2>1, <2>2, FS_EmptySet
<1>2. config.actions.repoKey = RepoKey
  BY <1>1 DEF Matched
<1>3. ListURLs(config.actions) \subseteq {QueryURL(config.actions.baseURL)}
  BY LoadedActions, ListURLsOne
<1>4. QueryURL(BaseURL) = QueryURL(config.actions.baseURL)
  <2>1. Reaches(QueryURL(config.actions.baseURL), QueryURL(BaseURL))
    BY <1>3 DEF List, Listable, AqlURL
  <2>2. /\ QueryURL(config.actions.baseURL) \in Seq(STRING)
        /\ Literal(QueryURL(config.actions.baseURL))
    BY LoadedActions, LiteralURLs DEF Texted
  <2>3. QED
    BY <2>1, <2>2, LiteralReaches
<1>5. BaseURL \in Seq(STRING) /\ config.actions.baseURL \in Seq(STRING)
  BY AddressAssumption, LoadedActions DEF Texted
<1>6. QED
  BY <1>2, <1>4, <1>5, QueryURLInjective

\* A plain name leads to its own object only.
LEMMA PlainNameLeadsHome ==
    ASSUME Inv, Typed, server \in {"loading", "serving"},
           config.actions.baseURL = BaseURL, config.actions.repoKey = RepoKey,
           NEW item \in Items, PlainName(item), NEW i \in Items,
           NEW url \in ItemURLs(config.actions, item), Reaches(url, Address(i))
    PROVE  i = item
<1>1. Texted(item.path) /\ Texted(item.name)
  BY ItemsAssumption DEF Texted, PlainName, ItemFields
<1>2. ItemURLs(config.actions, item)
        \subseteq {ObjectURL(config.actions.baseURL, config.actions.repoKey, item.path, item.name)}
  BY <1>1, LoadedActions, ItemURLsOne
<1>3. url = Address(item)
  BY <1>2 DEF Address
<1>4. Address(item) \in Seq(STRING) /\ Literal(Address(item))
  <2>1. /\ item.path \in Seq(STRING) /\ item.name \in Seq(STRING)
        /\ Literal(item.path) /\ Literal(item.name)
    BY <1>1 DEF Texted, PlainName, ItemFields
  <2>2. QED
    BY <2>1, AddressAssumption, LiteralURLs DEF Address
<1>5. Address(i) = Address(item)
  BY <1>3, <1>4, LiteralReaches
<1>6. QED
  BY <1>5, ItemsAssumption

-----------------------------------------------------------------------------
LEMMA InitExact == Init => Exact
<1> SUFFICES ASSUME Init PROVE Exact
  OBVIOUS
<1>1. load.items = <<>> /\ Len(load.got) = 0 /\ load = NoLoad
  BY EmptySeq DEF Init, NoLoad
<1>2. QED
  BY <1>1 DEF Init, Exact, FromHere, Fetched, Listed, IndexIsExact

\* Without a load, only the index counts.
LEMMA NoLoadExact ==
    ASSUME load' = NoLoad, IndexIsExact'
    PROVE  Exact'
<1>1. load'.items = <<>> /\ Len(load'.got) = 0
  BY EmptySeq DEF NoLoad
<1>2. QED
  BY <1>1 DEF Exact, FromHere, Fetched, Listed

\* Nor does a step that leaves the index alone change what it should be.
LEMMA SameIndex ==
    ASSUME IndexIsExact, UNCHANGED <<setup, stored, index, changes>>,
           server' = "serving" => server = "serving"
    PROVE  IndexIsExact'
BY DEF IndexIsExact, MeansTheRepository, Meant

\* A listing begins with nothing had.
LEMMA ListExact ==
    ASSUME Inv, Typed, Exact, NEW by \in Callers \cup {Process}, List(by),
           server \in {"configured", "serving"},
           server' = "serving" => server = "serving"
    PROVE  Exact'
<1>1. load'.got = <<>> /\ load'.items \in SetToSeqs(Matched)
  <2>1. PICK items \in SetToSeqs(Matched) :
            load' = [ by |-> by, items |-> items, got |-> <<>>,
                      urls |-> [n \in DOMAIN items |-> ItemURLs(config.actions, items[n])] ]
    BY DEF List
  <2>2. QED
    BY <2>1
<1>2. UNCHANGED <<setup, config, stored, index, changes>>
  BY DEF List
<1>3. FromHere'
  BY <1>1, <1>2, ListedHere DEF FromHere
<1>4. Fetched'
  BY <1>1, EmptySeq DEF Fetched
<1>5. Listed'
  <2>1. Matched' = Matched
    BY <1>2 DEF Matched
  <2>2. Range(load'.items) = Matched /\ Len(load'.items) = Cardinality(Matched)
    BY <1>1, MatchedFinite, ListingOfSet
  <2>3. QED
    BY <2>1, <2>2 DEF Listed
<1>6. IndexIsExact'
  BY <1>2, SameIndex DEF Exact
<1>7. QED
  BY <1>3, <1>4, <1>5, <1>6 DEF Exact

LEMMA FetchExact ==
    ASSUME Inv, Typed, Exact, FetchManifest
    PROVE  Exact'
<1>1. PICK url \in Head(load.urls) : \E i \in Had(url) :
         load' = [load EXCEPT !.urls = Tail(@), !.got = Append(@, Manifest(i.body))]
  BY DEF FetchManifest
<1>2. PICK i \in Had(url) :
         load' = [load EXCEPT !.urls = Tail(@), !.got = Append(@, Manifest(i.body))]
  BY <1>1
<1>3. UNCHANGED <<server, setup, config, stored, index, changes>>
  BY DEF FetchManifest
<1>4. load.urls # <<>> /\ server \in {"loading", "serving"}
  BY DEF FetchManifest, NoLoad, Inv, LoadsConfigured
<1>5. i \in stored /\ i \in Items /\ Reaches(url, Address(i)) /\ Sound(i)
  BY <1>4, HadSound
<1> DEFINE had == Len(load.got)
           m == Manifest(i.body)
<1>6. /\ had + 1 \in 1 .. Len(load.items)
      /\ Head(load.urls) = ItemURLs(config.actions, load.items[had + 1])
      /\ load'.items = load.items /\ load # NoLoad /\ load' # NoLoad
      /\ Len(load'.got) = had + 1
      /\ \A n \in 1 .. had : load'.got[n] = load.got[n]
      /\ load'.got[had + 1] = m
  <2>1. IsLoad(load, config, server)
    BY DEF Typed
  <2>2. m \in Sounds /\ load.got \in Seq(Sounds)
    BY <1>5 DEF Sounds, Inv, SoundOnly
  <2>3. m = Manifest(i.body)
    OBVIOUS
  <2> HIDE DEF m
  <2>4. load' = [load EXCEPT !.urls = Tail(@), !.got = Append(@, m)]
    BY <1>2, <2>3
  <2>5. HasOneMore(load', load, config, m)
    BY <1>4, <2>1, <2>2, <2>4, FetchIsLoad
  <2>6. QED
    BY <2>5 DEF HasOneMore
<1>7. load.items \in Seq(Items) /\ load.items[had + 1] \in Items /\ had \in Nat
  <2>1. load.items \in Seq(Items) /\ load.got \in Seq(Sounds)
    BY DEF Typed, IsLoad, Inv, SoundOnly
  <2>2. QED
    BY <1>6, <2>1, ElementOfSeq, LenProperties
<1> HIDE DEF had, m
<1>8. PlainName(load.items[had + 1]) => i = load.items[had + 1]
  <2>1. load.items # <<>>
    BY <1>6, EmptySeq
  <2>2. config.actions.baseURL = BaseURL /\ config.actions.repoKey = RepoKey
    BY <2>1 DEF Exact, FromHere
  <2>3. QED
    BY <1>1, <1>4, <1>5, <1>6, <1>7, <2>2, PlainNameLeadsHome
<1>9. ASSUME NEW n \in 1 .. had + 1
      PROVE  Comes(n)'
  <2>1. Limit(MaxManifest)' = Limit(MaxManifest)
    BY <1>3 DEF Limit
  <2>2. CASE n = had + 1
    <3>1. Sound(i)'
      BY <1>5, <2>1 DEF Sound
    <3>2. load'.got[n] = Manifest(i.body)
      BY <1>6, <2>2 DEF m
    <3>3. PlainName(load'.items[n]) => i = load'.items[n]
      BY <1>6, <1>8, <2>2
    <3>4. i \in stored'
      BY <1>3, <1>5
    <3>5. QED
      BY <1>5, <3>1, <3>2, <3>3, <3>4 DEF Comes
  <2>3. CASE n # had + 1
    <3>1. n \in 1 .. had
      BY <1>7, <2>3
    <3>2. PICK j \in Items : /\ load.got[n] = Manifest(j.body) /\ Sound(j)
                             /\ PlainName(load.items[n]) => j = load.items[n]
                             /\ changes = 0 => j \in stored
      BY <3>1 DEF Exact, Fetched, Comes, had
    <3>3. Sound(j)'
      BY <2>1, <3>2 DEF Sound
    <3>4. load'.got[n] = Manifest(j.body)
      BY <1>6, <3>1, <3>2
    <3>5. QED
      BY <1>3, <1>6, <3>2, <3>3, <3>4 DEF Comes
  <2>4. QED
    BY <2>2, <2>3
<1>10. Fetched'
  BY <1>6, <1>9 DEF Fetched
<1>11. FromHere' /\ Listed'
  <2>1. Matched' = Matched
    BY <1>3 DEF Matched
  <2>2. QED
    BY <1>3, <1>6, <2>1 DEF Exact, FromHere, Listed
<1>12. IndexIsExact'
  BY <1>3, SameIndex DEF Exact
<1>13. QED
  BY <1>10, <1>11, <1>12 DEF Exact

\* A finished load has had all its items.
LEMMA LoadFinished ==
    ASSUME Inv, Typed, load.urls = <<>>
    PROVE  /\ Len(load.got) = Len(load.items)
           /\ load.items \in Seq(Items) /\ load.got \in Seq(Sounds)
<1> DEFINE n == Len(load.items) - Len(load.got)
<1>1. /\ load.items \in Seq(Items) /\ load.got \in Seq(Sounds)
      /\ Len(load.got) <= Len(load.items)
      /\ load.urls = [k \in 1 .. n |->
                        ItemURLs(config.actions, load.items[Len(load.got) + k])]
  BY DEF Typed, IsLoad, Inv, SoundOnly
<1>2. Len(load.items) \in Nat /\ Len(load.got) \in Nat
  BY <1>1, LenProperties
<1> HIDE DEF n
<1>3. DOMAIN load.urls = 1 .. n
  BY <1>1
<1>4. 1 .. n = {}
  <2>1. DOMAIN <<>> = {}
    OBVIOUS
  <2>2. DOMAIN load.urls = DOMAIN <<>>
    OBVIOUS
  <2>3. QED
    BY <1>3, <2>1, <2>2
<1>5. n \in Int
  BY <1>2 DEF n
<1>6. ~ (n >= 1)
  <2>1. n >= 1 => 1 \in 1 .. n
    BY <1>5
  <2>2. QED
    BY <1>4, <2>1
<1>7. QED
  BY <1>1, <1>2, <1>6 DEF n

LEMMA BuildExact ==
    ASSUME Inv, Typed, Exact, Build
    PROVE  Exact'
<1>1. /\ load # NoLoad /\ load.urls = <<>> /\ index' = load.got /\ load' = NoLoad
      /\ UNCHANGED <<setup, config, stored, changes>>
      /\ server \in {"loading", "serving"}
  BY DEF Build, Inv, LoadsConfigured
<1>2. ASSUME changes = 0, MeansTheRepository
      PROVE  /\ Range(index') \subseteq Meant
             /\ {Manifest(i.body) : i \in {j \in stored : PlainName(j)}} \subseteq Range(index')
             /\ Len(index') = Cardinality(stored)
  <2>1. Matched = stored
    BY <1>1, <1>2, LoadedActions DEF Matched
  <2>2. Range(load.items) = stored /\ Len(load.items) = Cardinality(stored)
    BY <1>1, <1>2, <2>1 DEF Exact, Listed
  <2>3. /\ Len(load.got) = Len(load.items)
        /\ DOMAIN load.got = 1 .. Len(load.got) /\ DOMAIN load.items = 1 .. Len(load.got)
    BY <1>1, LoadFinished, LenProperties
  <2>4. \A n \in DOMAIN load.got : Comes(n)
    BY <2>3 DEF Exact, Fetched
  <2>5. Range(load.got) \subseteq Meant
    <3> SUFFICES ASSUME NEW n \in DOMAIN load.got PROVE load.got[n] \in Meant
      BY DEF Range
    <3>1. PICK i \in Items : load.got[n] = Manifest(i.body) /\ i \in stored
      BY <1>2, <2>4 DEF Comes
    <3>2. QED
      BY <3>1 DEF Meant
  <2>6. ASSUME NEW j \in stored, PlainName(j)
        PROVE  Manifest(j.body) \in Range(load.got)
    <3>1. PICK n \in DOMAIN load.items : load.items[n] = j
      BY <2>2 DEF Range
    <3>2. load.got[n] = Manifest(j.body)
      BY <2>3, <2>4, <2>6, <3>1 DEF Comes
    <3>3. QED
      BY <2>3, <3>1, <3>2 DEF Range
  <2>7. QED
    BY <1>1, <2>2, <2>3, <2>5, <2>6
<1>3. IndexIsExact'
  BY <1>1, <1>2 DEF IndexIsExact, MeansTheRepository, Meant
<1>4. QED
  BY <1>1, <1>3, NoLoadExact

LEMMA NextExact ==
    ASSUME Inv, Typed, Exact, [Next]_vars
    PROVE  Exact'
<1>1. CASE Start
  <2>1. load' = NoLoad
    BY <1>1 DEF Start, Inv, LoadsConfigured
  <2>2. IndexIsExact'
    BY <1>1, SameIndex DEF Start, Exact
  <2>3. QED
    BY <2>1, <2>2, NoLoadExact
<1>2. CASE ReadConfig
  <2>1. load' = NoLoad
    BY <1>2 DEF ReadConfig, Inv, LoadsConfigured
  <2>2. IndexIsExact'
    BY <1>2, SameIndex DEF ReadConfig, Exact
  <2>3. QED
    BY <2>1, <2>2, NoLoadExact
<1>3. CASE Exit
  <2>1. IndexIsExact'
    BY <1>3, SameIndex DEF Exit, Exact
  <2>2. QED
    BY <1>3, <2>1, NoLoadExact DEF Exit
<1>4. CASE ListAtStart
  BY <1>4, ListExact DEF ListAtStart
<1>5. CASE FetchManifest \/ Build
  BY <1>5, FetchExact, BuildExact
<1>6. CASE server = "serving" /\ load' = NoLoad
                 /\ UNCHANGED <<server, setup, config, stored, reachable,
                                portFree, index, publishing, changes>>
  <2>1. IndexIsExact'
    BY <1>6, SameIndex DEF Exact
  <2>2. QED
    BY <1>6, <2>1, NoLoadExact
<1>7. CASE \E c \in Callers : StartRefresh(c)
  BY <1>7, ListExact DEF StartRefresh
<1>8. CASE Change
  <2>1. changes' # 0 /\ UNCHANGED <<server, setup, config, load, index>>
    <3>1. changes \in Nat /\ changes' = changes + 1
      BY <1>8, StartupAssumption DEF Change, Typed
    <3>2. QED
      BY <1>8, <3>1 DEF Change
  <2>2. FromHere' /\ Listed' /\ IndexIsExact'
    BY <2>1 DEF Exact, FromHere, Listed, IndexIsExact
  <2>3. Fetched'
    BY <2>1 DEF Exact, Fetched, Comes, Sound, Limit
  <2>4. QED
    BY <2>2, <2>3 DEF Exact
<1>9. CASE UNCHANGED vars \/ \E c \in Callers : RefuseRefresh(c)
  <2>1. UNCHANGED vars
    BY <1>9 DEF RefuseRefresh
  <2>2. QED
    BY <2>1
    DEF vars, Exact, FromHere, Fetched, Comes, Sound, Limit, Listed, Matched,
        IndexIsExact, MeansTheRepository, Meant
<1>10. QED
  BY <1>1, <1>2, <1>3, <1>4, <1>5, <1>6, <1>7, <1>8, <1>9
  DEF Next, ProcessStep, RefuseConfig, ListFails, FetchFails, ListenFails

-----------------------------------------------------------------------------
(* The theorems.                                                             *)

\* The invariant of a server process and its loads (main.go:29-99).
THEOREM StartupInvariant == Spec => []Inv
BY InitInv, NextKeeps, PTL DEF Spec

\* Whatever the files and the environment say, publishing is served in the mode
\* the operator named or not at all (config.go:98-146, main.go:75).
THEOREM PublishesAsAsked == Spec => []PublishOnlyWhenAsked
<1>1. Inv => PublishOnlyWhenAsked
  BY DEF Inv
<1>2. QED
  BY <1>1, StartupInvariant, PTL

\* No manifest in the index came from a body above the limit, whatever the limit
\* and the sizes are (source.go:148-154).
THEOREM IndexWithinLimits == Spec => []WithinLimits
<1>1. Inv => WithinLimits
  <2> SUFFICES ASSUME Inv, NEW n \in DOMAIN index
               PROVE  index[n] \in Sounds
    BY DEF WithinLimits, Sounds, Sound, MaxManifest
  <2>1. index \in Seq(Sounds)
    BY DEF Inv, SoundOnly
  <2>2. QED
    BY <2>1, LenProperties, ElementOfSeq
<1>2. QED
  BY <1>1, StartupInvariant, PTL

\* The loads have the types and the shape they should have, and the manifests of
\* a load came from the objects listed in their places (source.go:56-97).
THEOREM LoadInvariant == Spec => [](Typed /\ Exact)
<1>1. Init => Typed /\ Exact
  BY InitTyped, InitExact
<1>2. Inv /\ (Typed /\ Exact) /\ [Next]_vars => (Typed /\ Exact)'
  BY NextTyped, NextExact
<1>3. QED
  BY <1>1, <1>2, StartupInvariant, PTL DEF Spec

\* Every part of the state has its type: a process that is not serving has no
\* index, only one that has read its files has a configuration, and a load has
\* as many manifests and URLs as items.
THEOREM StartupTypes == Spec => []TypeOK
BY TypedGivesTypes, StartupInvariant, LoadInvariant, PTL

\* As long as nobody changes the repository, a server that serves lists exactly
\* what is in it, however the operator writes the addresses and in whatever order
\* the templates are expanded (config.go, actions.go, source.go).
THEOREM IndexExact == Spec => []IndexIsExact
<1>1. Exact => IndexIsExact
  BY DEF Exact
<1>2. QED
  BY <1>1, LoadInvariant, PTL

\* No form a manifest's author may write the dependencies in loses or changes one,
\* whatever the packages are called (manifest.go:39-67).
THEOREM DependenciesKept == Spec => []DependenciesSurvive
<1>1. Inv => DependenciesSurvive
  <2> SUFFICES ASSUME Inv, NEW n \in DOMAIN index
               PROVE  \E i \in Items : /\ i.body.id = index[n].id
                                       /\ i.body.depends = index[n].dependencies
    BY DEF DependenciesSurvive
  <2>1. index[n] \in Sounds
    <3>1. index \in Seq(Sounds)
      BY DEF Inv, SoundOnly
    <3>2. QED
      BY <3>1, LenProperties, ElementOfSeq
  <2>2. PICK i \in Items : index[n] = Manifest(i.body) /\ Sound(i)
    BY <2>1 DEF Sounds
  <2>3. DependenciesOf(i.body.dependencies) = i.body.depends
    BY <2>2, ItemsAssumption, DependenciesReadBack DEF Sound
  <2>4. QED
    BY <2>2, <2>3 DEF Manifest
<1>2. QED
  BY <1>1, StartupInvariant, PTL

\* However many others are fine, one object with a plain name that is too large or
\* not JSON keeps the load that lists it from the index (source.go:76-82).
THEOREM BadManifestBlocks == Spec => OneBadManifestBlocks
<1> DEFINE A == \A i \in Range(load.items) :
                   PlainName(i) => i.body.size <= Limit("backend.maxManifestResponseBytes")
                               /\ i.body.wellFormed
<1>1. ASSUME Inv, Typed, Exact, Build
      PROVE  A
  <2> SUFFICES ASSUME NEW n \in DOMAIN load.items, PlainName(load.items[n])
               PROVE  Sound(load.items[n])
    BY DEF Range, Sound, MaxManifest
  <2>1. n \in 1 .. Len(load.got)
    BY <1>1, LoadFinished, LenProperties DEF Build
  <2>2. Comes(n)
    BY <1>1, <2>1 DEF Exact, Fetched
  <2>3. QED
    BY <2>2 DEF Comes
<1>2. [Next]_vars => Build \/ UNCHANGED index
  BY DEF Next, ProcessStep, Start, ReadConfig, RefuseConfig, ListAtStart, ListFails,
         StartRefresh, RefuseRefresh, List, FetchManifest, FetchFails, ListenFails, Exit,
         Change, vars
<1>3. Inv /\ (Typed /\ Exact) /\ [Next]_vars => [A]_index
  BY <1>1, <1>2
<1>4. Spec => [][A]_index
  BY <1>3, StartupInvariant, LoadInvariant, PTL DEF Spec
<1>5. QED
  BY <1>4 DEF OneBadManifestBlocks

=============================================================================
