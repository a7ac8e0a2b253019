------------------------------ MODULE Startup -------------------------------
(* The server from the start of its process to its first answer, and its     *)
(* refreshes after: cmd/mpm-repo-server/main.go over ServerConfig and Source. *)
(* RepoService has loads, publishes and kills that overlap; here one load    *)
(* runs at a time, and what can go wrong inside it is in full.               *)
EXTENDS Source, Integers

CONSTANTS
    Starts,         \* pairs of the files and environment the operator starts it
                    \* with, and what the repository holds at first
    Items,          \* the objects others may add to it or take away
    Callers,        \* the tokens of the clients that refresh
    Addresses,      \* the addresses this machine can listen on
    MaxChanges      \* bound: how often the repository, its link or the port changes

\* A body has a length; a limit in the file may be negative; a repository holds
\* finitely many objects.
ASSUME StartupAssumption ==
    /\ \A i \in Items : i.body.size \in Nat
    /\ \A s \in Starts : /\ s[1].file.limit \in [Limits -> Int]
                         /\ s[2] \subseteq Items /\ IsFiniteSet(s[2])
    /\ MaxChanges \in Nat

\* Every object has an address of its own, and its author has written the
\* dependencies in one of the ways there are.
ASSUME ItemsAssumption ==
    /\ \A i \in Items : \A f \in ItemFields : i[f] \in Seq(STRING)
    /\ \A i, j \in Items : Address(i) = Address(j) => i = j
    /\ \A i \in Items : Writes(i.body.dependencies, i.body.depends)

\* The actions file has the addresses and the templates it is shipped with; the
\* operator's own addresses are any literal texts without a template key in them.
ASSUME ShippedAssumption ==
    \A s \in Starts :
        /\ {"baseURL", "repoKey", "url", "itemURL"} \subseteq DOMAIN s[1].actions
        /\ s[1].actions.baseURL = <<Braced("ARTIFACTORY_URL")>>
        /\ s[1].actions.repoKey = <<Braced("ARTIFACTORY_REPO_KEY")>>
        /\ s[1].actions.url = ListTemplate
        /\ s[1].actions.itemURL = ItemTemplate
        /\ Braced("ARTIFACTORY_URL") # Braced("ARTIFACTORY_REPO_KEY")
        /\ DOMAIN s[1].urlEnv = {"ARTIFACTORY_URL", "ARTIFACTORY_REPO_KEY"}
        /\ \A v \in DOMAIN s[1].urlEnv :
              /\ s[1].urlEnv[v] \in Seq(STRING)
              /\ Plain(s[1].urlEnv[v]) /\ Literal(s[1].urlEnv[v])

VARIABLES
    server,     \* "down", "starting", "configured", "loading" or "serving"
    setup,      \* the operator's files and environment; never changes
    config,     \* cfg and actions of run, once read
    stored,     \* the objects in the repository
    reachable,  \* Artifactory answers
    portFree,   \* no other process listens where this one wants to
    load,       \* the load in progress
    index,      \* the manifests in the index, in order
    publishing, \* the publish mode served, "off" when the route is missing
    changes

vars == <<server, setup, config, stored, reachable, portFree, load, index, publishing,
          changes>>

Nobody == "nobody"
Process == "startup"
Unread == [cfg |-> Nobody]

\* A handler refuses an empty token; the other two stand for none.
ASSUME CallersAssumption == Callers \cap {"", Process, Nobody} = {}
NoLoad == [by |-> Nobody, items |-> <<>>, urls |-> <<>>, got |-> <<>>]

TypeOK ==
    /\ server \in {"down", "starting", "configured", "loading", "serving"}
    /\ \E s \in Starts : setup = s[1]
    /\ stored \subseteq Items
    /\ reachable \in BOOLEAN
    /\ portFree \in BOOLEAN
    /\ load.by \in Callers \cup {Process, Nobody}
    /\ Range(load.items) \subseteq Items
    /\ Len(load.got) + Len(load.urls) = Len(load.items)
    /\ Range(load.got) \cup Range(index) \subseteq {Manifest(i.body) : i \in Items}
    /\ publishing \in {PublishOff, PublishAtomic, PublishTwoStep}
    /\ changes \in 0 .. MaxChanges
    /\ config # Unread <=> server \in {"configured", "loading", "serving"}
    /\ load.by = Process <=> server = "loading"
    /\ server # "serving" => publishing = PublishOff /\ index = <<>>

Init ==
    /\ server = "down"
    /\ \E s \in Starts : setup = s[1] /\ stored = s[2]
    /\ config = Unread
    /\ reachable \in BOOLEAN
    /\ portFree \in BOOLEAN
    /\ load = NoLoad
    /\ index = <<>>
    /\ publishing = PublishOff
    /\ changes = 0

-----------------------------------------------------------------------------
Start ==
    /\ server = "down"
    /\ server' = "starting"
    /\ UNCHANGED <<setup, config, stored, reachable, portFree, load, index, publishing,
                   changes>>

\* run returns an error and main exits 1.
Exit ==
    /\ server' = "down"
    /\ config' = Unread
    /\ load' = NoLoad
    /\ UNCHANGED <<setup, stored, reachable, portFree, index, publishing, changes>>

ReadsConfig == /\ ConfigLoads(setup.file, setup.env)
               /\ ActionsLoad(setup.actions, setup.urlEnv)

ReadConfig ==
    /\ server = "starting"
    /\ ReadsConfig
    /\ server' = "configured"
    /\ config' = [ cfg |-> Settings(setup.file, setup.env),
                   actions |-> LoadActions(setup.actions, setup.urlEnv) ]
    /\ UNCHANGED <<setup, stored, reachable, portFree, load, index, publishing, changes>>

RefuseConfig == server = "starting" /\ ~ReadsConfig /\ Exit

\* The token a load was given; a starting process gives none.
Override(by) == IF by = Process THEN "" ELSE by
Admitted(by) ==
    LET auth == config.actions.auth  token == Override(by) IN
    /\ CanAuthorize(auth, setup.env, token)
    /\ reachable
    /\ Credential(auth, setup.env, token) \in Accepted

\* What the query matches in the repository it names.
Matched == IF config.actions.repoKey = RepoKey THEN stored ELSE {}

Listable(by) ==
    /\ config.actions.defined
    /\ Admitted(by)
    /\ \E url \in ListURLs(config.actions) : Reaches(url, AqlURL)
    /\ ListingFits(Matched, config.cfg)
    /\ AqlParses(config.actions)

\* executeListAction: the items come in any order; urls has, for each, what its
\* template can become.
List(by) ==
    /\ Listable(by)
    /\ \E items \in SetToSeqs(Matched) :
          load' = [ by |-> by, items |-> items, got |-> <<>>,
                    urls |-> [n \in DOMAIN items |-> ItemURLs(config.actions, items[n])] ]
    /\ UNCHANGED <<setup, config, stored, reachable, portFree, index, publishing, changes>>

ListAtStart == server = "configured" /\ List(Process) /\ server' = "loading"
ListFails == server = "configured" /\ ~Listable(Process) /\ Exit

StartRefresh(caller) ==
    /\ server = "serving" /\ load = NoLoad
    /\ List(caller)
    /\ UNCHANGED server

\* A refresh whose listing fails is answered 502 and changes nothing.
RefuseRefresh(caller) ==
    /\ server = "serving" /\ load = NoLoad
    /\ ~Listable(caller)
    /\ UNCHANGED vars

\* fetchManifest, for the next item of the load
Had(url) ==
    IF Admitted(load.by)
    THEN {i \in stored : /\ Reaches(url, Address(i))
                         /\ BodyFits(i.body, config.cfg)
                         /\ Decodes(i.body, config.cfg)}
    ELSE {}

FetchManifest ==
    /\ load.urls # <<>>
    /\ \E url \in Head(load.urls) : \E i \in Had(url) :
          load' = [load EXCEPT !.urls = Tail(@), !.got = Append(@, Manifest(i.body))]
    /\ UNCHANGED <<server, setup, config, stored, reachable, portFree, index, publishing,
                   changes>>

NextFails == load.urls # <<>> /\ \E url \in Head(load.urls) : Had(url) = {}

\* Mutant: the loop goes on with the next manifest.
FetchFailsSkips ==
    /\ NextFails
    /\ load' = [load EXCEPT !.urls = Tail(@)]
    /\ UNCHANGED <<server, setup, config, stored, reachable, portFree, index, publishing,
                   changes>>

\* ListManifests gives up at the first failure: a starting process exits, a
\* refresh is answered 502 and leaves the index as it was.
FetchFails ==
    /\ NextFails
    /\ \/ server = "loading" /\ Exit
       \/ /\ server = "serving"
          /\ load' = NoLoad
          /\ UNCHANGED <<server, setup, config, stored, reachable, portFree, index,
                         publishing, changes>>

CanListen == portFree /\ config.cfg.listenAddr \in Addresses

\* idx.Build, and for a starting process the routes and the listener
Build ==
    /\ load # NoLoad /\ load.urls = <<>>
    /\ server = "serving" \/ CanListen
    /\ index' = load.got
    /\ load' = NoLoad
    /\ server' = "serving"
    /\ publishing' = IF ~PublishEnabled(config.cfg) THEN PublishOff
                     ELSE IF AtomicPublish(config.cfg) THEN PublishAtomic
                     ELSE PublishTwoStep
    /\ UNCHANGED <<setup, config, stored, reachable, portFree, changes>>

\* srv.ListenAndServe fails: the index just built goes with the process.
ListenFails == server = "loading" /\ load.urls = <<>> /\ ~CanListen /\ Exit

-----------------------------------------------------------------------------
\* Others write to the repository, the link to it fails and comes back, and
\* other processes take the port, unless this one has it, and leave it.
Change ==
    /\ changes < MaxChanges
    /\ changes' = changes + 1
    /\ \/ /\ \E i \in Items : stored' = IF i \in stored THEN stored \ {i}
                                        ELSE stored \cup {i}
          /\ UNCHANGED <<reachable, portFree>>
       \/ reachable' = ~reachable /\ UNCHANGED <<stored, portFree>>
       \/ /\ server # "serving"
          /\ portFree' = ~portFree
          /\ UNCHANGED <<stored, reachable>>
    /\ UNCHANGED <<server, setup, config, load, index, publishing>>

ProcessStep == \/ ReadConfig \/ RefuseConfig \/ ListAtStart \/ ListFails
               \/ FetchManifest \/ FetchFails \/ Build \/ ListenFails
Next == \/ Start
        \/ ProcessStep
        \/ \E c \in Callers : StartRefresh(c) \/ RefuseRefresh(c)
        \/ Change

\* The process takes its steps, and whoever operates it starts it again.
Fairness == WF_vars(Start) /\ WF_vars(ProcessStep)

Spec == Init /\ [][Next]_vars /\ Fairness

-----------------------------------------------------------------------------
\* What the operator means, in terms of the setup alone.

Slashes(n) == [i \in 1 .. n |-> "/"]
Wanted == IF setup.env.PUBLISH_MODE # "" THEN setup.env.PUBLISH_MODE
                                         ELSE setup.file.publishMode
\* The addresses are those of the repository, up to slashes around them.
MeansTheRepository ==
    /\ \E n \in 0 .. 1 : setup.urlEnv.ARTIFACTORY_URL = BaseURL \o Slashes(n)
    /\ \E m, n \in 0 .. 1 : setup.urlEnv.ARTIFACTORY_REPO_KEY
                              = Slashes(m) \o RepoKey \o Slashes(n)
\* The port the operator gives goes before the address in the file.
WantedAddress == IF setup.env.PORT # "" THEN ":" \o setup.env.PORT
                 ELSE IF setup.file.listenAddr # "" THEN setup.file.listenAddr
                 ELSE ":8080"
\* A name in the repository that is literal and that no template key is part of.
PlainName(item) == \A f \in ItemFields : Plain(item[f]) /\ Literal(item[f])
Limit(name) == setup.file.limit[name]
Good(item) ==
    /\ PlainName(item)
    /\ item.body.size <= Limit("backend.maxManifestResponseBytes")
    /\ item.body.wellFormed

\* A server that serves a repository nobody has changed lists exactly what is in
\* it, each manifest once with nothing added: however the operator writes the
\* addresses, whatever way the templates are expanded, at whatever size
\* (config.go, actions.go, source.go).  A name that contains a template key, or
\* that means something else in a URL, may lead to another object; the objects
\* beside it are listed all the same.
Meant == {Manifest(i.body) : i \in stored}
IndexIsExact ==
    server = "serving" /\ changes = 0 /\ MeansTheRepository =>
        /\ Range(index) \subseteq Meant
        /\ {Manifest(i.body) : i \in {j \in stored : PlainName(j)}} \subseteq Range(index)
        /\ Len(index) = Cardinality(stored)

\* No manifest in the index came from a body above the limit, one byte above
\* included (source.go:148-154).
WithinLimits ==
    \A n \in DOMAIN index : \E i \in Items :
        /\ Manifest(i.body) = index[n]
        /\ i.body.size <= Limit("backend.maxManifestResponseBytes")

\* Publishing is served only in the mode the operator named: a mode misspelt in
\* either place, or none, never opens the route (config.go:98-146, main.go:75).
PublishOnlyWhenAsked == publishing # PublishOff => publishing = Wanted

\* The dependencies in the index are those the manifest's author wrote, whichever
\* of the accepted forms they are in and whatever the packages are called
\* (manifest.go:39-67).
DependenciesSurvive ==
    \A n \in DOMAIN index : \E i \in Items :
        /\ i.body.id = index[n].id
        /\ i.body.depends = index[n].dependencies

\* One object that is listed and cannot be had keeps every load from ending: the
\* index never comes from a listing with such an object, at startup or in a
\* refresh (source.go:76-82).
OneBadManifestBlocks ==
    [][\A i \in Range(load.items) :
          PlainName(i) => i.body.size <= Limit("backend.maxManifestResponseBytes")
                      /\ i.body.wellFormed]_index

\* A server that is set up well comes up, and stays up, once Artifactory answers,
\* every object can be had and no other process is on its port (main.go:29-99).
WellConfigured ==
    /\ MeansTheRepository
    /\ setup.file.readable /\ setup.actions.readable /\ setup.actions.defined
    /\ \A l \in Limits : Limit(l) > 0
    /\ Wanted \in {Omitted, PublishOff, PublishAtomic, PublishTwoStep}
    /\ setup.actions.auth.strategy = "bearer"
    /\ TextOf(setup.env, setup.actions.auth.tokenEnv) \in Accepted
    /\ AqlParses(setup.actions)
    /\ WantedAddress \in Addresses
Loadable ==
    /\ reachable /\ portFree
    /\ \A i \in stored : Good(i)
    /\ Cardinality(stored) <= Limit("backend.maxAQLResponseBytes")
StartsWhenGood == WellConfigured /\ <>[]Loadable => <>[](server = "serving")

=============================================================================
