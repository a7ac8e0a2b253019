----------------------------- MODULE MCStartup ------------------------------
(* Startup with one good setup, every setup that differs from it in one      *)
(* thing, and repositories with one object of each kind.                     *)
EXTENDS Startup

MCBaseURL == <<"https:", "/", "/", "host", "/", "artifactory">>
MCRepoKey == <<"packages">>
MCAccepted == {"service", "caller"}
MCCallers == {"caller", "stranger"}
MCEscapes == [t \in {"%67"} |-> "g"]
MCAddresses == {":8080", ":9090", ":7070"}

GoodSetup ==
    [ file |-> [ readable |-> TRUE, listenAddr |-> "", publishMode |-> Omitted,
                 limit |-> [l \in Limits |-> 4] ],
      env |-> [ PORT |-> "", PUBLISH_MODE |-> "two-step",
                ARTIFACTORY_SERVICE_TOKEN |-> "service" ],
      urlEnv |-> [ ARTIFACTORY_URL |-> MCBaseURL,
                   ARTIFACTORY_REPO_KEY |-> MCRepoKey ],
      actions |-> [ readable |-> TRUE, defined |-> TRUE,
                    baseURL |-> <<Braced("ARTIFACTORY_URL")>>,
                    repoKey |-> <<Braced("ARTIFACTORY_REPO_KEY")>>,
                    auth |-> [ strategy |-> "bearer",
                               tokenEnv |-> "ARTIFACTORY_SERVICE_TOKEN" ],
                    url |-> ListTemplate,
                    responseStrategy |-> "artifactory-aql", items |-> "results",
                    itemURL |-> ItemTemplate ] ]

With(mode, variable) ==
    [GoodSetup EXCEPT !.file.publishMode = mode, !.env.PUBLISH_MODE = variable]
WithURL(url) == [GoodSetup EXCEPT !.urlEnv.ARTIFACTORY_URL = url]
WithRepoKey(key) == [GoodSetup EXCEPT !.urlEnv.ARTIFACTORY_REPO_KEY = key]
WithAuth(strategy) == [GoodSetup EXCEPT !.actions.auth.strategy = strategy]

\* A listing of two items is as long as it may be.
Narrow == [GoodSetup EXCEPT !.file.limit["backend.maxAQLResponseBytes"] = 2]

MCSetups ==
    { GoodSetup,
      [GoodSetup EXCEPT !.file.readable = FALSE],
      [GoodSetup EXCEPT !.file.limit["backend.uploadTimeout"] = 0],
      Narrow,
      [GoodSetup EXCEPT !.file.listenAddr = ":9090", !.env.PORT = "7070"],
      [GoodSetup EXCEPT !.file.listenAddr = ":9090", !.env.PORT = "none"],
      [GoodSetup EXCEPT !.actions.readable = FALSE],
      [GoodSetup EXCEPT !.actions.defined = FALSE],
      [GoodSetup EXCEPT !.actions.responseStrategy = "other"],
      [GoodSetup EXCEPT !.actions.items = "range"],
      [GoodSetup EXCEPT !.env.ARTIFACTORY_SERVICE_TOKEN = ""],
      [GoodSetup EXCEPT !.env.ARTIFACTORY_SERVICE_TOKEN = "expired"] }
    \cup { With(f, v) : f \in {Omitted, "off", "Off", "", "atomic"},
                        v \in {"", "atomic", "Off"} }
    \cup { WithURL(u) : u \in { <<>>, MCBaseURL \o <<"/">>, Tail(MCBaseURL),
                                <<"https:", "/", "/">>,
                                <<"https:", "/", "/", BarePort>> } }
    \cup { WithRepoKey(k) : k \in { <<>>, <<"/">>, <<"/", "packages", "/">>,
                                    <<"other">> } }
    \cup { WithAuth(s) : s \in {"", "basic"} }

\* Dependencies: none, and two in each form, one of them called "name".
Body(id, deps, json) == [id |-> id, depends |-> deps, dependencies |-> json,
                         size |-> 4, json |-> 4, wellFormed |-> TRUE]
Item(path, name, body) == [path |-> path, name |-> name, body |-> body]

d1 == Dependency("Cell", "c")
d2 == Dependency("name", "n")

Array == Item(<<"a">>, <<"m">>, Body("a", {d1, d2}, AsArray({d1, d2})))
One   == Item(<<"b">>, <<"m">>, Body("b", {d1}, AsOne(d1)))
Map   == Item(<<"c">>, <<"m">>, Body("c", {d1, d2}, AsMap({d1, d2})))
Bare  == Item(<<"d">>, <<"m">>, Body("", {d1}, AsMap({d1})))
\* One byte above the limit, and blank from the third on.
Large == Item(<<"e">>, <<"m">>,
              [Body("e", {}, AsMap({})) EXCEPT !.size = 5, !.json = 3])
Broken == Item(<<"f">>, <<"m">>, [Body("f", {}, AsNull) EXCEPT !.wellFormed = FALSE])
\* An object whose URL can come out as the next one's.
Odd   == Item(<<"g">>, <<Braced("item.path")>>, Body("g", {}, AsNull))
Twin  == Item(<<"g">>, <<"g">>, Body("t", {}, AsNull))
\* One whose URL leads to that object too, one whose URL is cut short and leads to
\* Array, one whose cut URL leads nowhere, and one whose URL is none.
Escaped == Item(<<"g">>, <<"%67">>, Body("u", {}, AsNull))
Query   == Item(<<"a">>, <<"m", "?", "%">>, Body("q", {}, AsNull))
Hash    == Item(<<"h", "#">>, <<"m">>, Body("h", {}, AsNull))
Percent == Item(<<"p">>, <<"m", "%">>, Body("p", {}, AsNull))

MCItems == {Array, One, Map, Bare, Large, Broken, Odd, Twin,
            Escaped, Query, Hash, Percent}

\* Every repository with the good setup, and each other setup with a repository
\* it meets something in.
MCStarts ==
    ({GoodSetup} \X { {}, {Array, One}, {Array, Map, Bare}, {One, Large},
                      {Bare, Broken}, {Array, Odd},
                      {Odd, Twin}, {Twin, Escaped}, {Array, Query},
                      {One, Hash}, {One, Percent} })
    \cup (MCSetups \X {{Array, One}})
    \cup {<<Narrow, {Array, Map, Bare}>>}

=============================================================================
