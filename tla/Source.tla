------------------------------- MODULE Source -------------------------------
(* What one load of the manifests asks of Artifactory and makes of the       *)
(* answers (internal/backend/source.go, internal/domain/manifest.go): the    *)
(* credential, the templates, the size limits, the decoding.                 *)
(*                                                                           *)
(* An object of the repository that the query matches has a path and a name, *)
(* sequences of tokens as in ServerConfig, and a body: its size in bytes, the *)
(* bytes up to the end of the JSON value in it, and the value.               *)
EXTENDS ServerConfig, FiniteSets

CONSTANTS
    BaseURL,    \* where Artifactory is
    RepoKey,    \* the repository the packages are in
    Accepted,   \* the tokens Artifactory lets list and read it
    Escapes     \* [the percent escapes in URLs -> what each stands for]

\* Where Artifactory takes queries, and where an object is, each by the names
\* it has there.
QueryURL(base) == base \o <<"/", "api/search/aql">>
ObjectURL(base, repo, path, name) ==
    base \o <<"/">> \o repo \o <<"/">> \o path \o <<"/">> \o name
AqlURL == QueryURL(BaseURL)
Address(item) == ObjectURL(BaseURL, RepoKey, item.path, item.name)

\* Nobody escapes a name on its way into a URL, and http.NewRequest reads the
\* text as a URL: a query or a fragment is no part of the address, an escape is
\* decoded, and a percent sign that starts no escape is an error, except in the
\* query.
Cuts == {"?", "#"}
BadEscape == "%"
InQuery(url, n) == /\ \E m \in 1 .. n - 1 : url[m] = "?"
                   /\ \A m \in 1 .. n - 1 : url[m] # "#"
Parses(url) == \A n \in DOMAIN url : url[n] = BadEscape => InQuery(url, n)
PathLength(url) ==
    LET cuts == {n \in DOMAIN url : url[n] \in Cuts}
    IN  IF cuts = {} THEN Len(url) ELSE Min(cuts) - 1
Decoded(token) == IF token \in DOMAIN Escapes THEN Escapes[token] ELSE token
Requested(url) == [n \in 1 .. PathLength(url) |-> Decoded(url[n])]
Reaches(url, address) == Parses(url) /\ Requested(url) = address

\* A text that means the same in a URL.
Literal(text) == Range(text) \cap (Cuts \cup {BadEscape} \cup DOMAIN Escapes) = {}

\* The texts the templates add to the names are literal.
ASSUME EscapesAssumption ==
    DOMAIN Escapes \cap {"/", "api/search/aql"} = {}

\* setAuth and applyAuth: the caller's token if the source has one, else what
\* the actions file says.  Anonymous is no header at all.
Anonymous == "anonymous"
TextOf(texts, key) == IF key \in DOMAIN texts THEN texts[key] ELSE ""
CanAuthorize(auth, env, override) ==
    \/ override # ""
    \/ auth.strategy = "bearer" /\ TextOf(env, auth.tokenEnv) # ""
    \/ auth.strategy \in {"", "none"}
Credential(auth, env, override) ==
    IF override # "" THEN override
    ELSE IF auth.strategy = "bearer" THEN TextOf(env, auth.tokenEnv)
    ELSE Anonymous

-----------------------------------------------------------------------------
\* expandTemplate replaces one key after the other, in the order Go's map
\* iteration happens to take: a value put in early is searched for the keys
\* that come after.
Substitute(text, key, value) == FlattenSeq(
    [i \in DOMAIN text |-> IF text[i] = Braced(key) THEN value ELSE <<text[i]>>])

BaseKeys == {"baseURL", "repoKey"}
ItemFields == {"path", "name"}
ItemKey(field) == "item." \o field
TemplateKeys == BaseKeys \cup {ItemKey(f) : f \in ItemFields}

\* Facts about these texts: no two keys, and no two placeholders, are the same,
\* and a placeholder is neither a slash nor a stretch of text.
ASSUME KeysAssumption ==
    /\ \A f, g \in ItemFields : ItemKey(f) = ItemKey(g) => f = g
    /\ \A f \in ItemFields : ItemKey(f) \notin BaseKeys
    /\ \A k, l \in TemplateKeys : Braced(k) = Braced(l) => k = l
    /\ \A k \in TemplateKeys : Braced(k) \in STRING \ {"/", "api/search/aql"}
    /\ {"/", "api/search/aql"} \subseteq STRING

\* A text no key of a template is part of.
Plain(text) == \A k \in TemplateKeys : Braced(k) \notin Range(text)

\* The repository's addresses are literal and have no slash at their ends.
ASSUME AddressAssumption ==
    \A text \in {BaseURL, RepoKey} :
        /\ text \in Seq(STRING) \ {<<>>} /\ Plain(text) /\ Literal(text)
        /\ text[1] # "/" /\ text[Len(text)] # "/"

\* The templates of the shipped actions file.
ListTemplate == QueryURL(<<Braced("baseURL")>>)
ItemTemplate == ObjectURL(<<Braced("baseURL")>>, <<Braced("repoKey")>>,
                          <<Braced(ItemKey("path"))>>, <<Braced(ItemKey("name"))>>)

\* every text a template can become
Expansions(template, vars) ==
    LET after[keys \in SUBSET DOMAIN vars] ==
            IF keys = {} THEN {template}
            ELSE UNION { {Substitute(text, k, vars[k]) : text \in after[keys \ {k}]}
                           : k \in keys }
    IN  after[DOMAIN vars]

BaseVars(actions) == [baseURL |-> actions.baseURL, repoKey |-> actions.repoKey]
ItemVars(actions, item) ==
    [ key \in TemplateKeys |->
        IF key \in BaseKeys THEN BaseVars(actions)[key]
        ELSE item[CHOOSE f \in ItemFields : key = ItemKey(f)] ]

ListURLs(actions) == Expansions(actions.url, BaseVars(actions))
ItemURLs(actions, item) == Expansions(actions.itemURL, ItemVars(actions, item))

-----------------------------------------------------------------------------
\* Mutants: reading stops at the limit; a body at the limit is too large.
BytesReadToLimit(size, limit) == Min({size, limit})
TooLargeAtLimit(bytes, limit) == bytes >= limit

\* io.ReadAll of a LimitReader that stops one byte above the limit.
BytesRead(size, limit) == Min({size, limit + 1})
TooLarge(bytes, limit) == bytes > limit
Fits(size, limit) == ~TooLarge(BytesRead(size, limit), limit)

\* A listing takes a byte for each item.
ListingFits(items, cfg) ==
    Fits(Cardinality(items), cfg.limit["backend.maxAQLResponseBytes"])
BodyFits(body, cfg) ==
    Fits(body.size, cfg.limit["backend.maxManifestResponseBytes"])

\* The response has the key "results" and under it an array.
AqlParses(actions) ==
    actions.responseStrategy = "artifactory-aql" /\ actions.items = "results"

\* A JSON value under "dependencies": null, an array, or an object with its
\* string members apart from its object members.
Dependency(name, id) == [name |-> name, id |-> id]
DependencyFields == {"name", "id", "compatibleVersions"}

\* A string member of Dependency cannot take an object.
DecodesAsOne(json) == DOMAIN json.objects \cap DependencyFields = {}
\* Mutant: the name is not looked at.
IsSingleUnnamed(json) == DecodesAsOne(json)

\* A non-empty name tells a dependency from a map.
IsSingle(json) == DecodesAsOne(json) /\ TextOf(json.texts, "name") # ""

DependenciesOf(json) ==
    CASE json.kind = "null"  -> {}
      [] json.kind = "array" -> json.elements
      [] json.kind = "object" /\ IsSingle(json) ->
            {Dependency(TextOf(json.texts, "name"), TextOf(json.texts, "id"))}
      [] OTHER -> {Dependency(n, json.objects[n]) : n \in DOMAIN json.objects}

\* As a map, every member has to be an object.
DependenciesDecode(json) ==
    json.kind \in {"null", "array"} \/ IsSingle(json) \/ DOMAIN json.texts = {}

\* json.Unmarshal of what was read; nobody validates the result.
Decodes(body, cfg) ==
    /\ body.json <= BytesRead(body.size,
                              cfg.limit["backend.maxManifestResponseBytes"])
    /\ body.wellFormed
    /\ DependenciesDecode(body.dependencies)
Manifest(body) ==
    [id |-> body.id, dependencies |-> DependenciesOf(body.dependencies)]

\* The ways to write a set of dependencies: as null, as an array, a single one
\* as an object of its own, or as an object with a member for each name.
AsNull == [kind |-> "null"]
AsArray(deps) == [kind |-> "array", elements |-> deps]
AsOne(dep) == [kind |-> "object", objects |-> <<>>,
               texts |-> [name |-> dep.name, id |-> dep.id]]
AsMap(deps) == [kind |-> "object", texts |-> <<>>,
                objects |-> [n \in {d.name : d \in deps} |->
                                (CHOOSE d \in deps : d.name = n).id]]
Writes(json, deps) ==
    /\ \A d \in deps : d = Dependency(d.name, d.id)
    /\ \/ json = AsNull /\ deps = {}
       \/ json = AsArray(deps)
       \/ \E d \in deps : json = AsOne(d) /\ deps = {d}
       \/ /\ json = AsMap(deps)
          /\ \A d, e \in deps : d.name = e.name => d = e

=============================================================================
