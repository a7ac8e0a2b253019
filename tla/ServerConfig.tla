---------------------------- MODULE ServerConfig ----------------------------
(* What the server reads once, at startup: its configuration                 *)
(* (internal/config/config.go) and its actions file                          *)
(* (internal/backend/actions.go), each with the environment's share in it.   *)
(*                                                                           *)
(* A URL, a repository key and a template are sequences of tokens: a slash,  *)
(* a placeholder in braces, or a stretch of text without either.             *)
EXTENDS Naturals, Sequences, SequencesExt

PublishOff == "off"
PublishAtomic == "atomic"
PublishTwoStep == "two-step"

\* A field the file leaves out: json.Unmarshal keeps the value it finds.
Omitted == "omitted"

\* The durations and sizes of the configuration; 0 when the file has none.
Limits == { "server.readHeaderTimeout", "server.readTimeout",
            "server.writeTimeout", "server.idleTimeout",
            "backend.readTimeout", "backend.uploadTimeout",
            "backend.maxAQLResponseBytes", "backend.maxManifestResponseBytes",
            "backend.maxUploadBytes" }

OrElse(value, default) == IF value = "" THEN default ELSE value

\* Load before its validation: the environment goes before the file, the file
\* before the defaults.  An empty variable is one that is not set; an empty
\* publish mode in the file is a mode like any other.
Settings(file, env) ==
    [ listenAddr  |-> IF env.PORT # "" THEN ":" \o env.PORT
                                       ELSE OrElse(file.listenAddr, ":8080"),
      publishMode |-> OrElse(env.PUBLISH_MODE,
                             IF file.publishMode = Omitted THEN PublishOff
                                                           ELSE file.publishMode),
      limit       |-> file.limit ]

\* Mutant: the publish mode is not validated.
ValidIgnoringMode(cfg) == \A l \in Limits : cfg.limit[l] > 0

Valid(cfg) ==
    /\ \A l \in Limits : cfg.limit[l] > 0
    /\ cfg.publishMode \in {PublishOff, PublishAtomic, PublishTwoStep}

ConfigLoads(file, env) == file.readable /\ Valid(Settings(file, env))

\* Only Valid keeps another mode out: anything that is not "off" publishes
PublishEnabled(cfg) == cfg.publishMode # PublishOff
AtomicPublish(cfg) == cfg.publishMode = PublishAtomic

-----------------------------------------------------------------------------
Braced(name) == "{" \o name \o "}"

\* A value that is one placeholder stands for an environment variable, here one
\* of those in urlEnv; if that is empty or not set, loading fails.
Named(value, urlEnv) == {v \in DOMAIN urlEnv : value = <<Braced(v)>>}
Unresolved(value, urlEnv) == \E v \in Named(value, urlEnv) : urlEnv[v] = <<>>
ResolveEnvPlaceholder(value, urlEnv) ==
    IF Named(value, urlEnv) = {} THEN value
    ELSE urlEnv[CHOOSE v \in Named(value, urlEnv) : TRUE]

TrimRight(text) == SubSeq(text, 1, SelectLastInSeq(text, LAMBDA t : t # "/"))
Trim(text) == Reverse(TrimRight(Reverse(TrimRight(text))))

BarePort == ":8080"

\* An absolute http or https URL with a host, once the trailing slashes are gone.
ValidBaseURL(url) ==
    /\ Len(url) > 3
    /\ url[1] \in {"http:", "https:"}
    /\ url[2] = "/" /\ url[3] = "/"
    /\ url[4] \notin {"/", BarePort}

\* Mutant: slashes are not trimmed.
LoadActionsUntrimmed(file, urlEnv) ==
    [ file EXCEPT !.baseURL = ResolveEnvPlaceholder(@, urlEnv),
                  !.repoKey = ResolveEnvPlaceholder(@, urlEnv) ]

\* What LoadActions makes of the two addresses in the file.
LoadActions(file, urlEnv) ==
    [ file EXCEPT !.baseURL = TrimRight(ResolveEnvPlaceholder(@, urlEnv)),
                  !.repoKey = Trim(ResolveEnvPlaceholder(@, urlEnv)) ]

ActionsLoad(file, urlEnv) ==
    /\ file.readable
    /\ ~Unresolved(file.baseURL, urlEnv) /\ ~Unresolved(file.repoKey, urlEnv)
    /\ ValidBaseURL(LoadActions(file, urlEnv).baseURL)
=============================================================================
