---------------------------- MODULE Orchestrator ----------------------------
(* perf-test/cmd/orchestrator/main.go: a benchmark run from a clean start    *)
(* through containers, credentials, seeding and measuring to its cleanup,    *)
(* with any step failing, servers dying, a port that others hold or take,    *)
(* and runs that are interrupted and leave things behind for the next one.   *)
EXTENDS Seeder

CONSTANTS
    Counts,         \* PERF_PACKAGE_COUNTS as parseCSV returns it
    MaxAttempts,    \* attempts at changing the password; 10 in the code
    MaxRuns         \* bound: how often somebody runs it

\* parseCSV sorts.
ASSUME CountsAssumption ==
    /\ Counts \in Seq(Nat)
    /\ \A i, j \in DOMAIN Counts : i < j => Counts[i] <= Counts[j]
    /\ MaxAttempts \in Nat \ {0} /\ MaxRuns \in Nat

VARIABLES
    pc,             \* the step run() is at
    exitCode,
    level,          \* index in Counts of the scale being measured
    seeded,         \* packages seeded so far
    attempts,       \* at changing the password
    files,          \* the generated files in perf-test/
    containers,     \* "up", or "down" with their volumes
    failed,         \* calls of this run whose failure may leave something behind
    password,       \* Artifactory's: "default" or "changed"
    own,            \* serverCmd: "none", "starting", "serving" or "exited"
    port,           \* who listens on 8080: "nobody", "own", the "test" server that
                    \* this run's go test started and left, or an "other"
    portClear,      \* no other has listened since the run began
    measured,       \* each benchmark: its scale, who answered, from how many
    runs

progress == <<level, seeded, attempts>>
artifactory == <<containers, password, stored>>
server == <<own, port, listed>>
history == <<failed, portClear, measured, runs>>
vars == <<pc, exitCode, progress, files, artifactory, server, history, seederVars>>

Env == ".env"
ServiceToken == ".service-token"
Binary == "mpm-repo-server"
Partial == "results.partial.tmp"
Files == {Env, ServiceToken, Binary, Partial}

\* What else is in failed
ComposeDown == "docker compose down"
StartupTest == "TestPerfStartupIndexing"

\* Where no process of the orchestrator is
Ended == {"idle", "ended", "killed"}

TypeOK ==
    /\ exitCode \in {0, 1}
    /\ level \in 1 .. Len(Counts) + 1
    /\ attempts \in 0 .. MaxAttempts
    /\ files \subseteq Files /\ failed \subseteq Files \cup {ComposeDown, StartupTest}
    /\ containers \in {"up", "down"} /\ password \in {"default", "changed"}
    /\ own \in {"none", "starting", "serving", "exited"}
    /\ port \in {"nobody", "own", "test", "other"}
    /\ port = "own" <=> own = "serving"
    /\ running # {} => pc = "seeding"
    /\ containers = "down" => stored = {} /\ password = "default"

Init ==
    /\ SeederInit
    /\ stored = {} /\ listed = {}
    /\ pc = "idle" /\ exitCode = 0
    /\ level = 1 /\ seeded = 0 /\ attempts = 0
    /\ files = {} /\ containers = "down" /\ failed = {}
    /\ password = "default"
    /\ own = "none" /\ port \in {"nobody", "other"} /\ portClear = FALSE
    /\ measured = {} /\ runs = 0

-----------------------------------------------------------------------------
\* Mutant: fatal calls os.Exit.
OutcomeExits(next, ok) ==
    IF ok THEN pc' = next /\ UNCHANGED exitCode
          ELSE pc' = "ended" /\ exitCode' = 1

\* A step that may call fatal: the panic unwinds to run's deferred function,
\* which recovers and cleans up.
Outcome(next, ok) ==
    IF ok THEN pc' = next /\ UNCHANGED exitCode
          ELSE pc' = "stop" /\ exitCode' = 1

\* docker compose down -v, whose failure nobody looks at
Down(ok) ==
    IF ok THEN /\ containers' = "down" /\ password' = "default" /\ stored' = {}
          ELSE UNCHANGED <<containers, password, stored>>

Begin ==
    /\ pc \in Ended /\ runs < MaxRuns
    /\ runs' = runs + 1
    /\ pc' = "env" /\ exitCode' = 0
    /\ level' = 1 /\ seeded' = 0 /\ attempts' = 0 /\ measured' = {}
    /\ files' \in {files, files \ {Partial}}
    /\ \E ok \in BOOLEAN : Down(ok)
    /\ failed' = {}
    /\ port' = IF port = "test" THEN "other" ELSE port
    /\ portClear' = (port = "nobody")
    /\ UNCHANGED <<own, listed, seederVars>>

\* A step that writes a file, some of it perhaps even when it fails
Writes(step, next, file) ==
    /\ pc = step
    /\ \E ok \in BOOLEAN, some \in BOOLEAN :
        /\ Outcome(next, ok)
        /\ files' = IF ok \/ some THEN files \cup {file} ELSE files
    /\ UNCHANGED <<progress, artifactory, own, portClear, runs, seederVars, listed>>

Aside == UNCHANGED <<failed, port, measured>>
WriteEnvFile == Writes("env", "up", Env) /\ Aside
GenerateToken == Writes("token", "build", ServiceToken) /\ Aside
BuildServer == Writes("build", "scale", Binary) /\ Aside

ComposeUp ==
    /\ pc = "up"
    /\ \E ok \in BOOLEAN : /\ Outcome("healthy", ok)
                           /\ containers' \in IF ok THEN {"up"} ELSE {containers, "up"}
    /\ UNCHANGED <<progress, files, history, password, server, seederVars,
                   stored>>

\* Steps that only wait or ask: waitForHealthy, and setBaseURL, which does not
\* look at the status
Asks(step, next) ==
    /\ pc = step
    /\ \E ok \in BOOLEAN : Outcome(next, ok)
    /\ UNCHANGED <<progress, files, artifactory, history, server, seederVars>>

WaitForHealthy == Asks("healthy", "password")
SetBaseURL == Asks("baseURL", "token")

\* Mutant: every failure is tried again, without a bound.
ChangePasswordForever ==
    /\ pc = "password"
    /\ \/ password = "default" /\ password' = "changed" /\ Outcome("baseURL", TRUE)
       \/ UNCHANGED <<pc, exitCode, password>>
    /\ UNCHANGED <<progress, files, containers, history, server, seederVars,
                   stored>>

\* One attempt.  502 and 503 are tried again, another status and no answer at
\* all are fatal, and behind each of them the change may have been made: then
\* no attempt succeeds any more, since all send the default password.
ChangePassword ==
    /\ pc = "password"
    /\ \/ /\ attempts < MaxAttempts
          /\ attempts' = attempts + 1
          /\ \/ password = "default" /\ password' = "changed" /\ Outcome("baseURL", TRUE)
             \/ /\ password' \in {password, "changed"}
                /\ UNCHANGED <<pc, exitCode>> \/ Outcome("baseURL", FALSE)
       \/ attempts = MaxAttempts /\ Outcome("baseURL", FALSE) /\ UNCHANGED <<attempts, password>>
    /\ UNCHANGED <<level, seeded, files, containers, history, server,
                   seederVars, stored>>

-----------------------------------------------------------------------------
\* The loop over the scales, and after it the steps at the largest one
NextScale ==
    /\ pc = "scale"
    /\ pc' = IF level <= Len(Counts) THEN "start" ELSE "startLast"
    /\ UNCHANGED <<exitCode, progress, files, artifactory, history, server,
                   seederVars>>

StartServer(step, next) ==
    /\ pc = step
    /\ \E ok \in BOOLEAN : Outcome(next, ok) /\ own' = IF ok THEN "starting" ELSE "none"
    /\ listed' = {}
    /\ UNCHANGED <<progress, files, artifactory, history, port, seederVars>>

\* The server loads its index, then listens; it exits when the port is taken.
ServerListens ==
    /\ own = "starting" /\ port = "nobody"
    /\ own' = "serving" /\ port' = "own" /\ listed' = stored
    /\ UNCHANGED <<pc, exitCode, progress, files, artifactory, history,
                   seederVars>>

Freed == IF port = "own" THEN "nobody" ELSE port
ServerDies ==
    /\ own \in {"starting", "serving"}
    /\ own' = "exited" /\ port' = Freed
    /\ UNCHANGED <<pc, exitCode, progress, files, artifactory, history,
                   seederVars, listed>>

\* waitForServerHealthy asks whoever listens on the port.
AwaitServer(step, next) ==
    /\ pc = step
    /\ \E ok \in BOOLEAN : Outcome(next, ok) /\ (ok => port # "nobody")
    /\ UNCHANGED <<progress, files, artifactory, history, server, seederVars>>

\* Mutant: Kill without Wait, after which the old process may still listen.
StopServerUnwaited ==
    own' = "none" /\ port' = IF port = "own" THEN "other" ELSE port

\* Kill and Wait
StopServer == own' = "none" /\ port' = Freed

Stops(step, next) ==
    /\ pc = step
    /\ pc' = next
    /\ StopServer
    /\ UNCHANGED <<exitCode, seeded, attempts, files, artifactory, history,
                   seederVars, listed>>

\* Mutant: every scale is seeded from the start.
ToSeedAll == Counts[level]

ToSeed == Counts[level] - seeded

Seed ==
    /\ pc = "seed"
    /\ IF ToSeed > 0
       THEN pc' = "seeding" /\ StartSeeder(ToSeed, seeded)
       ELSE pc' = "stopSeeded" /\ UNCHANGED seederVars
    /\ UNCHANGED <<exitCode, progress, files, artifactory, history, server>>

SeederStep(w) ==
    /\ pc = "seeding"
    /\ Take(w) \/ (port # "nobody" /\ Created(w, port = "own")) \/ NotCreated(w, port = "own")
    /\ UNCHANGED <<pc, exitCode, progress, files, containers, password, own,
                   port, history>>

\* go run ends after the seeder's main.
Seeded ==
    /\ pc = "seeding" /\ Waited
    /\ Outcome("stopSeeded", SeederSucceeds)
    /\ seeded' = IF SeederSucceeds THEN Counts[level] ELSE seeded
    /\ UNCHANGED <<level, attempts, files, artifactory, history, server,
                   seederVars>>

\* go run fails by itself or is killed, before the seeder runs or with packages
\* under way, which may be stored all the same.
SeederGone ==
    /\ running' = {} /\ doing' = [w \in Workers |-> Resting]
    /\ stored' \in {stored \cup s : s \in SUBSET {doing[w] : w \in Busy}}
    /\ UNCHANGED <<work, published, errCount>>
SeedingFails ==
    /\ pc = "seeding" /\ Outcome("stopSeeded", FALSE)
    /\ SeederGone
    /\ UNCHANGED <<progress, files, containers, password, history, server>>

\* go test against whoever answers, and the results it adds
Benchmark(step, next) ==
    /\ port # "nobody"
    /\ Writes(step, next, Partial)
    /\ measured' = measured \cup
         {[count |-> Counts[level], by |-> port, packages |-> Cardinality(listed)]}
    /\ UNCHANGED <<failed, port>>

\* TestPerfStartupIndexing starts a server of its own, and when it fails, not
\* finding it healthy or running out of time, it leaves it behind.
BenchmarkStartup ==
    /\ Writes("startup", "restart", Partial)
    /\ failed' = IF pc' = "stop" THEN failed \cup {StartupTest} ELSE failed
    /\ port' \in {port} \cup (IF port = "nobody" /\ pc' = "stop" THEN {"test"} ELSE {})
    /\ UNCHANGED measured

\* The last tests, after which no step counts packages any more
BenchmarkLast(step, next) == Writes(step, next, Partial) /\ Aside
BenchmarkFails ==
    /\ pc = "query" /\ port = "nobody" /\ Outcome("", FALSE)
    /\ UNCHANGED <<progress, files, artifactory, history, server, seederVars>>

-----------------------------------------------------------------------------
\* cleanup: stop the server, take the containers down, remove the files.  It
\* looks at no error.
Cleanup ==
    \/ Stops("stop", "down") /\ UNCHANGED level
    \/ /\ pc = "down" /\ pc' = "remove"
       /\ \E ok \in BOOLEAN : Down(ok) /\ failed' = IF ok THEN failed ELSE failed \cup {ComposeDown}
       /\ UNCHANGED <<exitCode, progress, files, server, portClear,
                      measured, runs, seederVars>>
    \/ /\ pc = "remove" /\ pc' = "ended"
       /\ \E kept \in SUBSET files : files' = kept /\ failed' = failed \cup kept
       /\ UNCHANGED <<exitCode, progress, artifactory, server, portClear,
                      measured, runs, seederVars>>

\* The run is interrupted and does not clean up.  Its server may live on, and so
\* may that of the startup test.  (A seeder that does has a token of an
\* Artifactory on which no later run gets past the password change.)
Interrupt ==
    /\ pc \notin Ended
    /\ pc' = "killed" /\ own' = "none"
    /\ port' \in {Freed} \cup
          (IF own \in {"starting", "serving"} \/ pc = "startup"
           THEN {"other"} ELSE {})
    /\ SeederGone
    /\ UNCHANGED <<exitCode, progress, files, containers, password, history, listed>>

\* Processes that are not this run's come and go on the port, among them what a
\* killed run has left; a server its test left ends, too.
PortTaken ==
    /\ port = "nobody" /\ port' = "other"
    /\ portClear' = FALSE
    /\ UNCHANGED <<pc, exitCode, progress, files, artifactory, failed, measured,
                   runs, own, seederVars, listed>>
PortFreed ==
    /\ port \in {"other", "test"} /\ port' = "nobody"
    /\ UNCHANGED <<pc, exitCode, progress, files, artifactory, history, own,
                   seederVars, listed>>

Prepare == \/ WriteEnvFile \/ ComposeUp \/ WaitForHealthy \/ ChangePassword
           \/ SetBaseURL \/ GenerateToken \/ BuildServer

Measure == \/ NextScale
           \/ StartServer("start", "await") \/ AwaitServer("await", "seed")
           \/ Seed \/ Seeded \/ SeedingFails
           \/ Stops("stopSeeded", "startup") /\ UNCHANGED level
           \/ BenchmarkStartup
           \/ StartServer("restart", "reawait") \/ AwaitServer("reawait", "query")
           \/ Benchmark("query", "stopMeasured") \/ BenchmarkFails
           \/ Stops("stopMeasured", "scale") /\ level' = level + 1
           \/ StartServer("startLast", "awaitLast") \/ AwaitServer("awaitLast", "publish")
           \/ BenchmarkLast("publish", "results") \/ BenchmarkLast("results", "stop")

Run == Prepare \/ Measure \/ Cleanup
Rest == pc \in Ended /\ runs = MaxRuns /\ UNCHANGED vars

Next == \/ Begin \/ Run \/ (\E w \in Workers : SeederStep(w))
        \/ ServerListens \/ ServerDies \/ Interrupt
        \/ PortTaken \/ PortFreed \/ Rest

\* Every command and request of a run comes back, and goroutines are scheduled.
Fairness == WF_vars(Run) /\ \A w \in Workers : WF_vars(SeederStep(w))

Spec == Init /\ [][Next]_vars /\ Fairness

-----------------------------------------------------------------------------
\* A seeding that reports success has put the packages up to its scale into the
\* repository, all of them and nothing else; until then every number is in the
\* channel, with a worker, or counted (seed.go:226-264, main.go:131-145).
SeedExact ==
    portClear /\ pc = "seeding" =>
        /\ published + errCount + Len(work) + Cardinality(Busy)
              = Counts[level] - seeded
        /\ Waited /\ SeederSucceeds => stored = 0 .. Counts[level] - 1

\* Each query benchmark runs at its scale: the server that answers lists as many
\* packages as the result says, provided no process of others had the port while
\* the run lasted (main.go:124-161).
AtScale == portClear => \A m \in measured : m.packages = m.count

\* Each query benchmark is answered by the server this run built and started,
\* under the same condition (main.go:206-244).
OwnServer == portClear => \A m \in measured : m.by = "own"

\* However a run ends, short of being killed, it has stopped the server it
\* started itself, and whatever else of it is left is what a call whose error
\* nobody looks at has failed to remove: files os.Remove refused to delete,
\* containers docker compose down did not take down, and the server of a
\* TestPerfStartupIndexing that failed, which cleanup does not know of
\* (main.go:53-60, 180-204).  perf-test/README.md promises the clean-up (:5) and
\* the end of the server (:72) without those exceptions.
CleansUp ==
    pc = "ended" => /\ own = "none"
                    /\ files \subseteq failed
                    /\ containers = "up" => ComposeDown \in failed
                    /\ port = "test" => StartupTest \in failed

\* Every run ends: retries and waits are bounded, and the seeder's workers run
\* out of work (main.go:53-178).
RunEnds == []<>(pc \in Ended)

=============================================================================
