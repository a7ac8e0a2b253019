------------------------- MODULE OrchestratorProofs -------------------------
(* Proofs about Orchestrator, for any scales, any number of workers, retries *)
(* and runs: what a benchmark measures, and what a run leaves behind.        *)
EXTENDS Orchestrator, SequenceTheorems, FiniteSetTheorems, TLAPS

(* The inductive invariant.                                                  *)

\* The steps of a run, in the code's order.
Unprepared == {"env", "up", "healthy", "password"}
Prepared == {"baseURL", "token", "build"}
Seeding == {"start", "await", "seed", "seeding"}
Measuring == {"stopSeeded", "startup", "restart", "reawait", "query", "stopMeasured"}
Last == {"startLast", "awaitLast", "publish", "results"}
Working == Unprepared \cup Prepared \cup {"scale"} \cup Seeding \cup Measuring \cup Last
Leaving == {"stop", "down", "remove"}

Typed ==
    /\ TypeOK
    /\ pc \in Working \cup Leaving \cup Ended
    /\ level \in Nat /\ seeded \in Nat
    /\ portClear \in BOOLEAN
    /\ work \in Seq(Nat)
    /\ running \subseteq Workers
    /\ doing \in [Workers -> Nat \cup {Resting}]
    /\ pc # "seeding" => \A w \in Workers : doing[w] = Resting
    /\ published \in Nat /\ errCount \in Nat

\* When no server of the run is there, and what cleanup has done at each step.
Cleaned ==
    /\ pc \in Ended \cup Unprepared \cup Prepared
              \cup {"scale", "start", "startup", "restart", "startLast", "down", "remove"}
           => own = "none"
    /\ pc \in {"remove", "ended"} /\ containers = "up" => ComposeDown \in failed
    /\ pc = "ended" => files \subseteq failed
    /\ port = "test" => StartupTest \in failed

\* Each scale is seeded on top of the one before.
Levels ==
    /\ pc \in Unprepared \cup Prepared => level = 1 /\ seeded = 0
    /\ pc \in Seeding \cup Measuring => level <= Len(Counts)
    /\ pc = "scale" /\ level <= Len(Counts) => seeded <= Counts[level]
    /\ pc \in Seeding => seeded <= Counts[level]
    /\ pc \in Measuring => seeded = Counts[level]

\* A run that gets past the password change found the default password, so an
\* Artifactory in which no earlier run has published: packages are only there
\* once the password is changed.  From then on the repository has what was
\* seeded.
Repository ==
    /\ stored # {} => password = "changed"
    /\ pc \in Working \ {"env", "up"} => containers = "up"
    /\ pc \in Working \ Unprepared => password = "changed"
    /\ portClear /\ pc \in Prepared \cup {"scale"} \cup (Seeding \ {"seeding"}) \cup Measuring
           => stored = 0 .. seeded - 1

\* A port that others leave alone is the run's own server's or nobody's, and one
\* its test left there ends the run.
PortKept ==
    pc \in Working => port # "test" /\ (portClear => port # "other")

\* A server started on the seeded repository lists what is there.
ListingWhole ==
    pc \in {"reawait", "query", "stopMeasured"} /\ own = "serving" => listed = stored

Queued == {work[i] : i \in DOMAIN work}
InHand == {doing[w] : w \in Busy}

\* Every number is in the channel, with a worker, or done.
SeederKept ==
    pc = "seeding" =>
        /\ Busy \subseteq running
        /\ running # Workers => work = <<>>
        /\ IsFiniteSet(Busy)
        /\ published + errCount + Len(work) + Cardinality(Busy) = Counts[level] - seeded
        /\ portClear /\ errCount = 0 =>
               stored \cup Queued \cup InHand = 0 .. Counts[level] - 1

Measured ==
    portClear => \A m \in measured : m.by = "own" /\ m.packages = m.count

Inv ==
    /\ Typed /\ Cleaned /\ Levels /\ Repository /\ PortKept /\ ListingWhole
    /\ SeederKept /\ Measured

-----------------------------------------------------------------------------
(* The scales.                                                               *)

LEMMA CountsTypes ==
    /\ Len(Counts) \in Nat
    /\ \A n \in Nat : 1 <= n /\ n <= Len(Counts) => Counts[n] \in Nat
    /\ \A n \in Nat : 1 <= n /\ n + 1 <= Len(Counts) => Counts[n] <= Counts[n + 1]
<1>1. /\ Len(Counts) \in Nat /\ DOMAIN Counts = 1 .. Len(Counts)
      /\ \A n \in 1 .. Len(Counts) : Counts[n] \in Nat
  BY CountsAssumption, LenProperties, ElementOfSeq
<1>2. ASSUME NEW n \in Nat, 1 <= n, n + 1 <= Len(Counts)
      PROVE  Counts[n] <= Counts[n + 1]
  <2>1. n \in DOMAIN Counts /\ n + 1 \in DOMAIN Counts /\ n < n + 1
    BY <1>1, <1>2
  <2>2. QED
    BY <2>1, CountsAssumption
<1>3. QED
  BY <1>1, <1>2

-----------------------------------------------------------------------------
(* The invariant holds initially and every step keeps it.                    *)

LEMMA InitInv == Init => Inv
<1> SUFFICES ASSUME Init PROVE Inv
  OBVIOUS
<1>1. Typed
  <2>1. level \in 1 .. Len(Counts) + 1 /\ attempts \in 0 .. MaxAttempts
    BY CountsTypes, CountsAssumption DEF Init
  <2>2. work \in Seq(Nat) /\ doing \in [Workers -> Nat \cup {Resting}]
    BY EmptySeq DEF Init, SeederInit
  <2>3. QED
    BY <2>1, <2>2 DEF Init, SeederInit, Typed, TypeOK, Ended
<1>2. Cleaned /\ Levels /\ Repository /\ PortKept /\ ListingWhole /\ SeederKept /\ Measured
  BY DEF Init, Cleaned, Levels, Repository, PortKept, ListingWhole, SeederKept, Measured,
         Unprepared, Prepared, Seeding, Measuring, Last, Working
<1>3. QED
  BY <1>1, <1>2 DEF Inv

\* A step outside the seeding that changes neither scale nor repository nor
\* server nor what is measured.
Quiet ==
    /\ UNCHANGED <<level, seeded, containers, password, stored, own, port, listed, measured,
                   portClear, failed, seederVars>>
    /\ exitCode' \in {0, 1} /\ attempts' \in 0 .. MaxAttempts
    /\ files' \subseteq Files

\* Where such steps lead.
Follows(from, to) ==
    \/ from = "env" /\ to = "up"
    \/ from = "healthy" /\ to = "password"
    \/ from = "baseURL" /\ to = "token"
    \/ from = "token" /\ to = "build"
    \/ from = "build" /\ to = "scale"
    \/ from = "await" /\ to = "seed"
    \/ from = "startup" /\ to = "restart"
    \/ from = "reawait" /\ to = "query"
    \/ from = "awaitLast" /\ to = "publish"
    \/ from = "publish" /\ to = "results"
    \/ from = "results" /\ to = "stop"
    \/ from \in Working \ {"seeding"} /\ to = "stop"

LEMMA QuietKeeps ==
    ASSUME Inv, Quiet, Follows(pc, pc')
    PROVE  Inv'
<1> USE DEF Unprepared, Prepared, Seeding, Measuring, Last, Working, Leaving, Ended, seederVars
<1>1. Typed'
  BY DEF Inv, Typed, TypeOK, Quiet, Follows
<1>2. Cleaned' /\ PortKept' /\ ListingWhole'
  BY DEF Inv, Typed, Cleaned, PortKept, ListingWhole, Quiet, Follows
<1>3. Levels'
  BY CountsTypes DEF Inv, Typed, Levels, Quiet, Follows
<1>4. Repository'
  BY DEF Inv, Repository, Quiet, Follows
<1>5. SeederKept' /\ Measured'
  BY DEF Inv, SeederKept, Measured, Quiet, Follows
<1>6. QED
  BY <1>1, <1>2, <1>3, <1>4, <1>5 DEF Inv

\* The steps of Run that are quiet.
LEMMA WritesKeeps ==
    ASSUME Inv, NEW step, NEW next, NEW file \in Files,
           Writes(step, next, file), Aside,
           Follows(step, next), step \in Working \ {"seeding"}
    PROVE  Inv'
<1>1. Quiet
  BY DEF Quiet, Writes, Aside, Outcome, progress, artifactory, Inv, Typed, TypeOK
<1>2. Follows(pc, pc')
  BY DEF Writes, Outcome, Follows
<1>3. QED
  BY <1>1, <1>2, QuietKeeps

LEMMA AsksKeeps ==
    ASSUME Inv, NEW step, NEW next, Asks(step, next) \/ AwaitServer(step, next),
           Follows(step, next), step \in Working \ {"seeding"}
    PROVE  Inv'
<1>1. Quiet
  BY DEF Quiet, Asks, AwaitServer, Outcome, progress, artifactory, server, history, Inv,
         Typed, TypeOK
<1>2. Follows(pc, pc')
  BY DEF Asks, AwaitServer, Outcome, Follows
<1>3. QED
  BY <1>1, <1>2, QuietKeeps

LEMMA BenchmarkFailsKeeps ==
    ASSUME Inv, BenchmarkFails
    PROVE  Inv'
<1>1. Quiet
  BY DEF Quiet, BenchmarkFails, Outcome, progress, artifactory, server, history, Inv,
         Typed, TypeOK
<1>2. Follows(pc, pc')
  BY DEF BenchmarkFails, Outcome, Follows, Working, Measuring
<1>3. QED
  BY <1>1, <1>2, QuietKeeps

LEMMA BenchmarkStartupKeeps ==
    ASSUME Inv, BenchmarkStartup
    PROVE  Inv'
<1> USE DEF Unprepared, Prepared, Seeding, Measuring, Last, Working, Leaving, Ended
<1>1. /\ UNCHANGED <<level, seeded, attempts, containers, password, stored, own, listed,
                     measured, portClear, runs, seederVars>>
      /\ exitCode' \in {0, 1} /\ files' \subseteq Files
      /\ pc = "startup" /\ own = "none"
      /\ \/ pc' = "restart" /\ UNCHANGED <<failed, port>>
         \/ /\ pc' = "stop" /\ failed' = failed \cup {StartupTest}
            /\ port' = port \/ (port = "nobody" /\ port' = "test")
  BY DEF BenchmarkStartup, Writes, Outcome, progress, artifactory, Inv, Typed, TypeOK, Cleaned,
         Files
<1>2. Typed'
  <2>1. failed' \subseteq Files \cup {ComposeDown, StartupTest}
    BY <1>1 DEF Inv, Typed, TypeOK
  <2>2. /\ port' \in {"nobody", "own", "test", "other"} /\ (port' = "own" <=> own' = "serving")
        /\ running' = {}
    BY <1>1 DEF Inv, Typed, TypeOK, seederVars
  <2>3. QED
    BY <1>1, <2>1, <2>2 DEF Inv, Typed, TypeOK, seederVars
<1>3. Cleaned' /\ PortKept' /\ ListingWhole'
  BY <1>1 DEF Inv, Typed, TypeOK, Cleaned, PortKept, ListingWhole
<1>4. QED
  BY <1>1, <1>2, <1>3 DEF Inv, Levels, Repository, SeederKept, Measured

\* The run gets to its first step, through the password change and round the loop.
LEMMA BeginKeeps ==
    ASSUME Inv, Begin
    PROVE  Inv'
<1> USE DEF Unprepared, Prepared, Seeding, Measuring, Last, Working, Leaving, Ended
<1>1. /\ pc \in Ended /\ pc' = "env" /\ exitCode' = 0
      /\ level' = 1 /\ seeded' = 0 /\ attempts' = 0 /\ measured' = {}
      /\ files' \subseteq files /\ failed' = {}
      /\ port' = (IF port = "test" THEN "other" ELSE port)
      /\ portClear' = (port = "nobody")
      /\ UNCHANGED <<own, listed, seederVars>>
  BY DEF Begin
<1>2. \/ containers' = "down" /\ password' = "default" /\ stored' = {}
      \/ UNCHANGED <<containers, password, stored>>
  BY DEF Begin, Down
<1>3. Typed'
  <2>1. level' \in 1 .. Len(Counts) + 1 /\ attempts' \in 0 .. MaxAttempts
    BY <1>1, CountsTypes, CountsAssumption
  <2>2. QED
    BY <1>1, <1>2, <2>1 DEF Inv, Typed, TypeOK, seederVars
<1>4. QED
  BY <1>1, <1>2, <1>3
  DEF Inv, Typed, Cleaned, Levels, Repository, PortKept, ListingWhole, SeederKept, Measured

LEMMA ComposeUpKeeps ==
    ASSUME Inv, ComposeUp
    PROVE  Inv'
<1> USE DEF Unprepared, Prepared, Seeding, Measuring, Last, Working, Leaving, Ended
<1>1. /\ UNCHANGED <<level, seeded, attempts, files, failed, portClear, measured, runs,
                     password, own, port, listed, seederVars, stored>>
      /\ containers' \in {containers, "up"} /\ exitCode' \in {0, 1}
      /\ pc = "up"
      /\ (pc' = "healthy" /\ containers' = "up") \/ pc' = "stop"
  BY DEF ComposeUp, Outcome, progress, history, server, Inv, Typed, TypeOK
<1>2. Typed'
  BY <1>1 DEF Inv, Typed, TypeOK, seederVars
<1>3. QED
  BY <1>1, <1>2
  DEF Inv, Cleaned, Levels, Repository, PortKept, ListingWhole, SeederKept, Measured

LEMMA ChangePasswordKeeps ==
    ASSUME Inv, ChangePassword
    PROVE  Inv'
<1> USE DEF Unprepared, Prepared, Seeding, Measuring, Last, Working, Leaving, Ended
<1>1. /\ UNCHANGED <<level, seeded, files, containers, failed, portClear, measured,
                     runs, own, port, listed, seederVars, stored>>
      /\ pc = "password" /\ exitCode' \in {0, 1} /\ attempts' \in 0 .. MaxAttempts
      /\ \/ pc' = "baseURL" /\ password = "default" /\ password' = "changed"
         \/ pc' \in {"password", "stop"} /\ password' \in {password, "changed"}
  BY CountsAssumption
  DEF ChangePassword, Outcome, progress, history, server, Inv, Typed, TypeOK
<1>2. Typed' 
  BY <1>1 DEF Inv, Typed, TypeOK, Repository, seederVars
<1>3. Repository'
  BY <1>1 DEF Inv, Typed, Levels, Repository
<1>4. QED
  BY <1>1, <1>2, <1>3
  DEF Inv, Cleaned, Levels, PortKept, ListingWhole, SeederKept, Measured

LEMMA NextScaleKeeps ==
    ASSUME Inv, NextScale
    PROVE  Inv'
<1> USE DEF Unprepared, Prepared, Seeding, Measuring, Last, Working, Leaving, Ended
<1>1. /\ UNCHANGED <<level, seeded, attempts, files, containers, password, stored, failed,
                     portClear, measured, runs, own, port, listed, seederVars, exitCode>>
      /\ pc = "scale"
      /\ (pc' = "start" /\ level <= Len(Counts)) \/ pc' = "startLast"
  BY DEF NextScale, progress, artifactory, history, server
<1>2. Typed'
  BY <1>1 DEF Inv, Typed, TypeOK, seederVars
<1>3. QED
  BY <1>1, <1>2
  DEF Inv, Cleaned, Levels, Repository, PortKept, ListingWhole, SeederKept, Measured

-----------------------------------------------------------------------------
(* The server and its port.                                                  *)

LEMMA StartServerKeeps ==
    ASSUME Inv, NEW step, NEW next, StartServer(step, next),
           \/ step = "start" /\ next = "await"
           \/ step = "restart" /\ next = "reawait"
           \/ step = "startLast" /\ next = "awaitLast"
    PROVE  Inv'
<1> USE DEF Unprepared, Prepared, Seeding, Measuring, Last, Working, Leaving, Ended
<1>1. /\ UNCHANGED <<level, seeded, attempts, files, containers, password, stored, failed,
                     portClear, measured, runs, port, seederVars>>
      /\ pc = step /\ exitCode' \in {0, 1}
      /\ (pc' = next /\ own' = "starting") \/ (pc' = "stop" /\ own' = "none")
  BY DEF StartServer, Outcome, progress, artifactory, history, Inv, Typed, TypeOK
<1>2. Typed'
  <2>1. own = "none"
    BY <1>1 DEF Inv, Cleaned
  <2>2. QED
    BY <1>1, <2>1 DEF Inv, Typed, TypeOK, seederVars
<1>3. QED
  BY <1>1, <1>2
  DEF Inv, Cleaned, Levels, Repository, PortKept, ListingWhole, SeederKept, Measured

LEMMA ServerKeeps ==
    ASSUME Inv, ServerListens \/ ServerDies \/ PortTaken \/ PortFreed
    PROVE  Inv'
<1> USE DEF Unprepared, Prepared, Seeding, Measuring, Last, Working, Leaving, Ended
<1>1. /\ UNCHANGED <<pc, exitCode, level, seeded, attempts, files, containers, password,
                     stored, failed, measured, runs, seederVars>>
      /\ portClear' = portClear \/ portClear' = FALSE
      /\ \/ own = "starting" /\ own' = "serving" /\ port' = "own" /\ listed' = stored
         \/ /\ own \in {"starting", "serving"} /\ own' = "exited" /\ UNCHANGED listed
            /\ port' = IF port = "own" THEN "nobody" ELSE port
         \/ port \in {"other", "test"} /\ port' = "nobody" /\ UNCHANGED <<own, listed>>
         \/ /\ port = "nobody" /\ port' = "other" /\ UNCHANGED <<own, listed>>
            /\ portClear' = FALSE
  BY DEF ServerListens, ServerDies, PortTaken, PortFreed, Freed, progress, artifactory, history
<1>2. portClear' \in BOOLEAN /\ (portClear' => portClear)
  <2>1. portClear' = portClear \/ portClear' = FALSE
    BY <1>1
  <2>2. portClear \in BOOLEAN
    BY DEF Inv, Typed
  <2>3. CASE portClear' = portClear
    BY <2>2, <2>3, Zenon
  <2>4. CASE portClear' = FALSE
    BY <2>4, Zenon
  <2>5. QED
    BY <2>1, <2>3, <2>4, Zenon
<1>3. Typed'
  <2>1. TypeOK'
    BY <1>1 DEF Inv, Typed, TypeOK, seederVars
  <2>2. QED
    BY <1>1, <1>2, <2>1, Zenon DEF Inv, Typed, seederVars
<1>4. SeederKept'
  BY <1>1, <1>2 DEF Inv, SeederKept, Busy, Queued, InHand, seederVars
<1>5. QED
  BY <1>1, <1>2, <1>3, <1>4
  DEF Inv, Cleaned, Levels, Repository, PortKept, ListingWhole, Measured

LEMMA StopsKeeps ==
    ASSUME Inv, NEW step, NEW next, Stops(step, next),
           \/ step = "stopSeeded" /\ next = "startup" /\ UNCHANGED level
           \/ step = "stopMeasured" /\ next = "scale" /\ level' = level + 1
           \/ step = "stop" /\ next = "down" /\ UNCHANGED level
    PROVE  Inv'
<1> USE DEF Unprepared, Prepared, Seeding, Measuring, Last, Working, Leaving, Ended
<1>1. /\ UNCHANGED <<exitCode, seeded, attempts, files, containers, password, stored,
                     failed, portClear, measured, runs, listed, seederVars>>
      /\ pc = step /\ pc' = next /\ own' = "none"
      /\ port' = IF port = "own" THEN "nobody" ELSE port
  BY DEF Stops, StopServer, Freed, artifactory, history
<1>2. Typed'
  <2>1. level' \in 1 .. Len(Counts) + 1
    BY <1>1, CountsTypes DEF Inv, Typed, TypeOK, Levels
  <2>2. QED
    BY <1>1, <2>1, CountsTypes DEF Inv, Typed, TypeOK, seederVars
<1>3. Levels'
  BY <1>1, CountsTypes DEF Inv, Typed, TypeOK, Levels
<1>4. QED
  BY <1>1, <1>2, <1>3
  DEF Inv, Cleaned, Repository, PortKept, ListingWhole, SeederKept, Measured

-----------------------------------------------------------------------------
(* The end of a run.                                                         *)

LEMMA CleanupKeeps ==
    ASSUME Inv, Cleanup
    PROVE  Inv'
<1> USE DEF Unprepared, Prepared, Seeding, Measuring, Last, Working, Leaving, Ended
<1>1. CASE Stops("stop", "down") /\ UNCHANGED level
  BY <1>1, StopsKeeps
<1>2. CASE pc = "down"
  <2>1. /\ UNCHANGED <<exitCode, level, seeded, attempts, files, own, port, listed,
                       portClear, measured, runs, seederVars>>
        /\ pc' = "remove"
        /\ \/ /\ containers' = "down" /\ password' = "default" /\ stored' = {}
              /\ failed' = failed
           \/ UNCHANGED <<containers, password, stored>> /\ failed' = failed \cup {ComposeDown}
    BY <1>2 DEF Cleanup, Stops, Down, progress, server
  <2>2. Typed'
    BY <1>2, <2>1 DEF Inv, Typed, TypeOK, seederVars
  <2>3. QED
    BY <1>2, <2>1, <2>2
    DEF Inv, Cleaned, Levels, Repository, PortKept, ListingWhole, SeederKept, Measured
<1>3. CASE pc = "remove"
  <2>1. /\ UNCHANGED <<exitCode, level, seeded, attempts, own, port, listed, containers,
                       password, stored, portClear, measured, runs, seederVars>>
        /\ pc' = "ended" /\ files' \subseteq files /\ failed' = failed \cup files'
    BY <1>3 DEF Cleanup, Stops, progress, server, artifactory
  <2>2. Typed'
    BY <1>3, <2>1 DEF Inv, Typed, TypeOK, seederVars
  <2>3. QED
    BY <1>3, <2>1, <2>2
    DEF Inv, Cleaned, Levels, Repository, PortKept, ListingWhole, SeederKept, Measured
<1>4. QED
  BY <1>1, <1>2, <1>3 DEF Cleanup

\* What the seeder leaves when it is gone.
LEMMA SeederGoneTypes ==
    ASSUME Inv, SeederGone
    PROVE  /\ running' = {} /\ doing' \in [Workers -> Nat \cup {Resting}]
           /\ \A w \in Workers : doing'[w] = Resting
           /\ UNCHANGED <<work, published, errCount>>
           /\ stored' = stored \/ pc = "seeding"
<1>1. ASSUME pc # "seeding"
      PROVE  Busy = {}
  BY <1>1 DEF Inv, Typed, Busy
<1>2. Busy = {} => stored' = stored
  BY DEF SeederGone
<1>3. QED
  BY <1>1, <1>2 DEF SeederGone

LEMMA InterruptKeeps ==
    ASSUME Inv, Interrupt
    PROVE  Inv'
<1> USE DEF Unprepared, Prepared, Seeding, Measuring, Last, Working, Leaving, Ended
<1>1. /\ UNCHANGED <<exitCode, level, seeded, attempts, files, containers, password,
                     failed, portClear, measured, runs, work, published, errCount, listed>>
      /\ pc' = "killed" /\ own' = "none" /\ port' \in {"nobody", "test", "other"}
      /\ port' = "test" => port = "test"
  BY DEF Interrupt, SeederGone, Freed, progress, history, Inv, Typed, TypeOK
<1>2. /\ running' = {} /\ doing' \in [Workers -> Nat \cup {Resting}]
      /\ \A w \in Workers : doing'[w] = Resting
      /\ stored' = stored \/ (containers = "up" /\ password = "changed")
  BY SeederGoneTypes DEF Interrupt, Inv, Repository
<1>3. Typed'
  BY <1>1, <1>2 DEF Inv, Typed, TypeOK
<1>4. QED
  BY <1>1, <1>2, <1>3
  DEF Inv, Cleaned, Levels, Repository, PortKept, ListingWhole, SeederKept, Measured

LEMMA SeedingFailsKeeps ==
    ASSUME Inv, SeedingFails
    PROVE  Inv'
<1> USE DEF Unprepared, Prepared, Seeding, Measuring, Last, Working, Leaving, Ended
<1>1. /\ UNCHANGED <<level, seeded, attempts, files, containers, password, failed, portClear,
                     measured, runs, own, port, listed, work, published, errCount>>
      /\ pc = "seeding" /\ pc' = "stop" /\ exitCode' = 1
      /\ running' = {} /\ doing' \in [Workers -> Nat \cup {Resting}]
      /\ \A w \in Workers : doing'[w] = Resting
  BY SeederGoneTypes DEF SeedingFails, Outcome, progress, history, server
<1>2. Typed'
  BY <1>1 DEF Inv, Typed, TypeOK, Repository
<1>3. QED
  BY <1>1, <1>2
  DEF Inv, Cleaned, Levels, Repository, PortKept, ListingWhole, SeederKept, Measured

-----------------------------------------------------------------------------
(* The seeding.                                                              *)

\* The numbers of a seeding continue those before it.
LEMMA Continues ==
    ASSUME NEW s \in Nat, NEW c \in Nat, s <= c
    PROVE  (0 .. s - 1) \cup {s + i - 1 : i \in 1 .. c - s} = 0 .. c - 1
<1>1. ASSUME NEW n \in s .. c - 1
      PROVE  n \in {s + i - 1 : i \in 1 .. c - s}
  <2>1. n - s + 1 \in 1 .. c - s /\ n = s + (n - s + 1) - 1
    OBVIOUS
  <2>2. QED
    BY <2>1
<1>2. ASSUME NEW i \in 1 .. c - s
      PROVE  s + i - 1 \in 0 .. c - 1
  OBVIOUS
<1>3. 0 .. c - 1 = (0 .. s - 1) \cup (s .. c - 1)
  OBVIOUS
<1>4. (0 .. s - 1) \subseteq 0 .. c - 1
  OBVIOUS
<1>5. QED
  BY <1>1, <1>2, <1>3, <1>4

LEMMA SeedKeeps ==
    ASSUME Inv, Seed
    PROVE  Inv'
<1> USE DEF Unprepared, Prepared, Seeding, Measuring, Last, Working, Leaving, Ended
<1> DEFINE C == Counts[level]
<1>1. /\ UNCHANGED <<exitCode, level, seeded, attempts, files, containers, password, stored,
                     failed, portClear, measured, runs, own, port, listed>>
      /\ pc = "seed" /\ seeded \in Nat /\ level \in Nat /\ seeded <= C
  BY DEF Seed, progress, artifactory, history, server, Inv, Typed, Levels
<1>2. C \in Nat /\ level' = level /\ level <= Len(Counts)
  BY <1>1, CountsTypes DEF Inv, Typed, TypeOK, Levels
<1>3. CASE ToSeed > 0
  <2>1. /\ pc' = "seeding" /\ running' = Workers
        /\ work' = [i \in 1 .. C - seeded |-> seeded + i - 1]
        /\ doing' = [w \in Workers |-> Resting]
        /\ published' = 0 /\ errCount' = 0
    BY <1>1, <1>3 DEF Seed, StartSeeder, ToSeed
  <2>2. C - seeded \in Nat /\ \A i \in 1 .. C - seeded : seeded + i - 1 \in Nat
    BY <1>1, <1>2
  <2>3. work' \in Seq(Nat) /\ Len(work') = C - seeded
    BY <2>1, <2>2, Z3
  <2>4. Typed'
    BY <1>1, <2>1, <2>3 DEF Inv, Typed, TypeOK
  <2>5. Busy' = {}
    BY <2>1 DEF Busy
  <2>6. stored' \cup Queued' \cup InHand' = stored \cup {seeded + i - 1 : i \in 1 .. C - seeded}
    BY <1>1, <2>1, <2>5 DEF Queued, InHand
  <2>7. SeederKept'
    <3>1. portClear => stored' \cup Queued' \cup InHand' = 0 .. C - 1
      BY <1>1, <1>2, <2>6, Continues DEF Inv, Repository
    <3>2. IsFiniteSet(Busy') /\ Cardinality(Busy') = 0
      BY <2>5, FS_EmptySet
    <3>3. published' + errCount' + Len(work') + Cardinality(Busy') = C - seeded
      BY <1>1, <1>2, <2>1, <2>3, <3>2
    <3>4. QED
      BY <1>1, <1>2, <2>1, <2>5, <3>1, <3>2, <3>3 DEF SeederKept
  <2>8. QED
    BY <1>1, <2>1, <2>4, <2>7
    DEF Inv, Cleaned, Levels, Repository, PortKept, ListingWhole, Measured
<1>4. CASE ~(ToSeed > 0)
  <2>1. pc' = "stopSeeded" /\ UNCHANGED seederVars /\ seeded = C
    BY <1>1, <1>2, <1>4 DEF Seed, ToSeed
  <2>2. Typed'
    BY <1>1, <2>1 DEF Inv, Typed, TypeOK, seederVars
  <2>3. QED
    BY <1>1, <1>2, <2>1, <2>2
    DEF Inv, Cleaned, Levels, Repository, PortKept, ListingWhole, SeederKept, Measured
<1>5. QED
  BY <1>3, <1>4

\* What a step of a worker leaves alone, and what it knows.
LEMMA SeederStepTypes ==
    ASSUME Inv, NEW w \in Workers, SeederStep(w)
    PROVE  /\ UNCHANGED <<pc, exitCode, level, seeded, attempts, files, containers, password,
                          own, port, failed, portClear, measured, runs>>
           /\ pc = "seeding" /\ containers = "up" /\ password = "changed"
           /\ IsFiniteSet(Busy) /\ Cardinality(Busy) \in Nat
           /\ Len(work) \in Nat /\ Counts[level] \in Nat
<1>1. /\ UNCHANGED <<pc, exitCode, level, seeded, attempts, files, containers, password,
                     own, port, failed, portClear, measured, runs>>
      /\ pc = "seeding"
  BY DEF SeederStep, progress, history
<1>2. containers = "up" /\ password = "changed" /\ level <= Len(Counts)
  BY <1>1 DEF Inv, Levels, Repository, Unprepared, Prepared, Seeding, Measuring, Last, Working
<1>3. IsFiniteSet(Busy) /\ Cardinality(Busy) \in Nat
  BY <1>1, FS_CardinalityType DEF Inv, SeederKept
<1>4. Len(work) \in Nat
  BY LenProperties DEF Inv, Typed
<1>5. Counts[level] \in Nat
  BY <1>2, CountsTypes DEF Inv, Typed, TypeOK
<1>6. QED
  BY <1>1, <1>2, <1>3, <1>4, <1>5

\* Everything but the seeder's own invariant.
LEMMA SeederStepKeeps ==
    ASSUME Inv, NEW w \in Workers, SeederStep(w), SeederKept',
           work' \in Seq(Nat), running' \subseteq Workers,
           doing' \in [Workers -> Nat \cup {Resting}],
           published' \in Nat, errCount' \in Nat
    PROVE  Inv'
<1> USE DEF Unprepared, Prepared, Seeding, Measuring, Last, Working, Leaving, Ended
<1>1. Typed'
  BY SeederStepTypes DEF Inv, Typed, TypeOK
<1>2. QED
  BY <1>1, SeederStepTypes
  DEF Inv, Cleaned, Levels, Repository, PortKept, ListingWhole, Measured

LEMMA TakeKeeps ==
    ASSUME Inv, NEW w \in Workers, SeederStep(w), Take(w)
    PROVE  Inv'
<1>1. /\ w \in running /\ w \notin Busy
      /\ UNCHANGED <<published, errCount, stored, portClear, seeded, level, pc>>
      /\ pc = "seeding" /\ IsFiniteSet(Busy) /\ Cardinality(Busy) \in Nat
      /\ Len(work) \in Nat /\ Counts[level] \in Nat /\ Counts[level]' = Counts[level]
  BY SeederStepTypes DEF Take, Busy
<1>2. /\ work \in Seq(Nat) /\ published \in Nat /\ errCount \in Nat
      /\ doing \in [Workers -> Nat \cup {Resting}] /\ running \subseteq Workers
  BY DEF Inv, Typed
<1>3. /\ Busy \subseteq running
      /\ running # Workers => work = <<>>
      /\ published + errCount + Len(work) + Cardinality(Busy) = Counts[level] - seeded
      /\ portClear /\ errCount = 0 =>
             stored \cup Queued \cup InHand = 0 .. Counts[level] - 1
  BY <1>1 DEF Inv, SeederKept
<1>4. CASE work # <<>>
  <2>1. /\ doing' = [doing EXCEPT ![w] = Head(work)] /\ work' = Tail(work)
        /\ running' = running
    BY <1>4 DEF Take
  <2>2. /\ Head(work) \in Nat /\ Tail(work) \in Seq(Nat) /\ Len(Tail(work)) = Len(work) - 1
        /\ \A i \in 1 .. Len(Tail(work)) : Tail(work)[i] = work[i + 1]
        /\ DOMAIN work = 1 .. Len(work) /\ DOMAIN Tail(work) = 1 .. Len(Tail(work))
        /\ Head(work) = work[1] /\ Len(work) >= 1
    BY <1>1, <1>2, <1>4, HeadTailProperties, LenProperties, EmptySeq
  <2>3. Busy' = Busy \cup {w}
    BY <1>2, <2>1, <2>2, WorkersAssumption DEF Busy
  <2>4. IsFiniteSet(Busy') /\ Cardinality(Busy') = Cardinality(Busy) + 1
    BY <1>1, <2>3, FS_AddElement
  <2>5. Queued = Queued' \cup {Head(work)}
    <3>1. Queued' \subseteq Queued
      BY <2>1, <2>2 DEF Queued
    <3>2. ASSUME NEW i \in 1 .. Len(work), i # 1
          PROVE  work[i] \in Queued'
      <4>1. i - 1 \in 1 .. Len(Tail(work)) /\ Tail(work)[i - 1] = work[i]
        BY <2>2, <3>2, <1>1
      <4>2. QED
        BY <2>1, <2>2, <4>1 DEF Queued
    <3>3. Head(work) \in Queued
      BY <1>1, <2>2 DEF Queued
    <3>4. QED
      BY <2>2, <3>1, <3>2, <3>3 DEF Queued
  <2>6. InHand' = InHand \cup {Head(work)}
    BY <1>1, <1>2, <2>1, <2>3 DEF InHand, Busy
  <2>7. stored' \cup Queued' \cup InHand' = stored \cup Queued \cup InHand
    BY <1>1, <2>5, <2>6
  <2>8. Len(work') = Len(work) - 1
    BY <2>1, <2>2
  <2>9. SeederKept'
    <3>1. published' + errCount' + Len(work') + Cardinality(Busy') = Counts[level]' - seeded'
      BY <1>1, <1>2, <1>3, <2>4, <2>8
    <3>2. Busy' \subseteq running' /\ (running' # Workers => work' = <<>>)
      BY <1>1, <1>3, <1>4, <2>1, <2>3
    <3>3. QED
      BY <1>1, <1>3, <2>4, <2>7, <3>1, <3>2 DEF SeederKept
  <2>10. QED
    BY <1>1, <1>2, <2>1, <2>2, <2>9, SeederStepKeeps
<1>5. CASE work = <<>>
  <2>1. running' = running \ {w} /\ UNCHANGED <<doing, work>>
    BY <1>5 DEF Take
  <2>2. UNCHANGED <<Busy, Queued, InHand>>
    BY <2>1 DEF Busy, Queued, InHand
  <2>3. SeederKept'
    BY <1>1, <1>3, <1>5, <2>1, <2>2 DEF SeederKept
  <2>4. QED
    BY <1>1, <1>2, <2>1, <2>3, SeederStepKeeps
<1>6. QED
  BY <1>4, <1>5

LEMMA OneLess ==
    ASSUME NEW done \in Nat, NEW queue \in Nat, NEW busy \in Nat
    PROVE  (done + 1) + queue + (busy - 1) = done + queue + busy
OBVIOUS

LEMMA PublishedKeeps ==
    ASSUME Inv, NEW w \in Workers, SeederStep(w),
           \/ port # "nobody" /\ Created(w, port = "own")
           \/ NotCreated(w, port = "own")
    PROVE  Inv'
<1>1. /\ w \in Busy
      /\ doing' = [doing EXCEPT ![w] = Resting]
      /\ UNCHANGED <<work, running, portClear, seeded, level, pc>>
      /\ pc = "seeding" /\ IsFiniteSet(Busy) /\ Cardinality(Busy) \in Nat
      /\ Len(work) \in Nat /\ Counts[level] \in Nat /\ Counts[level]' = Counts[level]
  BY SeederStepTypes DEF Created, NotCreated, Busy
<1>2. /\ work \in Seq(Nat) /\ published \in Nat /\ errCount \in Nat
      /\ doing \in [Workers -> Nat \cup {Resting}] /\ running \subseteq Workers
  BY DEF Inv, Typed
<1>3. /\ Busy \subseteq running
      /\ running # Workers => work = <<>>
      /\ published + errCount + Len(work) + Cardinality(Busy) = Counts[level] - seeded
      /\ portClear /\ errCount = 0 =>
             stored \cup Queued \cup InHand = 0 .. Counts[level] - 1
  BY <1>1 DEF Inv, SeederKept
<1>4. Busy' = Busy \ {w}
  BY <1>1, <1>2 DEF Busy
<1>5. IsFiniteSet(Busy') /\ Cardinality(Busy') = Cardinality(Busy) - 1
  BY <1>1, <1>4, FS_RemoveElement
<1>6. \/ published' = published + 1 /\ errCount' = errCount
      \/ published' = published /\ errCount' = errCount + 1
  BY DEF Created, NotCreated
<1>7. published' \in Nat /\ errCount' \in Nat
  BY <1>2, <1>6
<1>8. published' + errCount' + Len(work') + Cardinality(Busy') = Counts[level]' - seeded'
  <2>1. Len(work') = Len(work) /\ Counts[level]' - seeded' = Counts[level] - seeded
    BY <1>1
  <2>2. published' + errCount' = published + errCount + 1
    BY <1>2, <1>6
  <2>3. QED
    BY <1>1, <1>2, <1>3, <1>5, <2>1, <2>2, OneLess
<1>9. ASSUME portClear, errCount' = 0
      PROVE  stored' \cup Queued' \cup InHand' = 0 .. Counts[level] - 1
  <2>1. port # "nobody" /\ Created(w, port = "own") /\ errCount = 0
    <3>1. errCount' # errCount + 1
      BY <1>2, <1>9
    <3>2. QED
      BY <1>9, <3>1 DEF NotCreated, Created
  <2>2. port = "own"
    BY <1>1, <1>9, <2>1 DEF Inv, Typed, TypeOK, PortKept, Working, Seeding
  <2>3. stored' = stored \cup {doing[w]}
    BY <2>1, <2>2 DEF Created
  <2>4. InHand = InHand' \cup {doing[w]}
    BY <1>1, <1>2, <1>4 DEF InHand, Busy
  <2>5. Queued' = Queued
    BY <1>1 DEF Queued
  <2>6. QED
    BY <1>3, <1>9, <2>1, <2>3, <2>4, <2>5
<1>10. SeederKept'
  BY <1>1, <1>3, <1>4, <1>5, <1>8, <1>9 DEF SeederKept
<1>11. QED
  BY <1>1, <1>2, <1>7, <1>10, SeederStepKeeps

\* What a seeding that ended well has done.
LEMMA SeededAll ==
    ASSUME Inv, pc = "seeding", Waited, SeederSucceeds, portClear
    PROVE  stored = 0 .. Counts[level] - 1
<1>1. work = <<>> /\ Busy = {} /\ errCount = 0
  BY WorkersAssumption DEF Inv, SeederKept, Waited, SeederSucceeds
<1>2. Queued = {} /\ InHand = {}
  BY <1>1 DEF Queued, InHand
<1>3. QED
  BY <1>1, <1>2 DEF Inv, SeederKept

LEMMA SeededKeeps ==
    ASSUME Inv, Seeded
    PROVE  Inv'
<1> USE DEF Unprepared, Prepared, Seeding, Measuring, Last, Working, Leaving, Ended
<1>1. /\ UNCHANGED <<level, attempts, files, containers, password, stored, failed,
                     portClear, measured, runs, own, port, listed, seederVars>>
      /\ pc = "seeding" /\ running = {} /\ Waited
      /\ \/ SeederSucceeds /\ pc' = "stopSeeded" /\ seeded' = Counts[level]
            /\ exitCode' = exitCode
         \/ ~SeederSucceeds /\ pc' = "stop" /\ seeded' = seeded /\ exitCode' = 1
  BY DEF Seeded, Outcome, artifactory, history, server, Waited
<1>2. Counts[level] \in Nat /\ Counts[level]' = Counts[level] /\ level <= Len(Counts)
  BY <1>1, CountsTypes DEF Inv, Typed, TypeOK, Levels
<1>3. Typed'
  <2>1. \A w \in Workers : doing[w] = Resting
    BY <1>1 DEF Inv, SeederKept, Busy
  <2>2. QED
    BY <1>1, <1>2, <2>1 DEF Inv, Typed, TypeOK, seederVars
<1>4. Repository'
  BY <1>1, SeededAll DEF Inv, Repository
<1>5. QED
  BY <1>1, <1>2, <1>3, <1>4
  DEF Inv, Cleaned, Levels, PortKept, ListingWhole, SeederKept, Measured

-----------------------------------------------------------------------------
(* The measurements.                                                         *)

LEMMA BenchmarkKeeps ==
    ASSUME Inv, Benchmark("query", "stopMeasured")
    PROVE  Inv'
<1> USE DEF Unprepared, Prepared, Seeding, Measuring, Last, Working, Leaving, Ended
<1>1. /\ UNCHANGED <<level, seeded, attempts, containers, password, stored, failed,
                     portClear, runs, own, port, listed, seederVars>>
      /\ pc = "query" /\ pc' \in {"stopMeasured", "stop"}
      /\ exitCode' \in {0, 1} /\ files' \subseteq Files
      /\ port # "nobody"
      /\ measured' = measured \cup
            {[count |-> Counts[level], by |-> port, packages |-> Cardinality(listed)]}
  BY DEF Benchmark, Writes, Outcome, progress, artifactory, Inv, Typed, TypeOK, Files
<1>2. Typed'
  BY <1>1 DEF Inv, Typed, TypeOK, seederVars
<1>3. ASSUME portClear
      PROVE  port = "own" /\ Cardinality(listed) = Counts[level]
  <2>1. port = "own" /\ own = "serving"
    BY <1>1, <1>3 DEF Inv, Typed, TypeOK, PortKept
  <2>2. seeded = Counts[level] /\ seeded \in Nat /\ listed = 0 .. seeded - 1
    BY <1>1, <1>3, <2>1 DEF Inv, Typed, Levels, Repository, ListingWhole
  <2>3. 0 \in Int /\ seeded - 1 \in Int
    BY <2>2
  <2>4. Cardinality(0 .. seeded - 1) = IF 0 > seeded - 1 THEN 0 ELSE (seeded - 1) - 0 + 1
    BY <2>3, FS_Interval
  <2>5. Cardinality(0 .. seeded - 1) = seeded
    BY <2>2, <2>4
  <2>6. QED
    BY <2>1, <2>2, <2>5
<1>4. Measured'
  BY <1>1, <1>3 DEF Inv, Measured
<1>5. QED
  BY <1>1, <1>2, <1>4
  DEF Inv, Cleaned, Levels, Repository, PortKept, ListingWhole, SeederKept

-----------------------------------------------------------------------------
(* The theorems.                                                             *)

LEMMA RunKeeps ==
    ASSUME Inv, Run
    PROVE  Inv'
<1> USE DEF Unprepared, Prepared, Seeding, Measuring, Last, Working, Follows
<1>1. CASE Prepare
  <2>1. CASE WriteEnvFile \/ GenerateToken \/ BuildServer
    BY <2>1, WritesKeeps DEF WriteEnvFile, GenerateToken, BuildServer, Files
  <2>2. CASE ComposeUp
    BY <2>2, ComposeUpKeeps
  <2>3. CASE WaitForHealthy \/ SetBaseURL
    BY <2>3, AsksKeeps DEF WaitForHealthy, SetBaseURL
  <2>4. CASE ChangePassword
    BY <2>4, ChangePasswordKeeps
  <2>5. QED
    BY <1>1, <2>1, <2>2, <2>3, <2>4 DEF Prepare
<1>2. CASE Measure
  <2>1. CASE NextScale
    BY <2>1, NextScaleKeeps
  <2>2. CASE \/ StartServer("start", "await") \/ StartServer("restart", "reawait")
             \/ StartServer("startLast", "awaitLast")
    BY <2>2, StartServerKeeps
  <2>3. CASE \/ AwaitServer("await", "seed") \/ AwaitServer("reawait", "query")
             \/ AwaitServer("awaitLast", "publish")
    BY <2>3, AsksKeeps
  <2>4. CASE Seed \/ Seeded \/ SeedingFails
    BY <2>4, SeedKeeps, SeededKeeps, SeedingFailsKeeps
  <2>5. CASE \/ Stops("stopSeeded", "startup") /\ UNCHANGED level
             \/ Stops("stopMeasured", "scale") /\ level' = level + 1
    BY <2>5, StopsKeeps
  <2>6. CASE BenchmarkStartup \/ Benchmark("query", "stopMeasured") \/ BenchmarkFails
    BY <2>6, BenchmarkStartupKeeps, BenchmarkKeeps, BenchmarkFailsKeeps
  <2>7. CASE BenchmarkLast("publish", "results") \/ BenchmarkLast("results", "stop")
    BY <2>7, WritesKeeps DEF BenchmarkLast, Files
  <2>8. QED
    BY <1>2, <2>1, <2>2, <2>3, <2>4, <2>5, <2>6, <2>7 DEF Measure
<1>3. QED
  BY <1>1, <1>2, CleanupKeeps DEF Run

LEMMA StutterKeeps ==
    ASSUME Inv, UNCHANGED vars
    PROVE  Inv'
<1>1. UNCHANGED <<Busy, Queued, InHand>>
  BY DEF vars, seederVars, Busy, Queued, InHand
<1>2. QED
  BY <1>1
  DEF vars, progress, artifactory, server, history, seederVars, Inv, Typed, TypeOK, Cleaned,
      Levels, Repository, PortKept, ListingWhole, SeederKept, Measured

LEMMA NextKeeps ==
    ASSUME Inv, [Next]_vars
    PROVE  Inv'
<1>1. CASE \E w \in Workers : SeederStep(w)
  <2>1. PICK w \in Workers : SeederStep(w)
    BY <1>1
  <2>2. QED
    BY <2>1, TakeKeeps, PublishedKeeps DEF SeederStep
<1>2. QED
  BY <1>1, BeginKeeps, RunKeeps, ServerKeeps, InterruptKeeps, StutterKeeps DEF Next, Rest

\* The invariant of a benchmark run (main.go:53-178, seed.go:226-264).
THEOREM OrchestratorInvariant == Spec => []Inv
BY InitInv, NextKeeps, PTL DEF Spec

\* Every variable stays in its range (main.go:53-178).
THEOREM OrchestratorTypes == Spec => []TypeOK
<1>1. Inv => TypeOK
  BY DEF Inv, Typed
<1>2. QED
  BY <1>1, OrchestratorInvariant, PTL

\* A seeding that reports success has stored the packages up to its scale and no
\* others, whatever the number of workers (seed.go:226-264, main.go:131-145).
THEOREM SeedingExact == Spec => []SeedExact
<1>1. Inv => SeedExact
  BY SeededAll DEF Inv, SeederKept, SeedExact
<1>2. QED
  BY <1>1, OrchestratorInvariant, PTL

\* A query benchmark runs at the scale its result names, as long as no process of
\* others has the port while the run lasts: the server that answers lists that
\* many packages (main.go:124-161).
THEOREM MeasuresAtScale == Spec => []AtScale
<1>1. Inv => AtScale
  BY DEF Inv, Measured, AtScale
<1>2. QED
  BY <1>1, OrchestratorInvariant, PTL

\* A query benchmark measures the server this run built and started, under the
\* same condition (main.go:206-244).
THEOREM MeasuresOwnServer == Spec => []OwnServer
<1>1. Inv => OwnServer
  BY DEF Inv, Measured, OwnServer
<1>2. QED
  BY <1>1, OrchestratorInvariant, PTL

\* A run that is not killed has stopped the server it started itself, and what
\* else is left of it is what an unchecked call failed to remove: files, the
\* containers, or the server of a startup test that failed (main.go:53-60, 180-204).
THEOREM RunsCleanUp == Spec => []CleansUp
<1>1. Inv => CleansUp
  BY DEF Inv, Cleaned, CleansUp, Ended
<1>2. QED
  BY <1>1, OrchestratorInvariant, PTL

=============================================================================
