------------------------------- MODULE Seeder -------------------------------
(* perf-test/seed.go: workers that take package numbers from a closed channel *)
(* and publish them.  A number determines the whole package, its name, UUID  *)
(* and version, and different numbers give different names and UUIDs.        *)
EXTENDS Naturals, Sequences, FiniteSets

CONSTANTS
    Workers,    \* the goroutines of -parallel
    Resting     \* not a number: what doing says of a worker without work

\* With no worker at all the program would publish nothing and exit 0.
ASSUME WorkersAssumption == Workers # {} /\ Resting \notin Nat

VARIABLES
    work,       \* the channel
    running,    \* the workers that have not called wg.Done
    doing,      \* the number each is publishing
    published, errCount,
    stored,     \* the numbers whose package is in Artifactory
    listed      \* those in the index of this run's server

seederVars == <<work, running, doing, published, errCount>>

SeederInit ==
    /\ work = <<>>
    /\ running = {}
    /\ doing = [w \in Workers |-> Resting]
    /\ published = 0 /\ errCount = 0

\* main up to the workers: the channel has all the numbers and is closed.
StartSeeder(count, offset) ==
    /\ work' = [i \in 1 .. count |-> offset + i - 1]
    /\ running' = Workers
    /\ doing' = [w \in Workers |-> Resting]
    /\ published' = 0 /\ errCount' = 0

\* for i := range work, and wg.Done when there is no more
Take(w) ==
    /\ w \in running /\ doing[w] = Resting
    /\ \/ /\ work # <<>>
          /\ doing' = [doing EXCEPT ![w] = Head(work)]
          /\ work' = Tail(work)
          /\ UNCHANGED running
       \/ /\ work = <<>>
          /\ running' = running \ {w}
          /\ UNCHANGED <<doing, work>>
    /\ UNCHANGED <<published, errCount, stored, listed>>

\* publishPackage ends with 201.  A server of this run has then stored and
\* listed the package; of another server nothing is known.
Created(w, own) ==
    /\ doing[w] # Resting
    /\ \/ own /\ doing[w] \notin listed
          /\ stored' = stored \cup {doing[w]} /\ listed' = listed \cup {doing[w]}
       \/ ~own /\ stored' \in {stored, stored \cup {doing[w]}} /\ UNCHANGED listed
    /\ doing' = [doing EXCEPT ![w] = Resting]
    /\ published' = published + 1
    /\ UNCHANGED <<work, running, errCount>>

\* Mutant: a failed publish is not counted.
NotCreatedUncounted(w, own) ==
    /\ doing[w] # Resting
    /\ doing' = [doing EXCEPT ![w] = Resting]
    /\ UNCHANGED <<work, running, published, errCount, stored, listed>>

\* It ends with another status or without an answer, which can mean that the
\* package is stored all the same, and listed by a server of this run.
NotCreated(w, own) ==
    /\ doing[w] # Resting
    /\ \/ UNCHANGED <<stored, listed>>
       \/ /\ stored' = stored \cup {doing[w]}
          /\ listed' \in {listed} \cup (IF own THEN {listed \cup {doing[w]}} ELSE {})
    /\ doing' = [doing EXCEPT ![w] = Resting]
    /\ errCount' = errCount + 1
    /\ UNCHANGED <<work, running, published>>

\* wg.Wait returns, and the exit status is 0.
Waited == running = {}
SeederSucceeds == errCount = 0

Busy == {w \in Workers : doing[w] # Resting}

=============================================================================
