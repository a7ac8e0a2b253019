------------------------------- MODULE Ledger -------------------------------
(***************************************************************************)
(* What the service promises about packages, and RepoService implements.   *)
(* A package that is stored stays stored and one that is acknowledged is   *)
(* stored, through every failure and restart; the index lists stored       *)
(* packages only; and a load of the index, many requests though it is, is  *)
(* a picture of the repository taken at one instant and put up at another. *)
(***************************************************************************)
CONSTANTS
    Package,    \* the version directories
    Reader      \* the loads of the index

VARIABLES
    stored,         \* the packages the repository shows
    acknowledged,   \* those a client was answered 201 for
    listed,         \* those in the index
    pictures        \* [Reader -> no picture of the repository, or one]

books == <<stored, acknowledged, listed, pictures>>

Init ==
    /\ stored = {} /\ acknowledged = {} /\ listed = {}
    /\ pictures = [l \in Reader |-> {}]

Store ==
    /\ \E p \in Package : stored' = stored \cup {p}
    /\ UNCHANGED <<acknowledged, listed, pictures>>

List ==
    /\ \E p \in stored : listed' = listed \cup {p}
    /\ UNCHANGED <<stored, acknowledged, pictures>>

Acknowledge ==
    /\ \E p \in stored : acknowledged' = acknowledged \cup {p}
    /\ UNCHANGED <<stored, listed, pictures>>

Take(l) ==
    /\ pictures' = [pictures EXCEPT ![l] = {stored}]
    /\ UNCHANGED <<stored, acknowledged, listed>>

\* A load ends: with the index as its picture shows it, or without effect.
Show(l) ==
    /\ \E picture \in pictures[l] : listed' = picture
    /\ pictures' = [pictures EXCEPT ![l] = {}]
    /\ UNCHANGED <<stored, acknowledged>>
GiveUp(l) ==
    /\ pictures' = [pictures EXCEPT ![l] = {}]
    /\ UNCHANGED <<stored, acknowledged, listed>>

Crash ==
    /\ listed' = {}
    /\ pictures' = [l \in Reader |-> {}]
    /\ UNCHANGED <<stored, acknowledged>>

Next == \/ Store \/ List \/ Acknowledge \/ Crash
        \/ \E l \in Reader : Take(l) \/ Show(l) \/ GiveUp(l)

Spec == Init /\ [][Next]_books

=============================================================================
