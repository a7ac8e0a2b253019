------------------------------ MODULE Storage ------------------------------
(***************************************************************************)
(* The Artifactory repository, as internal/backend/uploader.go uses it: a  *)
(* version directory holds at most one archive and one manifest, a PUT     *)
(* replaces what its path held, and a PUT whose answer never reached the   *)
(* server (a timeout, a dropped connection) may still be applied later.    *)
(***************************************************************************)
EXTENDS Manifests, FiniteSets

CONSTANTS
    Nil,        \* nothing stored
    MaxLate     \* bound: PUTs in flight at once that the client has given up on

ASSUME NilAssumption == Nil \notin Digest \cup Uuid

VARIABLES
    archives,   \* [Dir -> Digest or Nil]: the <name>-<version>.mltbx objects
    manifests,  \* [Dir -> Digest or Nil]: the <name>-<version>.manifest.json
                \* objects, each reduced to the archive digest it names
    late        \* PUTs the server stopped waiting for that the repository
                \* may still apply

storageVars == <<archives, manifests, late>>

Object == {"archive", "manifest"}

Put == [objects : SUBSET Object, dir : Dir, digest : Digest]

StorageTypeOK ==
    /\ archives \in [Dir -> Digest \cup {Nil}]
    /\ manifests \in [Dir -> Digest \cup {Nil}]
    /\ late \subseteq Put

StorageInit ==
    /\ archives = [d \in Dir |-> Nil]
    /\ manifests = [d \in Dir |-> Nil]
    /\ late = {}

-----------------------------------------------------------------------------
(* What the uploader sends.                                                  *)

\* publishAtomic: one PUT of a bundle that Artifactory explodes in place.
Bundle(m) == [objects |-> Object, dir |-> VersionDir(m), digest |-> m.digest]

\* publishTwoStep: a PUT of the archive, then a PUT of the manifest.
ArchivePut(m) ==
    [objects |-> {"archive"}, dir |-> VersionDir(m), digest |-> m.digest]
ManifestPut(m) ==
    [objects |-> {"manifest"}, dir |-> VersionDir(m), digest |-> m.digest]

-----------------------------------------------------------------------------
(* What the repository does with it.                                         *)

Apply(put) ==
    /\ archives' = IF "archive" \in put.objects
                   THEN [archives EXCEPT ![put.dir] = put.digest] ELSE archives
    /\ manifests' = IF "manifest" \in put.objects
                    THEN [manifests EXCEPT ![put.dir] = put.digest] ELSE manifests

\* The answer is lost, and the PUT's effect is open.
Lose(put) ==
    /\ Cardinality(late \cup {put}) <= MaxLate
    /\ late' = late \cup {put}
    /\ UNCHANGED <<archives, manifests>>

\* The repository applies a PUT nobody waits for any more.
ApplyLate(put) ==
    /\ put \in late
    /\ late' = late \ {put}
    /\ Apply(put)

Occupied(dir) == archives[dir] # Nil \/ manifests[dir] # Nil

Published(m) == manifests[VersionDir(m)] # Nil

=============================================================================
