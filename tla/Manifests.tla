----------------------------- MODULE Manifests -----------------------------
(***************************************************************************)
(* The values the server handles: a package manifest reduced to the fields *)
(* the server compares (name, UUID, version and the digest of the archive  *)
(* it describes), the keys the handlers derive from them, the storage      *)
(* directory of a package version, and the two questions the publish       *)
(* handler asks about a list of manifests.                                 *)
(***************************************************************************)
EXTENDS Sequences, Functions

CONSTANTS
    Uuid,       \* values of the manifest's "id" field
    Name,       \* package names as their authors wrote them
    Version,    \* version strings
    Digest,     \* contents of an archive, told apart by their sha512 digest
    Lower(_)    \* strings.ToLower on package names

\* strings.ToLower yields a name, and lower-casing it again changes nothing.
ASSUME LowerAssumption ==
    \A n \in Name : Lower(n) \in Name /\ Lower(Lower(n)) = Lower(n)

Manifest == [name : Name, id : Uuid, version : Version, digest : Digest]

\* The key of a version reservation, "uuid:version".  The id has passed
\* uuidRe, so it holds no colon and the pair is read back without ambiguity.
VersionKey(m) == <<m.id, m.version>>

\* The key of a name reservation and of the by-name map.
NameKey(m) == Lower(m.name)

\* The directory that holds the objects of one package version: the name keeps
\* its case here.
Dir == Name \X Uuid \X Version
VersionDir(m) == <<m.name, m.id, m.version>>

-----------------------------------------------------------------------------
(* Questions about a list of manifests.                                      *)

WithName(ms, n) == { m \in Range(ms) : NameKey(m) = Lower(n) }
WithUuid(ms, u) == { m \in Range(ms) : m.id = u }

\* Index.NameConflict: the folded name is listed, and never under this UUID.
NameConflict(ms, n, u) ==
    /\ WithName(ms, n) # {}
    /\ \A m \in WithName(ms, n) : m.id # u

\* Index.Exists
Exists(ms, u, v) == \E m \in WithUuid(ms, u) : m.version = v

=============================================================================
