------------------------------ MODULE Versions ------------------------------
(***************************************************************************)
(* The version registry of a node and a partner that bootstraps against    *)
(* it.  At startup the host adds versions, each with its endpoint          *)
(* catalogue; versions up to 2.1.1 have catalogues without roles and live  *)
(* in a map of their own.  From then on the registry is read-only: the     *)
(* partner gets the list, picks an entry, and gets the details behind it.  *)
(***************************************************************************)
EXTENDS Negotiation, FiniteSets

CONSTANTS
  Url,            \* URLs of version details documents
  Supported,      \* the sets of versions a partner may speak
  MaxVersions,    \* bound: entries the host adds
  None            \* no value yet

ASSUME VersionsAssumption ==
  /\ MaxVersions \in Nat
  /\ Supported \subseteq SUBSET VersionNumber

VARIABLES
  versions,       \* the list served on GET /versions
  details,        \* versions with a role-bearing catalogue
  legacy_details, \* versions with a role-less catalogue
  serving,        \* the router has taken the registry over
  partner,        \* what the partner speaks, and where it is
  reply           \* what GET /versions/{version} answered

vars == <<versions, details, legacy_details, serving, partner, reply>>

Legacy == {V2_0, V2_1_1}

Init ==
  /\ versions = <<>>
  /\ details = {} /\ legacy_details = {}
  /\ serving = FALSE
  /\ partner \in [supported : Supported, chosen : {None}]
  /\ reply = None

-----------------------------------------------------------------------------
\* The documentation keeps the two maps apart by version: role-bearing means
\* 2.2 or later.  Adding a version again replaces its catalogue but appends a
\* second entry to the list.
add_version(entry) ==
  /\ ~serving /\ Len(versions) < MaxVersions
  /\ entry.version \notin Legacy
  /\ versions' = Append(versions, entry)
  /\ details' = details \cup {entry.version}
  /\ UNCHANGED <<legacy_details, serving, partner, reply>>

\* Mutant: the catalogue is filed without the list entry's version.
add_legacy_version_unfiled(entry) ==
  /\ ~serving /\ Len(versions) < MaxVersions
  /\ entry.version \in Legacy
  /\ versions' = Append(versions, entry)
  /\ UNCHANGED <<details, legacy_details, serving, partner, reply>>

add_legacy_version(entry) ==
  /\ ~serving /\ Len(versions) < MaxVersions
  /\ entry.version \in Legacy
  /\ versions' = Append(versions, entry)
  /\ legacy_details' = legacy_details \cup {entry.version}
  /\ UNCHANGED <<details, serving, partner, reply>>

versions_router ==
  /\ ~serving
  /\ serving' = TRUE
  /\ UNCHANGED <<versions, details, legacy_details, partner, reply>>

\* Mutant: the partner keeps the version and forgets where it is served.
BootstrapVersionOnly ==
  /\ serving /\ partner.chosen = None
  /\ \E v \in negotiate_version(versions, partner.supported) :
       partner' = [partner EXCEPT !.chosen = [version |-> v]]
  /\ UNCHANGED <<versions, details, legacy_details, serving, reply>>

\* The partner gets the list and picks an entry of it.
Bootstrap ==
  /\ serving /\ partner.chosen = None
  /\ \E v \in select_version(versions, partner.supported) :
       partner' = [partner EXCEPT !.chosen = v]
  /\ UNCHANGED <<versions, details, legacy_details, serving, reply>>

\* The role-less map is asked first, then the role-bearing one.
Lookup(v) ==
  IF v \in legacy_details THEN "role-less"
  ELSE IF v \in details THEN "role-bearing"
  ELSE "unsupported version"

\* The partner follows the entry's URL.
version_details ==
  /\ partner.chosen # None /\ reply = None
  /\ reply' = Lookup(partner.chosen.version)
  /\ UNCHANGED <<versions, details, legacy_details, serving, partner>>

Next ==
  \/ \E entry \in Entry(Url) : add_version(entry) \/ add_legacy_version(entry)
  \/ versions_router
  \/ Bootstrap
  \/ version_details

Spec == Init /\ [][Next]_vars

-----------------------------------------------------------------------------
TypeOK ==
  /\ versions \in Seq(Entry(Url))
  /\ details \subseteq VersionNumber /\ legacy_details \subseteq VersionNumber
  /\ serving \in BOOLEAN
  /\ partner \in [supported : Supported, chosen : Entry(Url) \cup {None}]
  /\ reply \in {"role-less", "role-bearing", "unsupported version", None}

\* A partner that picked an advertised version is served its catalogue, in the
\* shape that version has: without roles exactly up to 2.1.1 (version_details
\* over what add_version and add_legacy_version filed).
ChosenVersionIsServed ==
  reply # None =>
    reply = IF partner.chosen.version \in Legacy THEN "role-less" ELSE "role-bearing"

\* The partner picks the highest version both sides list, and finds one
\* whenever there is one (negotiate_version, select_version).
HighestMutualIsChosen ==
  LET mutual == {versions[i].version : i \in 1..Len(versions)} \cap partner.supported IN
  /\ partner.chosen # None =>
       /\ partner.chosen.version \in mutual
       /\ \A v \in mutual : v <= partner.chosen.version
  /\ mutual # {} => Cardinality(select_version(versions, partner.supported)) = 1

\* An entry for a version that the partner does not speak, such as 3.0, leaves
\* both selections as they were: it never breaks a handshake.
ForeignEntryIsIgnored ==
  [][\A S \in Supported :
       (versions' # versions /\ versions'[Len(versions')].version \notin S) =>
          /\ select_version(versions', S) = select_version(versions, S)
          /\ select_best_version(versions', S) = select_best_version(versions, S)]_vars
=============================================================================
