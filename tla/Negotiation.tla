---------------------------- MODULE Negotiation ----------------------------
(***************************************************************************)
(* OCPI version negotiation.  Both sides of the protocol pick a version    *)
(* from the list a remote party serves on GET /versions:                   *)
(*                                                                         *)
(*   - the server, while it registers a party, to know which version       *)
(*     details document to fetch (select_best_version);                    *)
(*   - the client, when it bootstraps (negotiate_version, select_version). *)
(*                                                                         *)
(* A version is a natural number: only the order that VersionNumber        *)
(* derives from the order of its variants matters.  An entry pairs a       *)
(* version with the URL of its details document.                           *)
(***************************************************************************)
EXTENDS Naturals, Sequences

\* The variants of VersionNumber, in the order #[derive(Ord)] gives them.
V2_0   == 0
V2_1_1 == 1
V2_2   == 2
V2_2_1 == 3
V2_3_0 == 4
V3_0   == 5
VersionNumber == V2_0..V3_0

Entry(Url) == [version: VersionNumber, url: Url]

\* Mutant: the list is not filtered by what this side speaks.
MutualUnfiltered(remote, supported) == 1..Len(remote)

\* Where the entries of a /versions list that both sides speak are.
Mutual(remote, supported) == {i \in 1..Len(remote) : remote[i].version \in supported}

\* Where the mutual entries of the highest mutual version are.
Best(remote, supported) ==
  {i \in Mutual(remote, supported) :
     \A j \in Mutual(remote, supported) : remote[j].version <= remote[i].version}

(***************************************************************************)
(* The three selections return an Option: a set of one element, or the     *)
(* empty set for None.                                                     *)
(***************************************************************************)

\* `filter(..).max_by_key(..)`: max_by_key keeps the last of equal maxima.
select_best_version(remote, supported) ==
  {remote[i] : i \in {i \in Best(remote, supported) :
                        \A j \in Best(remote, supported) : j <= i}}

\* `map(version).filter(..).max()`.
negotiate_version(remote, supported) ==
  {remote[i].version : i \in Best(remote, supported)}

\* Mutant: the first entry that is mutual, not the first of the chosen version.
select_first_mutual(remote, supported) ==
  {remote[i] : i \in {i \in Mutual(remote, supported) :
                        \A j \in Mutual(remote, supported) : i <= j}}

\* `find(|v| v.version == chosen)`: the first entry of the chosen version.
select_version(remote, supported) ==
  {remote[i] : i \in {i \in 1..Len(remote) :
                        /\ remote[i].version \in negotiate_version(remote, supported)
                        /\ \A j \in 1..(i - 1) :
                             remote[j].version \notin negotiate_version(remote, supported)}}
=============================================================================
