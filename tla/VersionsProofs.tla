--------------------------- MODULE VersionsProofs ---------------------------
(***************************************************************************)
(* Theorems about Versions and the selections of Negotiation, for lists of *)
(* any length and any partners.                                            *)
(***************************************************************************)
EXTENDS Versions, FiniteSetTheorems, WellFoundedInduction, TLAPS

-----------------------------------------------------------------------------
(***************************************************************************)
(* What the selections return.                                             *)
(***************************************************************************)

\* A set of naturals has a least element.
LEMMA Least ==
  ASSUME NEW S \in SUBSET Nat, S # {}
  PROVE  \E x \in S : \A y \in S : x <= y
<1> DEFINE less == OpToRel(<, Nat)
<1>1. \A x, y \in Nat : <<x, y>> \in less <=> x < y
  BY DEF OpToRel
<1>2. IsWellFoundedOn(less, Nat)
  BY NatLessThanWellFounded
<1> HIDE DEF less
<1>3. PICK x \in S : \A y \in S : ~(<<y, x>> \in less)
  BY <1>2, WFMin
<1>4. ASSUME NEW y \in S PROVE x <= y
  <2>1. x \in Nat /\ y \in Nat
    OBVIOUS
  <2>2. ~(y < x)
    BY <1>1, <1>3, <2>1
  <2> QED
    BY <2>1, <2>2
<1> QED
  BY <1>4

\* A set of versions has a highest one.
LEMMA Highest ==
  ASSUME NEW S \in SUBSET VersionNumber, S # {}
  PROVE  \E x \in S : \A y \in S : y <= x
<1> DEFINE T == {V3_0 - v : v \in S}
<1>1. T \subseteq Nat /\ T # {}
  <2>1. ASSUME NEW v \in S PROVE V3_0 - v \in Nat
    <3>1. v \in 0..5
      BY DEF VersionNumber, V2_0, V3_0
    <3> QED
      BY <3>1 DEF V3_0
  <2>2. PICK v \in S : TRUE
    OBVIOUS
  <2> QED
    BY <2>1, <2>2
<1>2. PICK t \in T : \A u \in T : t <= u
  BY <1>1, Least
<1>3. PICK x \in S : t = V3_0 - x
  OBVIOUS
<1>4. \A y \in S : V3_0 - x <= V3_0 - y
  BY <1>2, <1>3
<1>5. \A y \in S : y <= x
  BY <1>4 DEF VersionNumber, V2_0, V3_0
<1> QED
  BY <1>5

\* The versions both sides list.
Common(remote, supported) == {remote[i].version : i \in 1..Len(remote)} \cap supported

\* negotiate_version finds the highest of them.
LEMMA NegotiatedIsHighest ==
  ASSUME NEW remote \in Seq(Entry(Url)), NEW supported \in SUBSET VersionNumber
  PROVE  /\ \A v \in negotiate_version(remote, supported) :
              v \in Common(remote, supported) /\ \A w \in Common(remote, supported) : w <= v
         /\ Common(remote, supported) # {} => negotiate_version(remote, supported) # {}
<1>1. ASSUME NEW i \in 1..Len(remote) PROVE remote[i].version \in VersionNumber
  <2>1. remote[i] \in Entry(Url)
    OBVIOUS
  <2> QED
    BY <2>1 DEF Entry
<1>2. ASSUME NEW v \in negotiate_version(remote, supported)
      PROVE  v \in Common(remote, supported) /\ \A w \in Common(remote, supported) : w <= v
  <2>1. PICK i \in Best(remote, supported) : v = remote[i].version
    BY DEF negotiate_version
  <2> QED
    BY <2>1 DEF Best, Mutual, Common
<1>3. ASSUME Common(remote, supported) # {} PROVE negotiate_version(remote, supported) # {}
  <2>1. Common(remote, supported) \in SUBSET VersionNumber
    BY DEF Common
  <2>2. PICK x \in Common(remote, supported) : \A y \in Common(remote, supported) : y <= x
    BY <1>3, <2>1, Highest
  <2>3. PICK i \in 1..Len(remote) : remote[i].version = x
    BY <2>2 DEF Common
  <2>4. i \in Mutual(remote, supported)
    BY <2>2, <2>3 DEF Mutual, Common
  <2>5. \A j \in Mutual(remote, supported) : remote[j].version <= remote[i].version
    BY <2>2, <2>3 DEF Mutual, Common
  <2>6. i \in Best(remote, supported)
    BY <2>4, <2>5 DEF Best
  <2> QED
    BY <2>6 DEF negotiate_version
<1> QED
  BY <1>2, <1>3

\* select_version returns exactly one entry, of that version, if there is one.
LEMMA SelectedIsHighest ==
  ASSUME NEW remote \in Seq(Entry(Url)), NEW supported \in SUBSET VersionNumber
  PROVE  /\ \A e \in select_version(remote, supported) :
              /\ e \in Entry(Url) /\ e.version \in Common(remote, supported)
              /\ \A w \in Common(remote, supported) : w <= e.version
         /\ Common(remote, supported) # {} =>
              Cardinality(select_version(remote, supported)) = 1
<1> DEFINE N == negotiate_version(remote, supported)
           F == {i \in 1..Len(remote) :
                   remote[i].version \in N /\ \A j \in 1..(i - 1) : remote[j].version \notin N}
<1>1. select_version(remote, supported) = {remote[i] : i \in F}
  BY DEF select_version
<1>2. ASSUME NEW e \in select_version(remote, supported)
      PROVE  /\ e \in Entry(Url) /\ e.version \in Common(remote, supported)
             /\ \A w \in Common(remote, supported) : w <= e.version
  <2>1. PICK i \in 1..Len(remote) : e = remote[i] /\ remote[i].version \in N
    BY <1>1
  <2> QED
    BY <2>1, NegotiatedIsHighest
<1>3. ASSUME Common(remote, supported) # {}
      PROVE  Cardinality(select_version(remote, supported)) = 1
  <2> DEFINE M == {i \in 1..Len(remote) : remote[i].version \in N}
  <2>1. PICK v \in N : TRUE
    BY <1>3, NegotiatedIsHighest
  <2>2. PICK k \in 1..Len(remote) : remote[k].version = v
    BY <2>1, NegotiatedIsHighest DEF Common
  <2>3. k \in M /\ M \in SUBSET Nat
    BY <2>1, <2>2
  <2>4. PICK x \in M : \A y \in M : x <= y
    BY <2>3, Least
  <2>5. F = {x}
    <3>1. x \in F
      BY <2>4
    <3>2. ASSUME NEW y \in F PROVE y = x
      <4>1. y \in M /\ x <= y
        BY <2>4
      <4>2. ~(x \in 1..(y - 1))
        BY <2>4
      <4> QED
        BY <4>1, <4>2
    <3> QED
      BY <3>1, <3>2
  <2> HIDE DEF F
  <2>6. select_version(remote, supported) = {remote[x]}
    BY <1>1, <2>5
  <2> QED
    BY <2>6, FS_Singleton
<1> QED
  BY <1>2, <1>3

\* An entry of a version that is not supported changes neither what is mutual
\* nor what is best.
LEMMA ForeignEntry ==
  ASSUME NEW remote \in Seq(Entry(Url)), NEW supported \in SUBSET VersionNumber,
         NEW entry \in Entry(Url), entry.version \notin supported
  PROVE  /\ select_version(Append(remote, entry), supported) = select_version(remote, supported)
         /\ select_best_version(Append(remote, entry), supported)
              = select_best_version(remote, supported)
<1> DEFINE longer == Append(remote, entry)
<1>1. /\ Len(longer) = Len(remote) + 1 /\ Len(remote) \in Nat
      /\ \A i \in 1..Len(remote) : longer[i] = remote[i]
      /\ longer[Len(remote) + 1] = entry
  OBVIOUS
<1> HIDE DEF longer
<1>2. Mutual(longer, supported) = Mutual(remote, supported)
  BY <1>1 DEF Mutual
<1>3. Mutual(remote, supported) \subseteq 1..Len(remote)
  BY DEF Mutual
<1>4. Best(longer, supported) = Best(remote, supported)
  BY <1>1, <1>2, <1>3 DEF Best
<1>5. Best(remote, supported) \subseteq Mutual(remote, supported)
  BY DEF Best
<1>6. negotiate_version(longer, supported) = negotiate_version(remote, supported)
  BY <1>1, <1>3, <1>4, <1>5 DEF negotiate_version
<1>7. negotiate_version(remote, supported) \subseteq supported
  BY <1>5 DEF negotiate_version, Mutual
<1> DEFINE N == negotiate_version(remote, supported)
           F(r) == {i \in 1..Len(r) :
                   r[i].version \in N /\ \A j \in 1..(i - 1) : r[j].version \notin N}
<1>8. F(longer) = F(remote)
  <2> HIDE DEF N
  <2>1. \A i \in 1..Len(remote) : i \in F(longer) <=> i \in F(remote)
    BY <1>1
  <2>2. F(longer) \subseteq 1..Len(remote)
    BY <1>1, <1>7 DEF N
  <2> QED
    BY <2>1, <2>2
<1>9. select_version(longer, supported) = select_version(remote, supported)
  <2>1. select_version(longer, supported) = {longer[i] : i \in F(longer)}
    BY <1>6 DEF select_version
  <2>2. select_version(remote, supported) = {remote[i] : i \in F(remote)}
    BY DEF select_version
  <2>3. F(remote) \subseteq 1..Len(remote)
    OBVIOUS
  <2> HIDE DEF F
  <2> QED
    BY <1>1, <1>8, <2>1, <2>2, <2>3
<1>10. select_best_version(longer, supported) = select_best_version(remote, supported)
  BY <1>1, <1>3, <1>4, <1>5 DEF select_best_version
<1> QED
  BY <1>9, <1>10 DEF longer

-----------------------------------------------------------------------------
(***************************************************************************)
(* The invariant.                                                          *)
(***************************************************************************)

\* Each version of the list has its catalogue in the map for its shape.
Catalogued ==
  /\ \A i \in 1..Len(versions) :
       IF versions[i].version \in Legacy THEN versions[i].version \in legacy_details
                                         ELSE versions[i].version \in details
  /\ legacy_details \subseteq Legacy

\* The list does not change any more once the partner has chosen from it.
Chosen ==
  /\ partner.chosen # None =>
       /\ serving
       /\ partner.chosen.version \in Common(versions, partner.supported)
       /\ \A v \in Common(versions, partner.supported) : v <= partner.chosen.version
  /\ reply # None => partner.chosen # None

Inv == TypeOK /\ Catalogued /\ Chosen /\ ChosenVersionIsServed

\* The registry starts empty (VersionsConfig::new).
LEMMA InitInv == Init => Inv
<1> SUFFICES ASSUME Init PROVE Inv
  OBVIOUS
<1>1. versions = <<>> /\ details = {} /\ legacy_details = {} /\ serving = FALSE /\ reply = None
  BY DEF Init
<1>2. partner \in [supported : Supported, chosen : {None}]
  BY DEF Init
<1>3. partner \in [supported : Supported, chosen : Entry(Url) \cup {None}] /\ partner.chosen = None
  BY <1>2
<1>4. TypeOK
  <2>1. versions \in Seq(Entry(Url)) /\ details \subseteq VersionNumber /\ legacy_details \subseteq VersionNumber
    BY <1>1
  <2>2. serving \in BOOLEAN /\ reply \in {"role-less", "role-bearing", "unsupported version", None}
    BY <1>1
  <2> QED
    BY <1>3, <2>1, <2>2 DEF TypeOK
<1>5. Len(versions) = 0
  BY <1>1
<1>6. Catalogued
  BY <1>1, <1>5 DEF Catalogued
<1>7. Chosen /\ ChosenVersionIsServed
  BY <1>1, <1>3 DEF Chosen, ChosenVersionIsServed
<1> QED
  BY <1>4, <1>6, <1>7 DEF Inv

\* The host adds a version, before the router serves the list.
LEMMA AddInv ==
  ASSUME Inv, NEW entry \in Entry(Url), add_version(entry) \/ add_legacy_version(entry)
  PROVE  Inv'
<1>1. /\ ~serving /\ versions' = Append(versions, entry)
      /\ UNCHANGED <<serving, partner, reply>>
      /\ versions \in Seq(Entry(Url)) /\ entry.version \in VersionNumber
  BY DEF add_version, add_legacy_version, Inv, TypeOK, Entry
<1>2. TypeOK'
  <2>1. versions' \in Seq(Entry(Url))
    BY <1>1
  <2>2. details' \subseteq VersionNumber /\ legacy_details' \subseteq VersionNumber
    BY <1>1 DEF Inv, TypeOK, add_version, add_legacy_version
  <2>3. /\ serving \in BOOLEAN /\ partner \in [supported : Supported, chosen : Entry(Url) \cup {None}]
        /\ reply \in {"role-less", "role-bearing", "unsupported version", None}
    BY DEF Inv, TypeOK
  <2> QED
    BY <1>1, <2>1, <2>2, <2>3 DEF TypeOK
<1>3. /\ \A i \in 1..Len(versions') : i \in 1..Len(versions) \/ versions'[i] = entry
      /\ \A i \in 1..Len(versions) : versions'[i] = versions[i]
  BY <1>1
<1>4. Catalogued'
  BY <1>3 DEF Inv, Catalogued, add_version, add_legacy_version
<1>5. partner.chosen = None /\ reply = None
  BY <1>1 DEF Inv, Chosen
<1> QED
  BY <1>1, <1>2, <1>4, <1>5 DEF Inv, Chosen, ChosenVersionIsServed

\* The partner picks an entry.
LEMMA BootstrapInv == ASSUME Inv, Bootstrap PROVE Inv'
<1>1. PICK e \in select_version(versions, partner.supported) :
        partner' = [partner EXCEPT !.chosen = e]
  BY DEF Bootstrap
<1>2. versions \in Seq(Entry(Url)) /\ partner.supported \in SUBSET VersionNumber
  BY VersionsAssumption DEF Inv, TypeOK
<1>3. /\ e \in Entry(Url) /\ e.version \in Common(versions, partner.supported)
      /\ \A w \in Common(versions, partner.supported) : w <= e.version
  BY <1>2, SelectedIsHighest
<1>4. /\ UNCHANGED <<versions, details, legacy_details, serving, reply>> /\ serving
      /\ partner.chosen = None /\ reply = None
  BY DEF Bootstrap, Inv, Chosen
<1>5. partner'.chosen = e /\ partner'.supported = partner.supported
  BY <1>1 DEF Inv, TypeOK
<1>6. TypeOK'
  BY <1>1, <1>3, <1>4 DEF Inv, TypeOK
<1>7. Common(versions, partner.supported)' = Common(versions, partner.supported)
  BY <1>4, <1>5 DEF Common
<1>8. Chosen'
  BY <1>3, <1>4, <1>5, <1>7 DEF Chosen
<1> QED
  BY <1>4, <1>6, <1>8 DEF Inv, Catalogued, ChosenVersionIsServed

\* The partner is answered.
LEMMA DetailsInv == ASSUME Inv, version_details PROVE Inv'
<1>1. /\ partner.chosen # None /\ reply' = Lookup(partner.chosen.version)
      /\ UNCHANGED <<versions, details, legacy_details, serving, partner>>
  BY DEF version_details
<1>2. PICK i \in 1..Len(versions) : versions[i].version = partner.chosen.version
  BY <1>1 DEF Inv, Chosen, Common
<1>3. reply' = IF partner.chosen.version \in Legacy THEN "role-less" ELSE "role-bearing"
  BY <1>1, <1>2 DEF Inv, Catalogued, Lookup
<1> QED
  BY <1>1, <1>3 DEF Inv, TypeOK, Catalogued, Chosen, Common, ChosenVersionIsServed

\* Every step keeps the invariant.
LEMMA NextInv == Inv /\ [Next]_vars => Inv'
<1> SUFFICES ASSUME Inv, [Next]_vars PROVE Inv'
  OBVIOUS
<1>1. CASE versions_router
  BY <1>1 DEF versions_router, Inv, TypeOK, Catalogued, Chosen, Common, ChosenVersionIsServed
<1>2. CASE UNCHANGED vars
  BY <1>2 DEF vars, Inv, TypeOK, Catalogued, Chosen, Common, ChosenVersionIsServed
<1> QED
  BY <1>1, <1>2, AddInv, BootstrapInv, DetailsInv DEF Next

LEMMA Invariance == Spec => []Inv
  BY InitInv, NextInv, PTL DEF Spec

-----------------------------------------------------------------------------
\* Every variable has its type.
THEOREM TypeCorrect == Spec => []TypeOK
<1>1. Inv => TypeOK
  BY DEF Inv
<1> QED
  BY <1>1, Invariance, PTL

\* An advertised version is served, in the shape it has (version_details).
THEOREM AdvertisedIsServed == Spec => []ChosenVersionIsServed
<1>1. Inv => ChosenVersionIsServed
  BY DEF Inv
<1> QED
  BY <1>1, Invariance, PTL

\* The highest mutual version is found (negotiate_version, select_version).
THEOREM HighestIsChosen == Spec => []HighestMutualIsChosen
<1>1. Inv => HighestMutualIsChosen
  <2> SUFFICES ASSUME Inv PROVE HighestMutualIsChosen
    OBVIOUS
  <2>1. versions \in Seq(Entry(Url)) /\ partner.supported \in SUBSET VersionNumber
    BY VersionsAssumption DEF Inv, TypeOK
  <2> QED
    BY <2>1, SelectedIsHighest DEF Inv, Chosen, Common, HighestMutualIsChosen
<1> QED
  BY <1>1, Invariance, PTL

\* An entry that the partner does not speak changes nothing for it.
THEOREM ForeignEntriesAreIgnored == Spec => ForeignEntryIsIgnored
<1>1. Inv /\ [Next]_vars =>
        [\A S \in Supported :
           (versions' # versions /\ versions'[Len(versions')].version \notin S) =>
              /\ select_version(versions', S) = select_version(versions, S)
              /\ select_best_version(versions', S) = select_best_version(versions, S)]_vars
  <2> SUFFICES ASSUME Inv, Next, NEW S \in Supported,
                      versions' # versions, versions'[Len(versions')].version \notin S
               PROVE  /\ select_version(versions', S) = select_version(versions, S)
                      /\ select_best_version(versions', S) = select_best_version(versions, S)
    BY DEF vars
  <2>1. versions \in Seq(Entry(Url)) /\ S \in SUBSET VersionNumber
    BY VersionsAssumption DEF Inv, TypeOK
  <2>2. PICK entry \in Entry(Url) : versions' = Append(versions, entry)
    BY DEF Next, add_version, add_legacy_version, versions_router, Bootstrap, version_details
  <2>3. versions'[Len(versions')] = entry
    BY <2>1, <2>2
  <2> QED
    BY <2>1, <2>2, <2>3, ForeignEntry
<1> QED
  BY <1>1, Invariance, PTL DEF Spec, ForeignEntryIsIgnored
=============================================================================
