--------------------------- MODULE LocationsProofs ---------------------------
(***************************************************************************)
(* Theorems about Locations, for any keys, EVSEs and connectors, and       *)
(* whatever slips the owner makes.                                         *)
(***************************************************************************)
EXTENDS Locations, WellFoundedInduction, TLAPS

-----------------------------------------------------------------------------
(***************************************************************************)
(* Lists, of whatever has an id.                                           *)
(***************************************************************************)

\* A list into which x is written, somewhere.
Alters(items, new, x) == x \in ToSet(new) /\ ToSet(new) \subseteq ToSet(items) \cup {x}

\* A list in which x is what is found under its id, and all else is as before.
Sets(items, new, x) ==
  /\ NamedOnce(items) => NamedOnce(new)
  /\ \A id : find(new, id) = IF id = x.id THEN {x} ELSE find(items, id)

\* The first of some places.
LEMMA FirstPlace ==
  ASSUME NEW S, S \subseteq Nat, S # {}
  PROVE  First(S) \in S /\ \A j \in S : First(S) <= j
<1> DEFINE Least(i) == \A j \in S : i <= j
<1>1. \E i \in S : \A j \in S : ~(<<j, i>> \in OpToRel(<, Nat))
  BY NatLessThanWellFounded, WFMin
<1>2. \A i, j \in Nat : j < i => <<j, i>> \in OpToRel(<, Nat)
  BY DEF OpToRel
<1>3. \E i \in S : Least(i)
  <2>1. PICK i \in S : \A j \in S : ~(<<j, i>> \in OpToRel(<, Nat))
    BY <1>1
  <2>2. ASSUME NEW j \in S PROVE i <= j
    <3>1. i \in Nat /\ j \in Nat /\ ~(j < i)
      BY <1>2, <2>1
    <3> QED
      BY <3>1
  <2> QED
    BY <2>2
<1> HIDE DEF Least
<1>4. (CHOOSE i \in S : Least(i)) \in S /\ Least(CHOOSE i \in S : Least(i))
  BY <1>3
<1> QED
  BY <1>4 DEF First, Least

\* Where the first object with an id is (iter().find()).
LEMMA Place ==
  ASSUME NEW S, NEW items \in Seq(S), NEW id, At(items, id) # {}
  PROVE  LET n == First(At(items, id)) IN
           n \in DOMAIN items /\ items[n] \in S /\ items[n].id = id
<1>1. At(items, id) \subseteq Nat
  BY DEF At
<1>2. First(At(items, id)) \in At(items, id)
  BY <1>1, FirstPlace
<1> QED
  BY <1>2 DEF At

\* What is found.
LEMMA Found ==
  ASSUME NEW S, NEW items \in Seq(S), NEW id
  PROVE  /\ \A x \in find(items, id) : x \in S /\ x.id = id /\ x \in ToSet(items)
         /\ find(items, id) = {} \/ \E x \in S : find(items, id) = {x}
         /\ find(items, id) = {} <=> At(items, id) = {}
<1>1. CASE At(items, id) = {}
  BY <1>1 DEF find
<1>2. CASE At(items, id) # {}
  <2> DEFINE n == First(At(items, id))
  <2>1. n \in DOMAIN items /\ items[n] \in S /\ items[n].id = id
    BY <1>2, Place
  <2>2. find(items, id) = {items[n]}
    BY <1>2 DEF find
  <2> HIDE DEF n
  <2>3. items[n] \in ToSet(items)
    BY <2>1 DEF ToSet
  <2> QED
    BY <1>2, <2>1, <2>2, <2>3
<1> QED
  BY <1>1, <1>2

\* An object of the list replaced.
LEMMA Replaced ==
  ASSUME NEW S, NEW items \in Seq(S), NEW n \in DOMAIN items, NEW x \in S
  PROVE  LET new == [items EXCEPT ![n] = x] IN
           /\ new \in Seq(S) /\ Alters(items, new, x)
           /\ (At(items, x.id) # {} /\ n = First(At(items, x.id))) => Sets(items, new, x)
<1> DEFINE new == [items EXCEPT ![n] = x]
<1>1. new \in Seq(S) /\ DOMAIN new = DOMAIN items
  OBVIOUS
<1>2. \A i \in DOMAIN items : new[i] = IF i = n THEN x ELSE items[i]
  OBVIOUS
<1> HIDE DEF new
<1>3. Alters(items, new, x)
  BY <1>1, <1>2 DEF Alters, ToSet
<1>4. ASSUME At(items, x.id) # {}, n = First(At(items, x.id))
      PROVE  Sets(items, new, x)
  <2>1. items[n].id = x.id
    BY <1>4, Place
  <2>2. \A i \in DOMAIN items : new[i].id = items[i].id
    BY <1>2, <2>1
  <2>3. \A id : At(new, id) = At(items, id)
    BY <1>1, <2>2 DEF At
  <2>4. NamedOnce(items) => NamedOnce(new)
    BY <1>1, <2>2 DEF NamedOnce
  <2>5. ASSUME NEW id, id # x.id PROVE find(new, id) = find(items, id)
    <3>1. CASE At(items, id) = {}
      BY <2>3, <3>1 DEF find
    <3>2. CASE At(items, id) # {}
      <4>1. First(At(items, id)) \in DOMAIN items /\ items[First(At(items, id))].id = id
        BY <3>2, Place
      <4>2. new[First(At(items, id))] = items[First(At(items, id))]
        BY <1>2, <2>1, <2>5, <4>1
      <4> QED
        BY <2>3, <3>2, <4>2 DEF find
    <3> QED
      BY <3>1, <3>2
  <2>6. find(new, x.id) = {x}
    BY <1>2, <1>4, <2>3 DEF find
  <2> QED
    BY <2>4, <2>5, <2>6 DEF Sets
<1> QED
  BY <1>1, <1>3, <1>4 DEF new

\* upsert_by.
LEMMA Upserted ==
  ASSUME NEW S, NEW items \in Seq(S), NEW x \in S
  PROVE  LET new == upsert_by(items, x) IN
           new \in Seq(S) /\ Alters(items, new, x) /\ Sets(items, new, x)
<1>1. CASE At(items, x.id) # {}
  BY <1>1, Place, Replaced DEF upsert_by
<1>2. CASE At(items, x.id) = {}
  <2> DEFINE new == upsert_by(items, x)
             last == Len(items) + 1
  <2>1. new = Append(items, x)
    BY <1>2 DEF upsert_by
  <2>2. new \in Seq(S) /\ DOMAIN new = 1..last /\ DOMAIN items = 1..Len(items) /\ last \in Nat
    BY <2>1
  <2>3. \A i \in DOMAIN new : new[i] = IF i = last THEN x ELSE items[i]
    BY <2>1
  <2>4. DOMAIN new = DOMAIN items \cup {last} /\ last \notin DOMAIN items
    BY <2>2
  <2> HIDE DEF new, last
  <2>5. Alters(items, new, x)
    BY <2>3, <2>4 DEF Alters, ToSet
  <2>6. \A i \in DOMAIN items : items[i].id # x.id
    BY <1>2 DEF At
  <2>7. NamedOnce(items) => NamedOnce(new)
    BY <2>3, <2>4, <2>6 DEF NamedOnce
  <2>8. ASSUME NEW id, id # x.id PROVE find(new, id) = find(items, id)
    <3>1. At(new, id) = At(items, id)
      BY <2>3, <2>4, <2>8 DEF At
    <3>2. CASE At(items, id) = {}
      BY <3>1, <3>2 DEF find
    <3>3. CASE At(items, id) # {}
      <4>1. First(At(items, id)) \in DOMAIN items
        BY <3>3, Place
      <4> QED
        BY <2>3, <2>4, <3>1, <4>1 DEF find
    <3> QED
      BY <3>2, <3>3
  <2>9. find(new, x.id) = {x}
    <3>1. At(new, x.id) = {last}
      BY <2>3, <2>4, <2>6 DEF At
    <3>2. First({last}) = last
      BY <2>2, FirstPlace
    <3> QED
      BY <2>3, <2>4, <3>1, <3>2 DEF find
  <2> QED
    BY <2>2, <2>5, <2>7, <2>8, <2>9 DEF Sets, new
<1> QED
  BY <1>1, <1>2

\* Writing back what was found changes nothing.
LEMMA UpsertFound ==
  ASSUME NEW S, NEW items \in Seq(S), NEW id, NEW x \in find(items, id)
  PROVE  upsert_by(items, x) = items
<1>1. At(items, id) # {} /\ x = items[First(At(items, id))]
  BY DEF find
<1>2. First(At(items, id)) \in DOMAIN items /\ x.id = id
  BY <1>1, Place
<1>3. upsert_by(items, x) = [items EXCEPT ![First(At(items, id))] = x]
  BY <1>1, <1>2 DEF upsert_by
<1> QED
  BY <1>1, <1>2, <1>3

\* Bounded sequences are sequences.
LEMMA SeqOfIsSeq == ASSUME NEW S, NEW n PROVE SeqOf(S, n) \subseteq Seq(S)
<1> SUFFICES ASSUME NEW s \in SeqOf(S, n) PROVE s \in Seq(S)
  OBVIOUS
<1>1. PICK m \in 0..n : s \in [1..m -> S]
  BY DEF SeqOf
<1> QED
  BY <1>1

-----------------------------------------------------------------------------
(***************************************************************************)
(* What the owner writes.                                                  *)
(***************************************************************************)

Unique(l) == NamedOnce(l.evses) /\ \A e \in ToSet(l.evses) : NamedOnce(e.connectors)

\* A Location in which no id is twice, unless the owner puts it there, has all
\* its parts so.
Inv == TypeOK /\ IdsAreUnique

\* An owner whose patches have no ids, and one that names nothing twice.
NoIds == "id" \notin site.slips
Careful == site.slips \subseteq {"path"}

\* Part of the Location has just been written.
JustWritten(l) ==
  \/ l.last_updated = clock
  \/ \E e \in ToSet(l.evses) :
       e.last_updated = clock \/ \E c \in ToSet(e.connectors) : c.last_updated = clock

\* What the owner's writes store, if anything.
Written ==
  \/ Refuse
  \/ \E k \in Key, l \in Location :
       /\ JustWritten(l)
       /\ Careful => Unique(l)
       /\ FiledUnderId => l.id = k \/ (locations[k] # Absent /\ l.id = locations[k].id)
       /\ Store(k, l)

\* What the constants allow of the owner.
LEMMA SiteIsTyped ==
  ASSUME TypeOK
  PROVE  /\ site.connectors \subseteq ConnectorId /\ \A k : EvsesOf(k) \subseteq Uid
         /\ Known \subseteq Key /\ clock \in Time /\ clock \in Nat
         /\ Careful => NoIds /\ "list" \notin site.slips
         /\ FiledUnderId => NoIds
<1>1. site \in [evses : SUBSET (Key \X Uid), connectors : SUBSET ConnectorId, slips : SUBSET Slip]
  BY LocationsAssumption DEF TypeOK
<1>2. clock \in Time /\ clock \in Nat
  BY LocationsAssumption DEF TypeOK, Time
<1> QED
  BY <1>1, <1>2 DEF EvsesOf, Known, Careful, NoIds, FiledUnderId

\* The lists in a body.
LEMMA ListsAreTyped ==
  ASSUME NEW S, NEW items \in Lists(S)
  PROVE  items \in Seq(S) /\ (Careful => NamedOnce(items))
BY SeqOfIsSeq DEF Lists, Careful

\* A list of what is in a larger set too.
LEMMA WiderSeq == ASSUME NEW S, NEW U, S \subseteq U PROVE Seq(S) \subseteq Seq(U)
  OBVIOUS

\* Connectors in a body.
LEMMA NewConnectorIsTyped ==
  ASSUME TypeOK, NEW Ids, Ids \subseteq ConnectorId, NEW c \in NewConnectors(Ids)
  PROVE  c \in Connector /\ c.id \in Ids /\ c.last_updated = clock
BY SiteIsTyped DEF NewConnectors, Connector

\* EVSEs in a body.
LEMMA NewEvseIsTyped ==
  ASSUME TypeOK, NEW Ids, Ids \subseteq Uid, NEW e \in NewEvses(Ids)
  PROVE  /\ e \in Evse /\ e.id \in Ids /\ e.last_updated = clock
         /\ Careful => NamedOnce(e.connectors)
<1> DEFINE Cs == NewConnectors(site.connectors)
<1>1. e \in [id : Ids, rev : Revision, last_updated : {clock}, connectors : Lists(Cs)]
  BY DEF NewEvses
<1>2. e.connectors \in Lists(Cs)
  BY <1>1
<1>3. Cs \subseteq Connector
  BY SiteIsTyped, NewConnectorIsTyped
<1> HIDE DEF Cs
<1>4. e.connectors \in Seq(Connector) /\ (Careful => NamedOnce(e.connectors))
  BY <1>2, <1>3, ListsAreTyped, WiderSeq
<1> QED
  BY <1>1, <1>4, SiteIsTyped DEF Evse

\* Locations in a body.
LEMMA NewLocationIsTyped ==
  ASSUME TypeOK, NEW i \in Key, NEW l \in NewLocations(i)
  PROVE  l \in Location /\ l.id = i /\ JustWritten(l) /\ (Careful => Unique(l))
<1> DEFINE Es == NewEvses(EvsesOf(i))
<1>1. l \in [id : {i}, rev : Revision, last_updated : {clock}, evses : Lists(Es)]
  BY DEF NewLocations
<1>2. l.evses \in Lists(Es)
  BY <1>1
<1>3. \A e \in Es : e \in Evse /\ (Careful => NamedOnce(e.connectors))
  BY SiteIsTyped, NewEvseIsTyped
<1> HIDE DEF Es
<1>4. l.evses \in Seq(Es) /\ (Careful => NamedOnce(l.evses))
  BY <1>2, ListsAreTyped
<1>5. l.evses \in Seq(Evse)
  BY <1>3, <1>4, WiderSeq
<1>6. ToSet(l.evses) \subseteq Es
  BY <1>4 DEF ToSet
<1>7. Careful => Unique(l)
  BY <1>3, <1>4, <1>6 DEF Unique
<1>8. l \in Location /\ l.id = i /\ l.last_updated = clock
  BY <1>1, <1>5, SiteIsTyped DEF Location
<1> QED
  BY <1>7, <1>8 DEF JustWritten

\* A patch of the owner, merged.  It keeps the lists, and the id where it has
\* none, and the type unless the required field is gone (apply_merge_patch).
LEMMA Merged ==
  ASSUME TypeOK, NEW Ids, NEW p \in Patches(Ids)
  PROVE  /\ p.last_updated = clock /\ (NoIds => p.id = Unset)
         /\ \A l \in Location : Ids \subseteq Key =>
              LET m == apply_merge_patch(l, p) IN
                /\ m.rev # Null => m \in Location
                /\ m.last_updated = clock /\ m.evses = l.evses /\ (p.id = Unset => m.id = l.id)
         /\ \A e \in Evse : Ids \subseteq Uid =>
              LET m == apply_merge_patch(e, p) IN
                /\ m.rev # Null => m \in Evse
                /\ m.last_updated = clock /\ m.connectors = e.connectors
                /\ p.id = Unset => m.id = e.id
         /\ \A c \in Connector : Ids \subseteq ConnectorId =>
              LET m == apply_merge_patch(c, p) IN
                /\ m.rev # Null => m \in Connector
                /\ m.last_updated = clock /\ (p.id = Unset => m.id = c.id)
<1>1. /\ p.id \in Ids \cup {Unset} /\ p.rev \in Revision \cup {Null, Unset}
      /\ p.last_updated = clock /\ (NoIds => p.id = Unset) /\ clock \in Time
  BY SiteIsTyped DEF Patches, Patch, NoIds
<1>2. ASSUME NEW x, NEW y PROVE Merge(x, y) = IF y = Unset THEN x ELSE y
  BY DEF Merge
<1>3. ASSUME NEW l \in Location, Ids \subseteq Key, NEW m, m = apply_merge_patch(l, p)
      PROVE  /\ m.rev # Null => m \in Location
             /\ m.last_updated = clock /\ m.evses = l.evses /\ (p.id = Unset => m.id = l.id)
  <2>1. m = [l EXCEPT !.id = Merge(l.id, p.id), !.rev = Merge(l.rev, p.rev), !.last_updated = clock]
    BY <1>1, <1>3 DEF apply_merge_patch
  <2> QED
    BY <1>1, <1>2, <1>3, <2>1 DEF Location
<1>4. ASSUME NEW e \in Evse, Ids \subseteq Uid, NEW m, m = apply_merge_patch(e, p)
      PROVE  /\ m.rev # Null => m \in Evse
             /\ m.last_updated = clock /\ m.connectors = e.connectors
             /\ p.id = Unset => m.id = e.id
  <2>1. m = [e EXCEPT !.id = Merge(e.id, p.id), !.rev = Merge(e.rev, p.rev), !.last_updated = clock]
    BY <1>1, <1>4 DEF apply_merge_patch
  <2> QED
    BY <1>1, <1>2, <1>4, <2>1 DEF Evse
<1>5. ASSUME NEW c \in Connector, Ids \subseteq ConnectorId, NEW m, m = apply_merge_patch(c, p)
      PROVE  /\ m.rev # Null => m \in Connector
             /\ m.last_updated = clock /\ (p.id = Unset => m.id = c.id)
  <2>1. m = [c EXCEPT !.id = Merge(c.id, p.id), !.rev = Merge(c.rev, p.rev), !.last_updated = clock]
    BY <1>1, <1>5 DEF apply_merge_patch
  <2> QED
    BY <1>1, <1>2, <1>5, <2>1 DEF Connector
<1> QED
  BY <1>1, <1>3, <1>4, <1>5

-----------------------------------------------------------------------------
(***************************************************************************)
(* What the writes below a Location do to it.                              *)
(***************************************************************************)

\* An EVSE written under an id, into a Location that is there.
EvseStored(k, u, e) ==
  \E es \in Seq(Evse) :
    /\ Alters(locations[k].evses, es, e)
    /\ e.id = u => Sets(locations[k].evses, es, e)
    /\ Store(k, [locations[k] EXCEPT !.evses = es])

\* A connector written under an id, into an EVSE that is there.
ConnectorStored(k, u, id, c) ==
  \E old \in get_evse(k, u), cs \in Seq(Connector) :
    /\ Alters(old.connectors, cs, c)
    /\ c.id = id => Sets(old.connectors, cs, c)
    /\ EvseStored(k, u, [old EXCEPT !.connectors = cs])

\* An EVSE that is there.
LEMMA EvseThere ==
  ASSUME TypeOK, NEW k \in Key, locations[k] # Absent, NEW u
  PROVE  LET es == locations[k].evses
             n  == First(At(es, u))
         IN  /\ locations[k] \in Location /\ es \in Seq(Evse)
             /\ \A e \in get_evse(k, u) :
                  /\ e \in Evse /\ e.id = u /\ e.connectors \in Seq(Connector)
                  /\ e \in ToSet(es) /\ get_evse(k, u) = {e}
                  /\ At(es, u) # {} /\ n \in DOMAIN es /\ e = es[n]
             /\ At(es, u) # {} => n \in DOMAIN es /\ get_evse(k, u) = {es[n]}
<1> DEFINE es == locations[k].evses
           n  == First(At(es, u))
<1>1. locations[k] \in Location /\ es \in Seq(Evse)
  BY DEF TypeOK, Location
<1>2. get_evse(k, u) = find(es, u)
  BY DEF get_evse
<1> HIDE DEF es
<1>3. \A e \in get_evse(k, u) : e \in Evse /\ e.id = u /\ e \in ToSet(es) /\ At(es, u) # {}
  BY <1>1, <1>2, Found
<1>4. At(es, u) # {} => n \in DOMAIN es /\ get_evse(k, u) = {es[n]}
  BY <1>1, <1>2, Place DEF find
<1>5. \A e \in get_evse(k, u) : e.connectors \in Seq(Connector)
  BY <1>3 DEF Evse
<1> HIDE DEF n
<1>6. \A e \in get_evse(k, u) : get_evse(k, u) = {e} /\ n \in DOMAIN es /\ e = es[n]
  BY <1>3, <1>4
<1> QED
  BY <1>1, <1>3, <1>4, <1>5, <1>6 DEF es, n

\* PUT of an EVSE (put_evse).
LEMMA PutEvseStored ==
  ASSUME TypeOK, NEW k \in Key, locations[k] # Absent, NEW e \in Evse, PutEvse(k, e)
  PROVE  EvseStored(k, e.id, e)
<1> DEFINE es == upsert_by(locations[k].evses, e)
<1>1. locations[k].evses \in Seq(Evse)
  BY EvseThere
<1>2. es \in Seq(Evse) /\ Alters(locations[k].evses, es, e) /\ Sets(locations[k].evses, es, e)
  BY <1>1, Upserted
<1>3. Store(k, [locations[k] EXCEPT !.evses = es])
  BY DEF PutEvse
<1> HIDE DEF es
<1> QED
  BY <1>2, <1>3 DEF EvseStored

\* The EVSE under a uid is replaced by another one.
LEMMA EvseReplaced ==
  ASSUME TypeOK, NEW k \in Key, locations[k] # Absent, NEW u, At(locations[k].evses, u) # {},
         NEW e \in Evse,
         Store(k, [locations[k] EXCEPT !.evses[First(At(locations[k].evses, u))] = e])
  PROVE  EvseStored(k, u, e)
<1> DEFINE n == First(At(locations[k].evses, u))
           es == [locations[k].evses EXCEPT ![n] = e]
<1>1. locations[k].evses \in Seq(Evse) /\ n \in DOMAIN locations[k].evses
  BY EvseThere
<1>2. [locations[k] EXCEPT !.evses[n] = e] = [locations[k] EXCEPT !.evses = es]
  OBVIOUS
<1>3. es \in Seq(Evse) /\ Alters(locations[k].evses, es, e)
  BY <1>1, Replaced
<1>4. e.id = u => Sets(locations[k].evses, es, e)
  BY <1>1, Replaced
<1> HIDE DEF es
<1> QED
  BY <1>2, <1>3, <1>4 DEF EvseStored

\* PATCH of an EVSE (patch_evse).
LEMMA PatchEvseStored ==
  ASSUME TypeOK, NEW k \in Key, NEW u, NEW Ids, Ids \subseteq Uid, NEW p \in Patches(Ids),
         PatchEvse(k, u, p)
  PROVE  \/ Refuse
         \/ /\ locations[k] # Absent
            /\ \E old \in get_evse(k, u) :
                 apply_merge_patch(old, p) \in Evse /\ EvseStored(k, u, apply_merge_patch(old, p))
<1>1. CASE locations[k] = Absent \/ get_evse(k, u) = {}
  BY <1>1 DEF PatchEvse
<1>2. CASE ~(locations[k] = Absent \/ get_evse(k, u) = {})
  <2> DEFINE n == First(At(locations[k].evses, u))
             old == locations[k].evses[n]
             merged == apply_merge_patch(old, p)
  <2>1. At(locations[k].evses, u) # {}
    BY <1>2, EvseThere
  <2>2. old \in get_evse(k, u) /\ old \in Evse
    BY <1>2, <2>1, EvseThere
  <2>3. StoreMerged(k, merged, [locations[k] EXCEPT !.evses[n] = merged])
    BY <1>2 DEF PatchEvse
  <2>4. merged.rev # Null => merged \in Evse
    BY <2>2, Merged
  <2> HIDE DEF merged
  <2>5. CASE merged.rev = Null
    BY <2>3, <2>5 DEF StoreMerged
  <2>6. CASE merged.rev # Null
    <3>1. Store(k, [locations[k] EXCEPT !.evses[First(At(locations[k].evses, u))] = merged])
      BY <2>3, <2>6 DEF StoreMerged
    <3>2. EvseStored(k, u, merged)
      BY <1>2, <2>1, <2>4, <2>6, <3>1, EvseReplaced
    <3> QED
      BY <1>2, <2>2, <2>4, <2>6, <3>2 DEF merged
  <2> QED
    BY <2>5, <2>6
<1> QED
  BY <1>1, <1>2

\* The connectors of the EVSE under a uid are replaced by other ones.
LEMMA ConnectorsReplaced ==
  ASSUME TypeOK, NEW k \in Key, locations[k] # Absent, NEW u, NEW old \in get_evse(k, u),
         NEW cs \in Seq(Connector),
         Store(k, [locations[k] EXCEPT !.evses[First(At(locations[k].evses, u))].connectors = cs])
  PROVE  EvseStored(k, u, [old EXCEPT !.connectors = cs])
<1> DEFINE n == First(At(locations[k].evses, u))
           e == [old EXCEPT !.connectors = cs]
<1>1. /\ At(locations[k].evses, u) # {} /\ n \in DOMAIN locations[k].evses
      /\ old \in Evse /\ old = locations[k].evses[n]
  BY EvseThere
<1>2. e \in Evse
  BY <1>1 DEF Evse
<1>3. [locations[k] EXCEPT !.evses[n].connectors = cs] = [locations[k] EXCEPT !.evses[n] = e]
  BY <1>1
<1> HIDE DEF e
<1>4. Store(k, [locations[k] EXCEPT !.evses[First(At(locations[k].evses, u))] = e])
  BY <1>3
<1>5. EvseStored(k, u, e)
  BY <1>1, <1>2, <1>4, EvseReplaced
<1> QED
  BY <1>5 DEF e

\* PUT of a connector (put_connector).
LEMMA PutConnectorStored ==
  ASSUME TypeOK, NEW k \in Key, NEW u, NEW c \in Connector, PutConnector(k, u, c)
  PROVE  Refuse \/ (locations[k] # Absent /\ ConnectorStored(k, u, c.id, c))
<1>1. CASE locations[k] = Absent \/ get_evse(k, u) = {}
  BY <1>1 DEF PutConnector
<1>2. CASE ~(locations[k] = Absent \/ get_evse(k, u) = {})
  <2> DEFINE n == First(At(locations[k].evses, u))
  <2>1. PICK old \in get_evse(k, u) : TRUE
    BY <1>2
  <2>2. /\ old \in Evse /\ old.connectors \in Seq(Connector)
        /\ n \in DOMAIN locations[k].evses /\ old = locations[k].evses[n]
    BY <1>2, <2>1, EvseThere
  <2> DEFINE cs == upsert_by(old.connectors, c)
  <2>3. cs \in Seq(Connector) /\ Alters(old.connectors, cs, c) /\ Sets(old.connectors, cs, c)
    BY <2>2, Upserted
  <2>4. Store(k, [locations[k] EXCEPT !.evses[n].connectors = cs])
    BY <1>2, <2>2 DEF PutConnector
  <2> HIDE DEF cs
  <2>5. EvseStored(k, u, [old EXCEPT !.connectors = cs])
    BY <1>2, <2>1, <2>3, <2>4, ConnectorsReplaced
  <2> QED
    BY <1>2, <2>1, <2>3, <2>5 DEF ConnectorStored
<1> QED
  BY <1>1, <1>2

\* PATCH of a connector (patch_connector).
LEMMA PatchConnectorStored ==
  ASSUME TypeOK, NEW k \in Key, NEW u, NEW id, NEW Ids, Ids \subseteq ConnectorId,
         NEW p \in Patches(Ids), PatchConnector(k, u, id, p)
  PROVE  \/ Refuse
         \/ /\ locations[k] # Absent
            /\ \E old \in get_evse(k, u) : \E c \in find(old.connectors, id) :
                 /\ apply_merge_patch(c, p) \in Connector
                 /\ ConnectorStored(k, u, id, apply_merge_patch(c, p))
<1>1. CASE locations[k] = Absent \/ get_connector(k, u, id) = {}
  BY <1>1 DEF PatchConnector
<1>2. CASE ~(locations[k] = Absent \/ get_connector(k, u, id) = {})
  <2> DEFINE n == First(At(locations[k].evses, u))
  <2>1. PICK old \in get_evse(k, u) : find(old.connectors, id) # {}
    BY <1>2 DEF get_connector
  <2>2. /\ old \in Evse /\ old.connectors \in Seq(Connector)
        /\ n \in DOMAIN locations[k].evses /\ old = locations[k].evses[n]
    BY <1>2, <2>1, EvseThere
  <2> DEFINE m == First(At(old.connectors, id))
             c == old.connectors[m]
             merged == apply_merge_patch(c, p)
             cs == [old.connectors EXCEPT ![m] = merged]
  <2>3. At(old.connectors, id) # {}
    BY <2>1 DEF find
  <2>4. m \in DOMAIN old.connectors /\ c \in Connector /\ find(old.connectors, id) = {c}
    BY <2>2, <2>3, Place DEF find
  <2>5. StoreMerged(k, merged, [locations[k] EXCEPT !.evses[n].connectors[m] = merged])
    BY <1>2, <2>2 DEF PatchConnector
  <2>6. [locations[k] EXCEPT !.evses[n].connectors[m] = merged]
          = [locations[k] EXCEPT !.evses[n].connectors = cs]
    BY <2>2
  <2>7. merged.rev # Null => merged \in Connector
    BY <2>4, Merged
  <2> HIDE DEF merged
  <2>8. CASE merged.rev = Null
    BY <2>5, <2>8 DEF StoreMerged
  <2>9. CASE merged.rev # Null
    <3>1. merged \in Connector
      BY <2>7, <2>9
    <3>2. /\ cs \in Seq(Connector) /\ Alters(old.connectors, cs, merged)
          /\ merged.id = id => Sets(old.connectors, cs, merged)
      BY <2>2, <2>3, <2>4, <3>1, Replaced
    <3>3. Store(k, [locations[k] EXCEPT !.evses[n].connectors = cs])
      BY <2>5, <2>6, <2>9 DEF StoreMerged
    <3> HIDE DEF cs
    <3>4. EvseStored(k, u, [old EXCEPT !.connectors = cs])
      BY <1>2, <2>1, <3>2, <3>3, ConnectorsReplaced
    <3>5. ConnectorStored(k, u, id, merged)
      BY <2>1, <3>2, <3>4 DEF ConnectorStored
    <3> QED
      BY <1>2, <2>1, <2>4, <3>1, <3>5 DEF merged
  <2> QED
    BY <2>8, <2>9
<1> QED
  BY <1>1, <1>2

-----------------------------------------------------------------------------
(***************************************************************************)
(* The steps.                                                              *)
(***************************************************************************)

\* Nothing is stored before the owner's first PUT (LocationsConfig::new).
LEMMA InitInv == Init => Inv
<1> SUFFICES ASSUME Init PROVE Inv
  OBVIOUS
<1>1. 0 \in Time /\ 0 \in 0..0
  BY LocationsAssumption DEF Time
<1>2. locations \in [Key -> Location \cup {Absent}] /\ mirror = locations
  BY DEF Init
<1>3. \A k \in Key : locations[k] = Absent
  BY DEF Init
<1> QED
  BY <1>1, <1>2, <1>3 DEF Init, Inv, TypeOK, IdsAreUnique

\* Inv, in the terms of this module.
LEMMA InvUnique ==
  ASSUME Inv, Careful, NEW k \in Key, locations[k] # Absent
  PROVE  Unique(locations[k])
BY DEF Inv, IdsAreUnique, Careful, Unique

\* A Location is stored.
LEMMA StoreInv ==
  ASSUME Inv, NEW k \in Key, NEW l \in Location, Careful => Unique(l), Store(k, l)
  PROVE  Inv'
<1>1. /\ UNCHANGED <<site, service, clock, mirror, pulled>>
      /\ locations' \in [Key -> Location \cup {Absent}]
      /\ \A j \in Key : locations'[j] = IF j = k THEN l ELSE locations[j]
  BY DEF Inv, TypeOK, Store
<1>2. TypeOK'
  BY <1>1 DEF Inv, TypeOK
<1>3. Careful => \A j \in Key : locations'[j] # Absent => Unique(locations'[j])
  BY <1>1, InvUnique
<1>4. IdsAreUnique'
  BY <1>1, <1>3 DEF IdsAreUnique, Careful, Unique
<1> QED
  BY <1>2, <1>4 DEF Inv

\* Nothing changes.
LEMMA UnchangedInv == ASSUME Inv, UNCHANGED vars PROVE Inv'
BY DEF Inv, TypeOK, IdsAreUnique, vars

\* Something comes into the mirror.
LEMMA MirrorInv ==
  ASSUME Inv, NEW k \in Key, NEW l \in Location, Mirror(k, l)
  PROVE  Inv'
BY DEF Inv, TypeOK, IdsAreUnique, Mirror

\* So do the writes.
LEMMA WrittenInv == ASSUME Inv, Written PROVE Inv'
BY StoreInv, UnchangedInv DEF Written, Refuse

\* PUT of a Location (put).
LEMMA PutWritten ==
  ASSUME Inv, NEW path \in Key, NEW i \in Body(path, Known), NEW l \in NewLocations(i), Put(path, l)
  PROVE  Written
<1>1. i \in Key /\ ("path" \notin site.slips => i = path)
  BY SiteIsTyped DEF Body, Inv
<1>2. l \in Location /\ l.id = i /\ JustWritten(l) /\ (Careful => Unique(l))
  BY <1>1, NewLocationIsTyped DEF Inv
<1>3. PICK k \in Key : Store(k, l) /\ (FiledUnderId => l.id = k)
  BY <1>1, <1>2 DEF Put, FiledUnderId
<1> QED
  BY <1>2, <1>3 DEF Written

\* PATCH of a Location (patch_location).
LEMMA PatchLocationWritten ==
  ASSUME Inv, NEW k \in Key, NEW p \in Patches(Known), PatchLocation(k, p)
  PROVE  Written
<1>1. CASE locations[k] = Absent
  BY <1>1 DEF Written, PatchLocation
<1>2. CASE locations[k] # Absent
  <2> DEFINE merged == apply_merge_patch(locations[k], p)
  <2>1. TypeOK /\ locations[k] \in Location /\ Known \subseteq Key
    BY <1>2, SiteIsTyped DEF Inv, TypeOK
  <2>2. /\ merged.rev # Null => merged \in Location
        /\ merged.last_updated = clock /\ merged.evses = locations[k].evses
        /\ NoIds => merged.id = locations[k].id
    BY <2>1, Merged
  <2>3. StoreMerged(k, merged, merged)
    BY <1>2 DEF PatchLocation
  <2> HIDE DEF merged
  <2>4. Careful => Unique(merged)
    BY <1>2, <2>2, InvUnique DEF Unique
  <2>5. FiledUnderId => merged.id = locations[k].id
    BY <2>1, <2>2, SiteIsTyped
  <2> QED
    BY <1>2, <2>2, <2>3, <2>4, <2>5 DEF Written, JustWritten, StoreMerged
<1> QED
  BY <1>1, <1>2

\* An EVSE that is new, or has a new part, is written.
LEMMA EvseWritten ==
  ASSUME Inv, NEW k \in Key, locations[k] # Absent, NEW u, NEW e \in Evse, EvseStored(k, u, e),
         e.last_updated = clock \/ \E c \in ToSet(e.connectors) : c.last_updated = clock,
         Careful => e.id = u /\ NamedOnce(e.connectors)
  PROVE  Written
<1>1. locations[k] \in Location
  BY DEF Inv, TypeOK
<1>2. PICK es \in Seq(Evse) :
        /\ Alters(locations[k].evses, es, e)
        /\ e.id = u => Sets(locations[k].evses, es, e)
        /\ Store(k, [locations[k] EXCEPT !.evses = es])
  BY DEF EvseStored
<1> DEFINE l == [locations[k] EXCEPT !.evses = es]
<1>3. l \in Location /\ l.evses = es /\ l.id = locations[k].id
  BY <1>1 DEF Location
<1>4. Store(k, l)
  BY <1>2
<1> HIDE DEF l
<1>5. JustWritten(l)
  BY <1>2, <1>3 DEF JustWritten, Alters
<1>6. Careful => Unique(l)
  BY <1>2, <1>3, InvUnique DEF Unique, Alters, Sets
<1> QED
  BY <1>3, <1>4, <1>5, <1>6 DEF Written

\* The same of a connector.
LEMMA ConnectorWritten ==
  ASSUME Inv, NEW k \in Key, locations[k] # Absent, NEW u, NEW id, NEW c \in Connector,
         ConnectorStored(k, u, id, c), c.last_updated = clock, Careful => c.id = id
  PROVE  Written
<1>1. PICK old \in get_evse(k, u), cs \in Seq(Connector) :
        /\ Alters(old.connectors, cs, c)
        /\ c.id = id => Sets(old.connectors, cs, c)
        /\ EvseStored(k, u, [old EXCEPT !.connectors = cs])
  BY DEF ConnectorStored
<1>2. old \in Evse /\ old.id = u /\ old \in ToSet(locations[k].evses)
  BY EvseThere DEF Inv
<1> DEFINE e == [old EXCEPT !.connectors = cs]
<1>3. e \in Evse /\ e.id = u /\ e.connectors = cs
  BY <1>2 DEF Evse
<1>4. EvseStored(k, u, e)
  BY <1>1
<1> HIDE DEF e
<1>5. Careful => NamedOnce(e.connectors)
  BY <1>1, <1>2, <1>3, InvUnique DEF Unique, Sets
<1>6. c \in ToSet(e.connectors)
  BY <1>1, <1>3 DEF Alters
<1> QED
  BY <1>3, <1>4, <1>5, <1>6, EvseWritten

\* The writes below a Location.
LEMMA BelowWritten ==
  ASSUME Inv, NEW k \in Key, NEW u \in EvsesOf(k), Below(k, u)
  PROVE  Written
<1>1. /\ TypeOK /\ site.connectors \subseteq ConnectorId /\ EvsesOf(k) \subseteq Uid
      /\ Careful => NoIds
  BY SiteIsTyped DEF Inv
<1>2. ASSUME NEW e \in NewEvses(Body(u, EvsesOf(k))), evse_put(k, u, e) PROVE Written
  <2>1. Body(u, EvsesOf(k)) \subseteq Uid
    BY <1>1 DEF Body
  <2>2. e \in Evse /\ e.last_updated = clock /\ (Careful => NamedOnce(e.connectors))
    BY <1>1, <2>1, NewEvseIsTyped
  <2>3. PutEvse(k, e)
    BY <1>2 DEF evse_put
  <2>4. CASE locations[k] = Absent
    BY <2>3, <2>4 DEF PutEvse, Written
  <2>5. CASE locations[k] # Absent
    BY <1>1, <2>2, <2>3, <2>5, PutEvseStored, EvseWritten
  <2> QED
    BY <2>4, <2>5
<1>3. ASSUME NEW p \in Patches(EvsesOf(k)), PatchEvse(k, u, p) PROVE Written
  <2>1. CASE Refuse
    BY <2>1 DEF Written
  <2>2. CASE ~Refuse
    <3>1. PICK old \in get_evse(k, u) :
            /\ locations[k] # Absent
            /\ apply_merge_patch(old, p) \in Evse /\ EvseStored(k, u, apply_merge_patch(old, p))
      BY <1>1, <1>3, <2>2, PatchEvseStored
    <3> DEFINE e == apply_merge_patch(old, p)
    <3>2. old \in Evse /\ old.id = u /\ old \in ToSet(locations[k].evses)
      BY <1>1, <3>1, EvseThere
    <3>3. e.last_updated = clock /\ e.connectors = old.connectors /\ (NoIds => e.id = u)
      BY <1>1, <3>2, Merged
    <3>4. e \in Evse /\ EvseStored(k, u, e)
      BY <3>1
    <3> HIDE DEF e
    <3>5. Careful => e.id = u /\ NamedOnce(e.connectors)
      BY <1>1, <3>1, <3>2, <3>3, InvUnique DEF Unique
    <3> QED
      BY <3>1, <3>3, <3>4, <3>5, EvseWritten
  <2> QED
    BY <2>1, <2>2
<1>4. ASSUME NEW id \in site.connectors, NEW c \in NewConnectors(Body(id, site.connectors)),
             connector_put(k, u, id, c)
      PROVE  Written
  <2>1. Body(id, site.connectors) \subseteq ConnectorId
    BY <1>1 DEF Body
  <2>2. c \in Connector /\ c.last_updated = clock
    BY <1>1, <2>1, NewConnectorIsTyped
  <2>3. Refuse \/ (locations[k] # Absent /\ ConnectorStored(k, u, c.id, c))
    BY <1>1, <1>4, <2>2, PutConnectorStored DEF connector_put
  <2> QED
    BY <2>2, <2>3, ConnectorWritten DEF Written
<1>5. ASSUME NEW id \in site.connectors, NEW p \in Patches(site.connectors),
             PatchConnector(k, u, id, p)
      PROVE  Written
  <2>1. CASE Refuse
    BY <2>1 DEF Written
  <2>2. CASE ~Refuse
    <3>1. PICK old \in get_evse(k, u) : \E c \in find(old.connectors, id) :
            /\ locations[k] # Absent
            /\ apply_merge_patch(c, p) \in Connector
            /\ ConnectorStored(k, u, id, apply_merge_patch(c, p))
      BY <1>1, <1>5, <2>2, PatchConnectorStored
    <3>2. PICK c \in find(old.connectors, id) :
            /\ locations[k] # Absent
            /\ apply_merge_patch(c, p) \in Connector
            /\ ConnectorStored(k, u, id, apply_merge_patch(c, p))
      BY <3>1
    <3>3. old.connectors \in Seq(Connector)
      BY <1>1, <3>2, EvseThere
    <3>4. c \in Connector /\ c.id = id
      BY <3>3, Found
    <3>5. apply_merge_patch(c, p).last_updated = clock /\ (NoIds => apply_merge_patch(c, p).id = id)
      BY <1>1, <3>4, Merged
    <3> QED
      BY <1>1, <3>2, <3>5, ConnectorWritten
  <2> QED
    BY <2>1, <2>2
<1> QED
  BY <1>2, <1>3, <1>4, <1>5 DEF Below

\* The owner's writes.
LEMMA OwnerWrites == ASSUME Inv, Owner PROVE Written
<1>1. Known \subseteq Key
  BY DEF Known
<1> QED
  BY <1>1, PutWritten, PatchLocationWritten, BelowWritten DEF Owner

\* Time passes.
LEMMA TickInv == ASSUME Inv, Tick PROVE Inv'
<1>1. clock' \in Time /\ pulled' \in 0..clock'
  BY LocationsAssumption DEF Inv, TypeOK, Tick, Time
<1> QED
  BY <1>1 DEF Inv, TypeOK, IdsAreUnique, Tick

\* A pull copies what is in the store (list).
LEMMA PullInv == ASSUME Inv, Pull PROVE Inv'
<1> DEFINE listed(i) == {k \in list(pulled) : locations[k].id = i}
<1>1. PICK kept \in [Key -> Key] :
        /\ \A i \in Key : listed(i) = {} \/ kept[i] \in listed(i)
        /\ mirror' = [i \in Key |-> IF listed(i) = {} THEN mirror[i] ELSE locations[kept[i]]]
  BY DEF Pull
<1> HIDE DEF listed
<1>2. mirror' \in [Key -> Location \cup {Absent}]
  BY <1>1 DEF Inv, TypeOK
<1>3. clock \in Nat
  BY SiteIsTyped DEF Inv
<1>4. pulled' \in 0..clock' /\ UNCHANGED <<locations, site, service, clock>>
  BY <1>3 DEF Pull
<1> QED
  BY <1>2, <1>4 DEF Inv, TypeOK, IdsAreUnique

\* What is in the store under an id (get_by_id and the two below it).
LEMMA FoundById ==
  ASSUME TypeOK, NEW i \in Key
  PROVE  /\ \A l \in get_by_id(i) : l \in Location /\ l.evses \in Seq(Evse)
         /\ \A u : \A e \in get_evse_by_id(i, u) : e \in Evse /\ e.connectors \in Seq(Connector)
         /\ \A u, id : \A c \in get_connector_by_id(i, u, id) : c \in Connector
<1>1. \A l \in get_by_id(i) : l \in Location /\ l.evses \in Seq(Evse)
  BY DEF get_by_id, TypeOK, Location
<1>2. \A u : \A e \in get_evse_by_id(i, u) : e \in Evse
  BY <1>1, Found DEF get_evse_by_id
<1>3. \A u : \A e \in get_evse_by_id(i, u) : e.connectors \in Seq(Connector)
  BY <1>2 DEF Evse
<1>4. \A u, id : \A c \in get_connector_by_id(i, u, id) : c \in Connector
  BY <1>3, Found DEF get_connector_by_id
<1> QED
  BY <1>1, <1>2, <1>3, <1>4

\* Single objects are fetched.
LEMMA FetchInv == ASSUME Inv, Fetch PROVE Inv'
<1> PICK i \in Key :
      \/ FetchLocation(i)
      \/ \E u \in Uid : FetchEvse(i, u) \/ \E id \in ConnectorId : FetchConnector(i, u, id)
  BY DEF Fetch
<1> DEFINE l == mirror[i]
<1>1. TypeOK /\ (l # Absent => l \in Location /\ l.evses \in Seq(Evse))
  BY DEF Inv, TypeOK, Location
<1>2. ASSUME NEW es \in Seq(Evse), l # Absent, Mirror(i, [l EXCEPT !.evses = es]) PROVE Inv'
  <2>1. [l EXCEPT !.evses = es] \in Location
    BY <1>1, <1>2 DEF Location
  <2> QED
    BY <1>2, <2>1, MirrorInv
<1>3. CASE FetchLocation(i)
  BY <1>1, <1>3, FoundById, MirrorInv DEF FetchLocation
<1>4. ASSUME NEW u \in Uid, FetchEvse(i, u) PROVE Inv'
  <2>1. PICK e \in get_evse_by_id(i, u) : Mirror(i, [l EXCEPT !.evses = upsert_by(@, e)])
    BY <1>4 DEF FetchEvse
  <2>2. e \in Evse /\ l # Absent
    BY <1>1, <1>4, FoundById DEF FetchEvse
  <2>3. upsert_by(l.evses, e) \in Seq(Evse)
    BY <1>1, <2>2, Upserted
  <2> QED
    BY <1>2, <2>1, <2>2, <2>3
<1>5. ASSUME NEW u \in Uid, NEW id \in ConnectorId, FetchConnector(i, u, id) PROVE Inv'
  <2> DEFINE n == First(At(l.evses, u))
  <2>1. PICK c \in get_connector_by_id(i, u, id) :
          Mirror(i, [l EXCEPT !.evses[n].connectors = upsert_by(@, c)])
    BY <1>5 DEF FetchConnector
  <2>2. c \in Connector /\ l # Absent /\ At(l.evses, u) # {}
    BY <1>1, <1>5, FoundById DEF FetchConnector
  <2>3. n \in DOMAIN l.evses /\ l.evses[n] \in Evse
    BY <1>1, <2>2, Place
  <2> HIDE DEF n
  <2> DEFINE cs == upsert_by(l.evses[n].connectors, c)
             es == [l.evses EXCEPT ![n] = [l.evses[n] EXCEPT !.connectors = cs]]
  <2>4. l.evses[n].connectors \in Seq(Connector)
    BY <2>3 DEF Evse
  <2>5. cs \in Seq(Connector)
    BY <2>2, <2>4, Upserted
  <2>6. [l EXCEPT !.evses[n].connectors = upsert_by(@, c)] = [l EXCEPT !.evses = es]
    OBVIOUS
  <2> HIDE DEF cs
  <2>7. [l.evses[n] EXCEPT !.connectors = cs] \in Evse
    BY <2>3, <2>5 DEF Evse
  <2>8. es \in Seq(Evse)
    BY <1>1, <2>2, <2>3, <2>7
  <2> QED
    BY <1>2, <2>1, <2>2, <2>6, <2>8
<1> QED
  BY <1>3, <1>4, <1>5

\* Every step keeps the invariant.
LEMMA NextInv == Inv /\ [Next]_vars => Inv'
BY OwnerWrites, WrittenInv, TickInv, PullInv, FetchInv, UnchangedInv DEF Next

LEMMA Invariance == Spec => []Inv
BY InitInv, NextInv, PTL DEF Spec

-----------------------------------------------------------------------------
\* Whatever is written, patched, pulled and fetched has its type, whatever
\* slips the owner makes.
THEOREM TypeCorrect == Spec => []TypeOK
<1>1. Inv => TypeOK
  BY DEF Inv
<1> QED
  BY <1>1, Invariance, PTL

\* An owner that names nothing twice and patches no id never brings an id into
\* a list twice, also where its paths name other objects than its bodies
\* (upsert_by, evse_put, connector_put).
THEOREM NoIdTwice == Spec => []IdsAreUnique
<1>1. Inv => IdsAreUnique
  BY DEF Inv
<1> QED
  BY <1>1, Invariance, PTL

-----------------------------------------------------------------------------
(***************************************************************************)
(* Why a pull brings the mirror up to date: what is not listed any more,   *)
(* because it was stamped before the last pull, is in the mirror already.  *)
(***************************************************************************)

Filed == \A k \in Key : locations[k] # Absent => locations[k].id = k

Mirrored ==
  \A k \in Key :
    (locations[k] # Absent /\ Bumped(locations[k]) /\ locations[k].last_updated < pulled)
      => mirror[k] = locations[k]

PullInvariant == Inv /\ (FiledUnderId => Filed /\ Mirrored)

\* A Location part of which has just been written is not older than that, or a
\* part is newer than the whole.
LEMMA WrittenIsNew ==
  ASSUME Inv, NEW l \in Location, JustWritten(l), Bumped(l)
  PROVE  ~(l.last_updated < pulled)
<1>1. clock \in Nat /\ pulled \in Nat /\ pulled <= clock /\ l.last_updated \in Nat
  BY LocationsAssumption DEF Inv, TypeOK, Time, Location
<1>2. clock <= l.last_updated
  BY <1>1 DEF JustWritten, Bumped
<1> QED
  BY <1>1, <1>2

\* A write leaves a Location that the next pull lists.
LEMMA WritePulled ==
  ASSUME PullInvariant, Owner
  PROVE  PullInvariant'
<1>1. Inv /\ Written /\ Inv'
  BY OwnerWrites, WrittenInv DEF PullInvariant
<1> SUFFICES ASSUME FiledUnderId' PROVE Filed' /\ Mirrored'
  BY <1>1 DEF PullInvariant
<1>2. CASE Refuse
  BY <1>2 DEF PullInvariant, Refuse, vars, FiledUnderId, Filed, Mirrored
<1>3. CASE ~Refuse
  <2>1. PICK k \in Key, l \in Location :
             /\ JustWritten(l)
             /\ FiledUnderId => l.id = k \/ (locations[k] # Absent /\ l.id = locations[k].id)
             /\ Store(k, l)
    BY <1>1, <1>3 DEF Written
  <2>2. /\ UNCHANGED <<site, service, clock, mirror, pulled>>
        /\ \A j \in Key : locations'[j] = IF j = k THEN l ELSE locations[j]
    BY <1>1, <2>1 DEF Store, Inv, TypeOK
  <2>3. FiledUnderId /\ Filed /\ Mirrored
    BY <2>2 DEF FiledUnderId, PullInvariant
  <2>4. l.id = k
    BY <2>1, <2>3 DEF Filed
  <2>5. Filed'
    BY <2>2, <2>3, <2>4 DEF Filed
  <2>6. Bumped(l) => ~(l.last_updated < pulled)
    BY <1>1, <2>1, WrittenIsNew
  <2>7. Mirrored'
    <3> SUFFICES ASSUME NEW j \in Key, locations'[j] # Absent, Bumped(locations'[j]),
                        locations'[j].last_updated < pulled'
                 PROVE  mirror'[j] = locations'[j]
      BY DEF Mirrored, Bumped
    <3>1. CASE j = k
      BY <2>2, <2>6, <3>1
    <3>2. CASE j # k
      BY <2>2, <2>3, <3>2 DEF Mirrored
    <3> QED
      BY <3>1, <3>2
  <2> QED
    BY <2>5, <2>7
<1> QED
  BY <1>2, <1>3

\* A pull is complete.
LEMMA PullCompletes ==
  ASSUME PullInvariant, Pull, FiledUnderId, NEW k \in Key,
         locations[k] # Absent, Bumped(locations[k])
  PROVE  mirror'[k] = locations[k]
<1> DEFINE listed(i) == {j \in list(pulled) : locations[j].id = i}
<1>1. PICK kept \in [Key -> Key] :
        /\ \A i \in Key : listed(i) = {} \/ kept[i] \in listed(i)
        /\ mirror' = [i \in Key |-> IF listed(i) = {} THEN mirror[i] ELSE locations[kept[i]]]
  BY DEF Pull
<1>2. Filed /\ Mirrored
  BY DEF PullInvariant
<1>3. listed(k) \subseteq {k}
  BY <1>2 DEF Filed, list
<1>4. pulled \in Nat /\ locations[k].last_updated \in Nat
  BY LocationsAssumption DEF PullInvariant, Inv, TypeOK, Time, Location
<1>5. CASE locations[k].last_updated >= pulled
  <2>1. k \in listed(k)
    BY <1>2, <1>5 DEF list, Filed
  <2> HIDE DEF listed
  <2> QED
    BY <1>1, <1>3, <2>1
<1>6. CASE ~(locations[k].last_updated >= pulled)
  <2>1. listed(k) = {}
    BY <1>3, <1>6 DEF list
  <2>2. mirror[k] = locations[k]
    BY <1>2, <1>4, <1>6 DEF Mirrored
  <2> HIDE DEF listed
  <2> QED
    BY <1>1, <2>1, <2>2
<1> QED
  BY <1>5, <1>6

\* What is fetched in between is what is there: a mirrored Location stays one.
LEMMA FetchPulled ==
  ASSUME PullInvariant, Fetch, FiledUnderId, NEW k \in Key, locations[k] # Absent,
         mirror[k] = locations[k]
  PROVE  mirror'[k] = locations[k]
<1>1. Inv /\ Filed /\ TypeOK
  BY DEF PullInvariant, Inv
<1>2. PICK i \in Key :
      \/ FetchLocation(i)
      \/ \E u \in Uid : FetchEvse(i, u) \/ \E id \in ConnectorId : FetchConnector(i, u, id)
  BY DEF Fetch
<1>3. \A l : Mirror(i, l) => mirror'[k] = IF k = i THEN l ELSE mirror[k]
  BY <1>1 DEF Mirror, TypeOK
<1>4. get_by_id(k) = {locations[k]}
  BY <1>1 DEF get_by_id, Filed
<1>5. CASE FetchLocation(i)
  BY <1>3, <1>4, <1>5 DEF FetchLocation
<1> DEFINE l == locations[k]
           es == l.evses
<1>6. l \in Location /\ es \in Seq(Evse) /\ l = [l EXCEPT !.evses = es]
  BY <1>1 DEF TypeOK, Location
<1>7. ASSUME NEW u \in Uid, FetchEvse(i, u) PROVE mirror'[k] = l
  <2>1. PICK e \in get_evse_by_id(i, u) : Mirror(i, [mirror[i] EXCEPT !.evses = upsert_by(@, e)])
    BY <1>7 DEF FetchEvse
  <2>2. CASE i = k
    <3>1. e \in find(es, u)
      BY <1>4, <2>2 DEF get_evse_by_id
    <3>2. upsert_by(es, e) = es
      BY <1>6, <3>1, UpsertFound
    <3> QED
      BY <1>3, <1>6, <2>1, <2>2, <3>2
  <2>3. CASE i # k
    BY <1>3, <2>1, <2>3
  <2> QED
    BY <2>2, <2>3
<1>8. ASSUME NEW u \in Uid, NEW id \in ConnectorId, FetchConnector(i, u, id) PROVE mirror'[k] = l
  <2>1. PICK c \in get_connector_by_id(i, u, id) :
          Mirror(i, [mirror[i] EXCEPT !.evses[First(At(mirror[i].evses, u))].connectors =
                       upsert_by(@, c)])
    BY <1>8 DEF FetchConnector
  <2>2. CASE i = k
    <3> DEFINE n == First(At(es, u))
               cs == es[n].connectors
    <3>1. PICK e \in find(es, u) : c \in find(e.connectors, id)
      BY <1>4, <2>2 DEF get_connector_by_id, get_evse_by_id
    <3>2. At(es, u) # {} /\ e = es[n]
      BY <3>1 DEF find
    <3>3. n \in DOMAIN es /\ es[n] \in Evse
      BY <1>6, <3>2, Place
    <3> HIDE DEF n
    <3>4. cs \in Seq(Connector) /\ c \in find(cs, id)
      BY <3>1, <3>2, <3>3 DEF Evse
    <3>5. upsert_by(cs, c) = cs
      BY <3>4, UpsertFound
    <3>6. [l EXCEPT !.evses[n].connectors = upsert_by(@, c)] = [l EXCEPT !.evses[n].connectors = cs]
      BY <3>5
    <3>7. [es[n] EXCEPT !.connectors = cs] = es[n]
      BY <3>3 DEF Evse
    <3>8. [es EXCEPT ![n].connectors = cs] = es
      BY <1>6, <3>3, <3>7
    <3>9. [l EXCEPT !.evses[n].connectors = cs] = l
      BY <1>6, <3>8 DEF Location
    <3> QED
      BY <1>3, <2>1, <2>2, <3>6, <3>9 DEF n
  <2>3. CASE i # k
    BY <1>3, <2>1, <2>3
  <2> QED
    BY <2>2, <2>3
<1> QED
  BY <1>2, <1>5, <1>7, <1>8

\* Every step keeps it so.
LEMMA PullInvariantKept == PullInvariant /\ [Next]_vars => PullInvariant'
<1> SUFFICES ASSUME PullInvariant, [Next]_vars PROVE PullInvariant'
  OBVIOUS
<1>1. Inv /\ Inv'
  BY NextInv DEF PullInvariant
<1>2. CASE Owner
  BY <1>2, WritePulled
<1>3. CASE UNCHANGED <<locations, mirror, pulled, service, site>>
  BY <1>1, <1>3 DEF PullInvariant, FiledUnderId, Filed, Mirrored
<1>4. CASE Pull
  <2>1. UNCHANGED <<locations, service, site>>
    BY <1>4 DEF Pull
  <2>2. FiledUnderId' = FiledUnderId
    BY <2>1 DEF FiledUnderId
  <2>3. FiledUnderId => Filed'
    BY <2>1 DEF PullInvariant, Filed
  <2>4. FiledUnderId => Mirrored'
    BY <1>4, <2>1, PullCompletes DEF Mirrored
  <2> QED
    BY <1>1, <2>2, <2>3, <2>4 DEF PullInvariant
<1>5. CASE Fetch
  <2>1. UNCHANGED <<locations, service, site, pulled>>
    BY <1>5 DEF Fetch, FetchLocation, FetchEvse, FetchConnector, Mirror
  <2>2. FiledUnderId' = FiledUnderId
    BY <2>1 DEF FiledUnderId
  <2>3. FiledUnderId => Filed'
    BY <2>1 DEF PullInvariant, Filed
  <2>4. FiledUnderId => Mirrored'
    BY <1>5, <2>1, FetchPulled DEF Mirrored, PullInvariant
  <2> QED
    BY <1>1, <2>2, <2>3, <2>4 DEF PullInvariant
<1>6. CASE Tick
  BY <1>3, <1>6 DEF Tick
<1>7. CASE UNCHANGED vars
  BY <1>3, <1>7 DEF vars
<1> QED
  BY <1>2, <1>4, <1>5, <1>6, <1>7 DEF Next

\* A pull leaves nothing out, whatever was written and fetched since the last
\* one (list's inclusive lower bound).
THEOREM PullsAreComplete == Spec => PullIsComplete
<1>1. Init => PullInvariant
  <2> SUFFICES ASSUME Init PROVE PullInvariant
    OBVIOUS
  <2>1. Inv /\ \A k \in Key : locations[k] = Absent
    BY InitInv DEF Init
  <2> QED
    BY <2>1 DEF PullInvariant, Filed, Mirrored
<1>2. PullInvariant /\ [Next]_vars =>
        [FiledUnderId /\ Pull => \A k \in Key : (locations[k] # Absent /\ Bumped(locations[k])) =>
            mirror'[k] = locations[k]]_vars
  BY PullCompletes
<1> QED
  BY <1>1, <1>2, PullInvariantKept, PTL DEF Spec, PullIsComplete

-----------------------------------------------------------------------------
(***************************************************************************)
(* The store as a map of maps.                                             *)
(***************************************************************************)

\* The connectors of an EVSE, and what is made of it.
LEMMA EvseBranchTyped ==
  /\ \A c \in Connector : Fields(c) \in T!Connector
  /\ \A e \in Evse : EvseBranch(e) \in T!Evse
<1>1. ASSUME NEW c \in Connector PROVE Fields(c) \in T!Connector
  BY DEF Fields, Connector, T!Connector
<1>2. ASSUME NEW e \in Evse PROVE EvseBranch(e) \in T!Evse
  <2>1. ASSUME NEW id \in ConnectorId
        PROVE  {Fields(c) : c \in find(e.connectors, id)} \in T!Option(T!Connector)
    <3>1. e.connectors \in Seq(Connector)
      BY DEF Evse
    <3>2. find(e.connectors, id) = {} \/ \E c \in Connector : find(e.connectors, id) = {c}
      BY <3>1, Found
    <3> QED
      BY <1>1, <3>2 DEF T!Option
  <2>2. ConnectorMap(e.connectors) \in [ConnectorId -> T!Option(T!Connector)]
    BY <2>1 DEF ConnectorMap
  <2> QED
    BY <2>2 DEF EvseBranch, Evse, T!Evse
<1> QED
  BY <1>1, <1>2

\* The EVSEs of a Location.
LEMMA LocationBranchTyped == ASSUME NEW l \in Location PROVE LocationBranch(l) \in T!Location
<1>1. ASSUME NEW u \in Uid PROVE {EvseBranch(e) : e \in find(l.evses, u)} \in T!Option(T!Evse)
  <2>1. l.evses \in Seq(Evse)
    BY DEF Location
  <2>2. find(l.evses, u) = {} \/ \E e \in Evse : find(l.evses, u) = {e}
    BY <2>1, Found
  <2> QED
    BY <2>2, EvseBranchTyped DEF T!Option
<1>2. EvseMap(l.evses) \in [Uid -> T!Option(T!Evse)]
  BY <1>1 DEF EvseMap
<1> QED
  BY <1>2 DEF LocationBranch, Location, T!Location

\* A list in which something is set is a map in which it is.
LEMMA MapsAreSet ==
  /\ \A items, new, c : c.id \in ConnectorId /\ Sets(items, new, c) =>
       ConnectorMap(new) = [ConnectorMap(items) EXCEPT ![c.id] = {Fields(c)}]
  /\ \A items, new, e : e.id \in Uid /\ Sets(items, new, e) =>
       EvseMap(new) = [EvseMap(items) EXCEPT ![e.id] = {EvseBranch(e)}]
<1>1. ASSUME NEW items, NEW new, NEW c, c.id \in ConnectorId, Sets(items, new, c)
      PROVE  ConnectorMap(new) = [ConnectorMap(items) EXCEPT ![c.id] = {Fields(c)}]
  <2>1. ASSUME NEW id \in ConnectorId
        PROVE  ConnectorMap(new)[id] = IF id = c.id THEN {Fields(c)} ELSE ConnectorMap(items)[id]
    <3>1. find(new, id) = IF id = c.id THEN {c} ELSE find(items, id)
      BY <1>1 DEF Sets
    <3> QED
      BY <3>1 DEF ConnectorMap
  <2> QED
    BY <1>1, <2>1 DEF ConnectorMap
<1>2. ASSUME NEW items, NEW new, NEW e, e.id \in Uid, Sets(items, new, e)
      PROVE  EvseMap(new) = [EvseMap(items) EXCEPT ![e.id] = {EvseBranch(e)}]
  <2>1. ASSUME NEW u \in Uid
        PROVE  EvseMap(new)[u] = IF u = e.id THEN {EvseBranch(e)} ELSE EvseMap(items)[u]
    <3>1. find(new, u) = IF u = e.id THEN {e} ELSE find(items, u)
      BY <1>2 DEF Sets
    <3> QED
      BY <3>1 DEF EvseMap
  <2> QED
    BY <1>2, <2>1 DEF EvseMap
<1> QED
  BY <1>1, <1>2

\* What is stored under a key is what the tree has there.
LEMMA StoreBranch ==
  ASSUME TypeOK, NEW k \in Key, NEW l \in Location, Store(k, l)
  PROVE  Branches(locations)' = [Branches(locations) EXCEPT ![k] = {LocationBranch(l)}]
<1>1. locations \in [Key -> Location \cup {Absent}] /\ l # Absent
  BY LocationsAssumption DEF TypeOK
<1>2. locations' = [locations EXCEPT ![k] = l]
  BY DEF Store
<1>3. \A j \in Key : locations'[j] = IF j = k THEN l ELSE locations[j]
  BY <1>1, <1>2
<1>4. Branches(locations)'
        = [j \in Key |-> IF locations'[j] = Absent THEN {} ELSE {LocationBranch(locations'[j])}]
  BY DEF Branches
<1>5. \A j \in Key : Branches(locations)'[j]
                       = IF j = k THEN {LocationBranch(l)} ELSE Branches(locations)[j]
  BY <1>1, <1>3, <1>4 DEF Branches
<1>6. Branches(locations) = [j \in Key |-> Branches(locations)[j]]
  BY DEF Branches
<1> QED
  BY <1>4, <1>5, <1>6

\* A Location with something else under an EVSE's path, and an EVSE with
\* something else under a connector's.
GraftEvse(branch, u, e) == [branch EXCEPT !.evses = [@ EXCEPT ![u] = {e}]]

GraftConnector(branch, id, c) == [branch EXCEPT !.connectors = [@ EXCEPT ![id] = {c}]]

\* A write to an EVSE grafts it onto the Location's branch.
EvseGraft(k, u, e) ==
  LET x == LocationBranch(locations[k]) IN
  /\ Branches(locations)[k] = {x}
  /\ x.evses[u] = {EvseBranch(o) : o \in get_evse(k, u)}
  /\ Branches(locations)' =
       [Branches(locations) EXCEPT ![k] = {GraftEvse(x, u, EvseBranch(e))}]

LEMMA EvseGrafted ==
  ASSUME TypeOK, NEW k \in Key, locations[k] # Absent, NEW u \in Uid, NEW e, e.id = u,
         EvseStored(k, u, e)
  PROVE  EvseGraft(k, u, e)
<1> DEFINE x == LocationBranch(locations[k])
<1>1. PICK es \in Seq(Evse) :
        Sets(locations[k].evses, es, e) /\ Store(k, [locations[k] EXCEPT !.evses = es])
  BY DEF EvseStored
<1>2. locations[k] \in Location
  BY DEF TypeOK
<1> DEFINE l == [locations[k] EXCEPT !.evses = es]
<1>3. /\ l \in Location /\ l.evses = es /\ l.id = locations[k].id /\ l.rev = locations[k].rev
      /\ l.last_updated = locations[k].last_updated
  BY <1>2 DEF Location
<1>4. Store(k, l)
  BY <1>1
<1> HIDE DEF l
<1>5. EvseMap(es) = [EvseMap(locations[k].evses) EXCEPT ![u] = {EvseBranch(e)}]
  BY <1>1, MapsAreSet
<1>6. x.evses = EvseMap(locations[k].evses)
  BY DEF LocationBranch
<1>7. LocationBranch(l) = [x EXCEPT !.evses = EvseMap(es)]
  BY <1>3 DEF LocationBranch
<1>8. LocationBranch(l) = GraftEvse(x, u, EvseBranch(e))
  BY <1>5, <1>6, <1>7 DEF GraftEvse
<1>9. Branches(locations)' =
        [Branches(locations) EXCEPT ![k] = {GraftEvse(x, u, EvseBranch(e))}]
  BY <1>3, <1>4, <1>8, StoreBranch
<1>10. Branches(locations)[k] = {x}
  BY DEF Branches
<1>11. x.evses[u] = {EvseBranch(o) : o \in get_evse(k, u)}
  BY <1>6 DEF EvseMap, get_evse
<1> QED
  BY <1>9, <1>10, <1>11 DEF EvseGraft

\* A patch of one thing.
LEMMA OnePatched ==
  ASSUME NEW x, NEW p
  PROVE  T!Patched({x}, Fields(p))
           = {[x EXCEPT !.rev = IF p.rev = Unset THEN @ ELSE p.rev,
                        !.last_updated = p.last_updated]}
<1>1. Fields(p).rev = p.rev /\ Fields(p).last_updated = p.last_updated
  BY DEF Fields
<1> QED
  BY <1>1 DEF T!Patched

\* Merging a patch without an id is the same in the lists and in the maps, for a
\* Location, an EVSE and a connector (apply_merge_patch).
LEMMA LocationPatched ==
  ASSUME NEW l \in Location, NEW p, p.id = Unset
  PROVE  {LocationBranch(apply_merge_patch(l, p))} = T!Patched({LocationBranch(l)}, Fields(p))
<1> DEFINE m == apply_merge_patch(l, p)
           x == LocationBranch(l)
           rev == IF p.rev = Unset THEN l.rev ELSE p.rev
           new == [x EXCEPT !.rev = rev, !.last_updated = p.last_updated]
           es == EvseMap(l.evses)
<1>1. m.id = l.id /\ m.rev = rev /\ m.last_updated = p.last_updated /\ m.evses = l.evses
  BY DEF apply_merge_patch, Merge, Location
<1> HIDE DEF m
<1>2. LocationBranch(m) = [id |-> l.id, rev |-> rev, last_updated |-> p.last_updated, evses |-> es]
  BY <1>1 DEF LocationBranch
<1>3. /\ x \in [id : {l.id}, rev : {l.rev}, last_updated : {l.last_updated}, evses : {es}]
      /\ x.rev = l.rev
  BY DEF LocationBranch
<1>4. T!Patched({x}, Fields(p)) = {new}
  BY <1>3, OnePatched
<1> HIDE DEF x, rev, es
<1>5. /\ new \in [id : {l.id}, rev : {l.rev, rev},
                 last_updated : {l.last_updated, p.last_updated}, evses : {es}]
      /\ new.rev = rev /\ new.last_updated = p.last_updated
  BY <1>3
<1> HIDE DEF new
<1>6. new = [id |-> l.id, rev |-> rev, last_updated |-> p.last_updated, evses |-> es]
  BY <1>5
<1> QED
  BY <1>2, <1>4, <1>6 DEF m, x

LEMMA EvsePatched ==
  ASSUME NEW e \in Evse, NEW p, p.id = Unset
  PROVE  {EvseBranch(apply_merge_patch(e, p))} = T!Patched({EvseBranch(e)}, Fields(p))
<1> DEFINE m == apply_merge_patch(e, p)
           x == EvseBranch(e)
           rev == IF p.rev = Unset THEN e.rev ELSE p.rev
           new == [x EXCEPT !.rev = rev, !.last_updated = p.last_updated]
           cs == ConnectorMap(e.connectors)
<1>1. m.rev = rev /\ m.last_updated = p.last_updated /\ m.connectors = e.connectors
  BY DEF apply_merge_patch, Merge, Evse
<1> HIDE DEF m
<1>2. EvseBranch(m) = [rev |-> rev, last_updated |-> p.last_updated, connectors |-> cs]
  BY <1>1 DEF EvseBranch
<1>3. x \in [rev : {e.rev}, last_updated : {e.last_updated}, connectors : {cs}] /\ x.rev = e.rev
  BY DEF EvseBranch
<1>4. T!Patched({x}, Fields(p)) = {new}
  BY <1>3, OnePatched
<1> HIDE DEF x, rev, cs
<1>5. /\ new \in [rev : {e.rev, rev}, last_updated : {e.last_updated, p.last_updated},
                 connectors : {cs}]
      /\ new.rev = rev /\ new.last_updated = p.last_updated
  BY <1>3
<1> HIDE DEF new
<1>6. new = [rev |-> rev, last_updated |-> p.last_updated, connectors |-> cs]
  BY <1>5
<1> QED
  BY <1>2, <1>4, <1>6 DEF m, x

LEMMA ConnectorPatched ==
  ASSUME NEW c \in Connector, NEW p, p.id = Unset
  PROVE  {Fields(apply_merge_patch(c, p))} = T!Patched({Fields(c)}, Fields(p))
<1> DEFINE m == apply_merge_patch(c, p)
           x == Fields(c)
           rev == IF p.rev = Unset THEN c.rev ELSE p.rev
           new == [x EXCEPT !.rev = rev, !.last_updated = p.last_updated]
<1>1. m.rev = rev /\ m.last_updated = p.last_updated
  BY DEF apply_merge_patch, Merge, Connector
<1> HIDE DEF m
<1>2. Fields(m) = [rev |-> rev, last_updated |-> p.last_updated]
  BY <1>1 DEF Fields
<1>3. x \in [rev : {c.rev}, last_updated : {c.last_updated}] /\ x.rev = c.rev
  BY DEF Fields
<1>4. T!Patched({x}, Fields(p)) = {new}
  BY <1>3, OnePatched
<1> HIDE DEF x, rev
<1>5. /\ new \in [rev : {c.rev, rev}, last_updated : {c.last_updated, p.last_updated}]
      /\ new.rev = rev /\ new.last_updated = p.last_updated
  BY <1>3
<1> HIDE DEF new
<1>6. new = [rev |-> rev, last_updated |-> p.last_updated]
  BY <1>5
<1> QED
  BY <1>2, <1>4, <1>6 DEF m, x

-----------------------------------------------------------------------------
(***************************************************************************)
(* Every write is the write of the tree to what it names, or none.         *)
(***************************************************************************)

\* A patch that leaves a type behind is one of the tree.
LEMMA PatchOfTree ==
  ASSUME TypeOK, NEW Ids, NEW p \in Patches(Ids),
         NEW x \in Location \cup Evse \cup Connector, apply_merge_patch(x, p).rev \in Revision
  PROVE  Fields(p) \in T!Patch
<1>1. p.rev \in Revision \cup {Null, Unset} /\ p.last_updated \in Time
  BY DEF Patches, Patch
<1>2. apply_merge_patch(x, p).rev = Merge(x.rev, p.rev)
  BY DEF apply_merge_patch, Location, Evse, Connector
<1>3. p.rev # Null
  BY <1>2, LocationsAssumption DEF Merge
<1> QED
  BY <1>1, <1>3 DEF Fields, T!Patch

\* PUT of a Location (put).
LEMMA PutIsPut ==
  ASSUME TypeOK, NEW path \in Key, NEW l \in Location, Put(path, l)
  PROVE  \E k \in Key : T!PutLocation(k, LocationBranch(l))
<1>1. PICK k \in Key : Store(k, l)
  BY DEF Put, Location
<1> QED
  BY <1>1, StoreBranch DEF T!PutLocation

\* PATCH of a Location (patch_location).
LEMMA PatchLocationIsPatch ==
  ASSUME TypeOK, NEW k \in Key, NEW Ids, Ids \subseteq Key, NEW p \in Patches(Ids), p.id = Unset,
         PatchLocation(k, p)
  PROVE  UNCHANGED locations \/ (Fields(p) \in T!Patch /\ T!PatchLocation(k, Fields(p)))
<1>1. CASE locations[k] = Absent
  BY <1>1 DEF PatchLocation, Refuse, vars
<1>2. CASE locations[k] # Absent
  <2> DEFINE l == locations[k]
             merged == apply_merge_patch(l, p)
  <2>1. l \in Location /\ Branches(locations)[k] = {LocationBranch(l)}
    BY <1>2 DEF TypeOK, Branches
  <2>2. merged.rev # Null => merged \in Location
    BY <2>1, Merged
  <2>3. {LocationBranch(merged)} = T!Patched({LocationBranch(l)}, Fields(p))
    BY <2>1, LocationPatched
  <2>4. StoreMerged(k, merged, merged)
    BY <1>2 DEF PatchLocation
  <2>5. CASE merged.rev = Null
    BY <2>4, <2>5 DEF StoreMerged, Refuse, vars
  <2>6. CASE merged.rev # Null
    <3>1. Fields(p) \in T!Patch
      BY <2>1, <2>2, <2>6, PatchOfTree DEF Location
    <3> HIDE DEF merged, l
    <3>2. Branches(locations)' = [Branches(locations) EXCEPT ![k] = {LocationBranch(merged)}]
      BY <2>2, <2>4, <2>6, StoreBranch DEF StoreMerged
    <3> QED
      BY <2>1, <2>3, <3>1, <3>2 DEF T!PatchLocation
  <2> QED
    BY <2>5, <2>6
<1> QED
  BY <1>1, <1>2

\* PUT of an EVSE (put_evse).
LEMMA PutEvseIsPut ==
  ASSUME TypeOK, NEW k \in Key, NEW e \in Evse, PutEvse(k, e)
  PROVE  UNCHANGED locations \/ T!PutEvse(k, e.id, EvseBranch(e))
<1>1. CASE locations[k] = Absent
  BY <1>1 DEF PutEvse, Refuse, vars
<1>2. CASE locations[k] # Absent
  <2> DEFINE x == LocationBranch(locations[k])
             b == EvseBranch(e)
  <2>1. EvseStored(k, e.id, e) /\ e.id \in Uid
    BY <1>2, PutEvseStored DEF Evse
  <2>2. /\ Branches(locations)[k] = {x}
        /\ Branches(locations)' = [Branches(locations) EXCEPT ![k] = {GraftEvse(x, e.id, b)}]
    BY <1>2, <2>1, EvseGrafted DEF EvseGraft
  <2> HIDE DEF x, b
  <2>3. {[l EXCEPT !.evses[e.id] = {b}] : l \in {x}} = {GraftEvse(x, e.id, b)}
    BY DEF GraftEvse
  <2> QED
    BY <2>2, <2>3 DEF T!PutEvse, b
<1> QED
  BY <1>1, <1>2

\* PATCH of an EVSE (patch_evse).
LEMMA PatchEvseIsPatch ==
  ASSUME TypeOK, NEW k \in Key, NEW u \in Uid, NEW Ids, Ids \subseteq Uid, NEW p \in Patches(Ids),
         p.id = Unset, PatchEvse(k, u, p)
  PROVE  UNCHANGED locations \/ (Fields(p) \in T!Patch /\ T!PatchEvse(k, u, Fields(p)))
<1>1. CASE Refuse
  BY <1>1 DEF Refuse, vars
<1>2. CASE ~Refuse
  <2>1. PICK old \in get_evse(k, u) :
          /\ locations[k] # Absent
          /\ apply_merge_patch(old, p) \in Evse /\ EvseStored(k, u, apply_merge_patch(old, p))
    BY <1>2, PatchEvseStored
  <2> DEFINE x == LocationBranch(locations[k])
             e == apply_merge_patch(old, p)
             b == EvseBranch(e)
  <2>2. old \in Evse /\ old.id = u /\ get_evse(k, u) = {old}
    BY <2>1, EvseThere
  <2>3. e \in Evse /\ e.id = u /\ EvseStored(k, u, e)
    BY <2>1, <2>2, Merged
  <2>4. Fields(p) \in T!Patch
    BY <2>2, <2>3, PatchOfTree DEF Evse
  <2>5. {b} = T!Patched({EvseBranch(old)}, Fields(p))
    BY <2>2, EvsePatched
  <2> HIDE DEF e
  <2>6. EvseGraft(k, u, e)
    BY <2>1, <2>3, EvseGrafted
  <2>7. /\ Branches(locations)[k] = {x} /\ x.evses[u] = {EvseBranch(old)}
        /\ Branches(locations)' = [Branches(locations) EXCEPT ![k] = {GraftEvse(x, u, b)}]
    BY <2>2, <2>6 DEF EvseGraft
  <2> HIDE DEF x, b
  <2>8. {[l EXCEPT !.evses[u] = T!Patched(l.evses[u], Fields(p))] : l \in {x}}
          = {GraftEvse(x, u, b)}
    BY <2>5, <2>7 DEF GraftEvse
  <2> QED
    BY <2>4, <2>7, <2>8 DEF T!PatchEvse
<1> QED
  BY <1>1, <1>2

\* A write to a connector grafts it onto the branch of its EVSE.
ConnectorGraft(k, u, old, id, c) ==
  LET x  == LocationBranch(locations[k])
      eb == EvseBranch(old)
  IN  /\ old \in Evse /\ get_evse(k, u) = {old}
      /\ Branches(locations)[k] = {x} /\ x.evses[u] = {eb}
      /\ eb.connectors[id] = {Fields(o) : o \in find(old.connectors, id)}
      /\ Branches(locations)' = [Branches(locations) EXCEPT ![k] =
                                   {GraftEvse(x, u, GraftConnector(eb, id, Fields(c)))}]

LEMMA ConnectorGrafted ==
  ASSUME TypeOK, NEW k \in Key, locations[k] # Absent, NEW u \in Uid, NEW id \in ConnectorId,
         NEW c, c.id = id, ConnectorStored(k, u, id, c)
  PROVE  \E old \in get_evse(k, u) : ConnectorGraft(k, u, old, id, c)
<1>1. PICK old \in get_evse(k, u), cs \in Seq(Connector) :
        Sets(old.connectors, cs, c) /\ EvseStored(k, u, [old EXCEPT !.connectors = cs])
  BY DEF ConnectorStored
<1>2. old \in Evse /\ old.id = u /\ get_evse(k, u) = {old}
  BY <1>1, EvseThere
<1> DEFINE e  == [old EXCEPT !.connectors = cs]
           eb == EvseBranch(old)
           b  == GraftConnector(eb, id, Fields(c))
<1>3. e.id = u /\ e.connectors = cs /\ e.rev = old.rev /\ e.last_updated = old.last_updated
  BY <1>2 DEF Evse
<1>4. EvseStored(k, u, e)
  BY <1>1
<1> HIDE DEF e
<1>5. ConnectorMap(cs) = [ConnectorMap(old.connectors) EXCEPT ![id] = {Fields(c)}]
  BY <1>1, MapsAreSet
<1>6. eb.connectors = ConnectorMap(old.connectors)
  BY DEF EvseBranch
<1>7. EvseBranch(e) = [eb EXCEPT !.connectors = ConnectorMap(cs)]
  BY <1>3 DEF EvseBranch
<1>8. EvseBranch(e) = b
  BY <1>5, <1>6, <1>7 DEF GraftConnector
<1>9. e.id = u
  BY <1>3
<1>10. EvseGraft(k, u, e)
  BY <1>4, <1>9, EvseGrafted
<1>11. eb.connectors[id] = {Fields(o) : o \in find(old.connectors, id)}
  BY <1>6 DEF ConnectorMap
<1> HIDE DEF b, eb
<1>12. {EvseBranch(o) : o \in get_evse(k, u)} = {eb}
  BY <1>2 DEF eb
<1> QED
  BY <1>2, <1>8, <1>10, <1>11, <1>12 DEF EvseGraft, ConnectorGraft, eb, b

\* PUT of a connector (put_connector).
LEMMA PutConnectorIsPut ==
  ASSUME TypeOK, NEW k \in Key, NEW u \in Uid, NEW c \in Connector, PutConnector(k, u, c)
  PROVE  UNCHANGED locations \/ T!PutConnector(k, u, c.id, Fields(c))
<1>1. CASE Refuse
  BY <1>1 DEF Refuse, vars
<1>2. CASE ~Refuse
  <2>1. locations[k] # Absent /\ ConnectorStored(k, u, c.id, c) /\ c.id \in ConnectorId
    BY <1>2, PutConnectorStored DEF Connector
  <2>2. PICK old \in get_evse(k, u) : ConnectorGraft(k, u, old, c.id, c)
    BY <2>1, ConnectorGrafted
  <2> DEFINE x  == LocationBranch(locations[k])
             id == c.id
             leaf == Fields(c)
             eb == EvseBranch(old)
             b  == GraftConnector(eb, id, leaf)
  <2>3. /\ Branches(locations)[k] = {x} /\ x.evses[u] = {eb}
        /\ Branches(locations)' = [Branches(locations) EXCEPT ![k] = {GraftEvse(x, u, b)}]
    BY <2>2 DEF ConnectorGraft
  <2> HIDE DEF x, eb, leaf, id
  <2>4. {[e EXCEPT !.connectors[id] = {leaf}] : e \in {eb}} = {b}
    BY DEF GraftConnector
  <2> HIDE DEF b
  <2>5. {[l EXCEPT !.evses[u] = {[e EXCEPT !.connectors[id] = {leaf}] : e \in l.evses[u]}] :
           l \in {x}} = {GraftEvse(x, u, b)}
    BY <2>4, <2>3 DEF GraftEvse
  <2> QED
    BY <2>3, <2>5 DEF T!PutConnector, leaf, id
<1> QED
  BY <1>1, <1>2

\* PATCH of a connector (patch_connector).
LEMMA PatchConnectorIsPatch ==
  ASSUME TypeOK, NEW k \in Key, NEW u \in Uid, NEW id \in ConnectorId, NEW Ids,
         Ids \subseteq ConnectorId, NEW p \in Patches(Ids), p.id = Unset,
         PatchConnector(k, u, id, p)
  PROVE  UNCHANGED locations \/ (Fields(p) \in T!Patch /\ T!PatchConnector(k, u, id, Fields(p)))
<1>1. CASE Refuse
  BY <1>1 DEF Refuse, vars
<1>2. CASE ~Refuse
  <2>1. PICK o \in get_evse(k, u) : \E c \in find(o.connectors, id) :
          /\ locations[k] # Absent
          /\ apply_merge_patch(c, p) \in Connector
          /\ ConnectorStored(k, u, id, apply_merge_patch(c, p))
    BY <1>2, PatchConnectorStored
  <2>2. PICK c \in find(o.connectors, id) :
          /\ locations[k] # Absent
          /\ apply_merge_patch(c, p) \in Connector
          /\ ConnectorStored(k, u, id, apply_merge_patch(c, p))
    BY <2>1
  <2>3. get_evse(k, u) = {o} /\ o.connectors \in Seq(Connector)
    BY <2>2, EvseThere
  <2>4. c \in Connector /\ c.id = id /\ find(o.connectors, id) = {c}
    BY <2>3, Found
  <2> DEFINE m == apply_merge_patch(c, p)
  <2>5. m.id = id /\ m \in Connector /\ ConnectorStored(k, u, id, m)
    BY <2>2, <2>4, Merged
  <2>6. Fields(p) \in T!Patch
    BY <2>4, <2>5, PatchOfTree DEF Connector
  <2>7. {Fields(m)} = T!Patched({Fields(c)}, Fields(p))
    BY <2>4, ConnectorPatched
  <2> HIDE DEF m
  <2>8. ConnectorGraft(k, u, o, id, m)
    <3>1. PICK old \in get_evse(k, u) : ConnectorGraft(k, u, old, id, m)
      BY <2>2, <2>5, ConnectorGrafted
    <3> QED
      BY <2>3, <3>1
  <2> DEFINE x == LocationBranch(locations[k])
             eb == EvseBranch(o)
             leaf == Fields(m)
             b == GraftConnector(eb, id, leaf)
  <2>9. /\ Branches(locations)[k] = {x} /\ x.evses[u] = {eb}
        /\ eb.connectors[id] = {Fields(c)}
        /\ Branches(locations)' = [Branches(locations) EXCEPT ![k] = {GraftEvse(x, u, b)}]
    BY <2>4, <2>8 DEF ConnectorGraft
  <2> HIDE DEF x, eb, leaf
  <2>10. T!Patched(eb.connectors[id], Fields(p)) = {leaf}
    BY <2>7, <2>9 DEF leaf
  <2>11. {[e EXCEPT !.connectors[id] = T!Patched(e.connectors[id], Fields(p))] : e \in {eb}}
           = {b}
    BY <2>10 DEF GraftConnector
  <2> HIDE DEF b
  <2>12. {[l EXCEPT !.evses[u] =
             {[e EXCEPT !.connectors[id] = T!Patched(e.connectors[id], Fields(p))] :
                e \in l.evses[u]}] :
            l \in {x}} = {GraftEvse(x, u, b)}
    BY <2>11, <2>9 DEF GraftEvse
  <2> QED
    BY <2>6, <2>12, <2>9 DEF T!PatchConnector
<1> QED
  BY <1>1, <1>2

-----------------------------------------------------------------------------
\* A patch without an id.
LEMMA UnnamedPatch ==
  ASSUME NEW p \in Patches({})
  PROVE  p.id = Unset
BY DEF Patches, Patch

\* What SameWrite says of the writes to an EVSE, and to a connector of it.
LEMMA BelowIsSame ==
  ASSUME TypeOK, NEW k \in Key, locations'[k] # locations[k], NEW u \in EvsesOf(k)
  PROVE  /\ \A e \in NewEvses(EvsesOf(k)) :
              evse_put(k, u, e) => T!PutEvse(k, e.id, EvseBranch(e))
         /\ \A p \in Patches({}) : PatchEvse(k, u, p) => T!PatchEvse(k, u, Fields(p))
         /\ \A id \in site.connectors :
              /\ \A c \in NewConnectors(site.connectors) :
                   connector_put(k, u, id, c) => T!PutConnector(k, u, c.id, Fields(c))
              /\ \A p \in Patches({}) :
                   PatchConnector(k, u, id, p) => T!PatchConnector(k, u, id, Fields(p))
<1>1. /\ ~ UNCHANGED locations /\ u \in Uid /\ EvsesOf(k) \subseteq Uid
      /\ site.connectors \subseteq ConnectorId
  BY SiteIsTyped DEF EvsesOf
<1>2. ASSUME NEW e \in NewEvses(EvsesOf(k)), evse_put(k, u, e)
      PROVE  T!PutEvse(k, e.id, EvseBranch(e))
  <2>1. e \in Evse /\ PutEvse(k, e)
    BY <1>1, <1>2, NewEvseIsTyped DEF evse_put
  <2> QED
    BY <1>1, <2>1, PutEvseIsPut
<1>3. ASSUME NEW p \in Patches({}), PatchEvse(k, u, p)
      PROVE  T!PatchEvse(k, u, Fields(p))
  <2>1. {} \subseteq Uid
    OBVIOUS
  <2> QED
    BY <1>1, <1>3, <2>1, UnnamedPatch, PatchEvseIsPatch
<1>4. ASSUME NEW id \in site.connectors, NEW c \in NewConnectors(site.connectors),
             connector_put(k, u, id, c)
      PROVE  T!PutConnector(k, u, c.id, Fields(c))
  <2>1. c \in Connector /\ PutConnector(k, u, c)
    BY <1>1, <1>4, NewConnectorIsTyped DEF connector_put
  <2> QED
    BY <1>1, <2>1, PutConnectorIsPut
<1>5. ASSUME NEW id \in site.connectors, NEW p \in Patches({}), PatchConnector(k, u, id, p)
      PROVE  T!PatchConnector(k, u, id, Fields(p))
  <2>1. {} \subseteq ConnectorId /\ id \in ConnectorId
    BY <1>1
  <2> QED
    BY <1>1, <1>5, <2>1, UnnamedPatch, PatchConnectorIsPatch
<1> QED
  BY <1>2, <1>3, <1>4, <1>5, Zenon

\* Whatever is in the lists, a PUT sets what its body names and a PATCH without
\* an id changes what its path names, and that and nothing else, also where the
\* path of the PUT ends with another id than that of the body (patch, evse_put,
\* patch_evse, connector_put, patch_connector).
THEOREM WritesAreFound == Spec => WritesFindTheirObject
<1>1. ASSUME TypeOK, NEW k \in Key, locations'[k] # locations[k] PROVE SameWrite(k)
  <2>1. ASSUME NEW p \in Patches({}), PatchLocation(k, p)
        PROVE  T!PatchLocation(k, Fields(p))
    <3>1. {} \subseteq Key /\ ~ UNCHANGED locations
      BY <1>1
    <3> QED
      BY <1>1, <2>1, <3>1, UnnamedPatch, PatchLocationIsPatch
  <2> QED
    BY <1>1, <2>1, BelowIsSame, Zenon DEF SameWrite
<1>2. TypeOK => [\A k \in Key : locations'[k] # locations[k] => SameWrite(k)]_vars
  BY <1>1
<1> QED
  BY <1>2, TypeCorrect, PTL DEF WritesFindTheirObject

\* The writes below a Location are writes of the tree.
LEMMA BelowStep ==
  ASSUME TypeOK, NoIds, NEW k \in Key, NEW u \in EvsesOf(k), Below(k, u)
  PROVE  UNCHANGED locations \/ T!TNext
<1>1. u \in Uid /\ EvsesOf(k) \subseteq Uid /\ site.connectors \subseteq ConnectorId
  BY SiteIsTyped DEF EvsesOf
<1>2. CASE \E e \in NewEvses(Body(u, EvsesOf(k))) : evse_put(k, u, e)
  <2>1. PICK e \in NewEvses(Body(u, EvsesOf(k))) : PutEvse(k, e)
    BY <1>2 DEF evse_put
  <2>2. Body(u, EvsesOf(k)) \subseteq Uid
    BY <1>1 DEF Body
  <2>3. e \in Evse /\ e.id \in Uid
    BY <2>2, NewEvseIsTyped DEF Evse
  <2>4. EvseBranch(e) \in T!Evse
    BY <2>3, EvseBranchTyped
  <2>5. UNCHANGED locations \/ T!PutEvse(k, e.id, EvseBranch(e))
    BY <2>1, <2>3, PutEvseIsPut
  <2> QED
    BY <2>3, <2>4, <2>5 DEF T!TNext
<1>3. CASE \E p \in Patches(EvsesOf(k)) : PatchEvse(k, u, p)
  <2>1. PICK p \in Patches(EvsesOf(k)) : PatchEvse(k, u, p)
    BY <1>3
  <2>2. p.id = Unset
    BY Merged
  <2>3. UNCHANGED locations \/ (Fields(p) \in T!Patch /\ T!PatchEvse(k, u, Fields(p)))
    BY <1>1, <2>1, <2>2, PatchEvseIsPatch
  <2> QED
    BY <1>1, <2>3 DEF T!TNext
<1>4. CASE \E id \in site.connectors : \E c \in NewConnectors(Body(id, site.connectors)) :
             connector_put(k, u, id, c)
  <2> PICK id \in site.connectors : \E c \in NewConnectors(Body(id, site.connectors)) :
        connector_put(k, u, id, c)
    BY <1>4
  <2>1. PICK c \in NewConnectors(Body(id, site.connectors)) : PutConnector(k, u, c)
    BY DEF connector_put
  <2>2. Body(id, site.connectors) \subseteq ConnectorId
    BY <1>1 DEF Body
  <2>3. c \in Connector /\ c.id \in ConnectorId
    BY <2>2, NewConnectorIsTyped DEF Connector
  <2>4. Fields(c) \in T!Connector
    BY <2>3, EvseBranchTyped
  <2>5. UNCHANGED locations \/ T!PutConnector(k, u, c.id, Fields(c))
    BY <1>1, <2>1, <2>3, PutConnectorIsPut
  <2> QED
    BY <1>1, <2>3, <2>4, <2>5 DEF T!TNext
<1>5. CASE \E id \in site.connectors : \E p \in Patches(site.connectors) :
             PatchConnector(k, u, id, p)
  <2>1. PICK id \in site.connectors, p \in Patches(site.connectors) : PatchConnector(k, u, id, p)
    BY <1>5
  <2>2. p.id = Unset /\ id \in ConnectorId
    BY <1>1, Merged
  <2>3. \/ UNCHANGED locations
        \/ Fields(p) \in T!Patch /\ T!PatchConnector(k, u, id, Fields(p))
    BY <1>1, <2>1, <2>2, PatchConnectorIsPatch
  <2> QED
    BY <1>1, <2>2, <2>3 DEF T!TNext
<1> QED
  BY <1>2, <1>3, <1>4, <1>5 DEF Below

\* The owner's writes are writes of the tree.
LEMMA OwnerStep ==
  ASSUME TypeOK, NoIds, Owner
  PROVE  UNCHANGED locations \/ T!TNext
<1> PICK k \in Known :
      \/ Serves("put") /\ \E i \in Body(k, Known) : \E l \in NewLocations(i) : Put(k, l)
      \/ Serves("patch_location") /\ \E p \in Patches(Known) : PatchLocation(k, p)
      \/ \E u \in EvsesOf(k) : Below(k, u)
  BY DEF Owner
<1>1. k \in Key /\ Known \subseteq Key
  BY DEF Known
<1>2. CASE \E i \in Body(k, Known) : \E l \in NewLocations(i) : Put(k, l)
  <2> PICK i \in Body(k, Known) : \E l \in NewLocations(i) : Put(k, l)
    BY <1>2
  <2>1. PICK l \in NewLocations(i) : Put(k, l)
    OBVIOUS
  <2>2. i \in Key
    BY <1>1 DEF Body
  <2>3. l \in Location
    BY <2>2, NewLocationIsTyped
  <2>4. LocationBranch(l) \in T!Location
    BY <2>3, LocationBranchTyped
  <2>5. \E j \in Key : T!PutLocation(j, LocationBranch(l))
    BY <1>1, <2>1, <2>3, PutIsPut
  <2> QED
    BY <2>4, <2>5 DEF T!TNext
<1>3. CASE \E p \in Patches(Known) : PatchLocation(k, p)
  <2>1. PICK p \in Patches(Known) : PatchLocation(k, p)
    BY <1>3
  <2>2. p.id = Unset
    BY Merged
  <2>3. UNCHANGED locations \/ (Fields(p) \in T!Patch /\ T!PatchLocation(k, Fields(p)))
    BY <1>1, <2>1, <2>2, PatchLocationIsPatch
  <2> QED
    BY <1>1, <2>3 DEF T!TNext
<1>4. CASE \E u \in EvsesOf(k) : Below(k, u)
  BY <1>1, <1>4, BelowStep
<1> QED
  BY <1>2, <1>3, <1>4

\* Time, pulls and fetches are no writes.
LEMMA OthersStep == ASSUME Tick \/ Pull \/ Fetch \/ UNCHANGED vars PROVE UNCHANGED locations
BY DEF Tick, Pull, Fetch, FetchLocation, FetchEvse, FetchConnector, Mirror, vars

\* What the owner has, and which slips it makes, stays.
LEMMA SiteStays == ASSUME Inv, [Next]_vars PROVE UNCHANGED site
<1>1. Owner => UNCHANGED site
  BY OwnerWrites DEF Written, Refuse, Store, vars
<1>2. Tick \/ Pull \/ Fetch \/ UNCHANGED vars => UNCHANGED site
  BY DEF Tick, Pull, Fetch, FetchLocation, FetchEvse, FetchConnector, Mirror, vars
<1> QED
  BY <1>1, <1>2 DEF Next

\* As long as no PATCH changes an id, the store of lists implements the map of
\* maps: every step of it is one write of Tree, or leaves the tree as it is,
\* whatever the lists name twice and whatever paths the PUTs have.
THEOREM ListsAreMaps == Spec /\ "id" \notin site.slips => T!TSpec
<1>1. Init => T!TInit
  BY DEF Init, T!TInit, Branches
<1>2. ASSUME UNCHANGED locations PROVE Branches(locations)' = Branches(locations)
  BY <1>2 DEF Branches
<1>3. Inv /\ NoIds /\ [Next]_vars => [T!TNext]_(Branches(locations))
  BY <1>2, OwnerStep, OthersStep DEF Inv, Next
<1>4. Inv /\ NoIds /\ [Next]_vars => NoIds'
  <2> SUFFICES ASSUME Inv, [Next]_vars PROVE UNCHANGED site
    BY DEF NoIds
  <2> QED
    BY SiteStays
<1>5. "id" \notin site.slips => NoIds
  BY DEF NoIds
<1> QED
  BY <1>1, <1>3, <1>4, <1>5, Invariance, PTL DEF Spec, T!TSpec
=============================================================================
