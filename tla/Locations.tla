----------------------------- MODULE Locations -----------------------------
(***************************************************************************)
(* The receiver's store of Locations.  A Location holds its EVSEs, an EVSE *)
(* its connectors, each in a list; the owner writes at any of the three    *)
(* levels, and each write is one critical section on the Location.  A      *)
(* party that keeps a mirror of the store pulls, from time to time, the    *)
(* Locations updated since its last pull, and may ask for single objects   *)
(* in between.  It tells Locations apart by their ids.                     *)
(*                                                                         *)
(* What an object says is its revision.  Ids are in the list elements; the *)
(* key of a Location stands for country code, party and id.  Nobody        *)
(* compares the ids in a body with those in the path, at no level.         *)
(***************************************************************************)
EXTENDS Naturals, Sequences, SequencesExt

CONSTANTS
  Key,            \* keys of Locations
  Uid,            \* uids of EVSEs
  ConnectorId,    \* ids of connectors
  Sites,          \* what an owner may have, and which slips it may make
  Revision,       \* what an object may say
  MaxTime,        \* bound: timestamps are 0..MaxTime
  MaxList,        \* bound: objects in a list
  Null,           \* a required field that a patch removes
  Unset,          \* a field that a patch does not have
  Absent          \* no Location

Time == 0..MaxTime

\* The id of an EVSE is its uid.
Connector == [id : ConnectorId, rev : Revision, last_updated : Time]
Evse == [id : Uid, rev : Revision, last_updated : Time, connectors : Seq(Connector)]
Location == [id : Key, rev : Revision, last_updated : Time, evses : Seq(Evse)]

\* By the protocol a patch has the new last_updated.  It may have any other
\* field, that of the id too; lists are left out.
Patch(Ids) == [id : Ids \cup {Unset}, rev : Revision \cup {Null, Unset}, last_updated : Time]

\* What an owner may do that the protocol does not allow: name one object in
\* the path of a PUT and another in its body, change an id by a PATCH, and
\* name an object twice in a list.
Slip == {"path", "id", "list"}

ASSUME LocationsAssumption ==
  /\ MaxTime \in Nat /\ MaxList \in Nat /\ Null \notin Revision /\ Null # Unset
  /\ Sites \subseteq [evses : SUBSET (Key \X Uid), connectors : SUBSET ConnectorId,
                      slips : SUBSET Slip]
  /\ Absent \notin Location

VARIABLES
  locations,      \* the store: key -> Location
  site,           \* what the owner has, and its slips
  service,        \* the release of the protocol: what is served, and how a PUT is filed
  clock,          \* the time the owner stamps its writes with
  mirror,         \* the puller's copy of the store
  pulled          \* when it last pulled

vars == <<locations, site, service, clock, mirror, pulled>>

-----------------------------------------------------------------------------
(***************************************************************************)
(* What the four releases serve: objects below their owner's country code  *)
(* and party, at three levels; the list; and single objects by id alone.   *)
(* A store is the set of its operations, a router that of the operations   *)
(* its handlers call, and a client that of the operations its functions    *)
(* ask for.  The 2.2.1 router has no route for objects by id alone,        *)
(* although its client asks.                                               *)
(***************************************************************************)
Gets   == {"get", "get_evse", "get_connector"}
Writes == {"put", "patch_location", "put_evse", "patch_evse", "put_connector", "patch_connector"}
ById   == {"get_by_id", "get_evse_by_id", "get_connector_by_id"}

LocationsConfig             == Gets \cup Writes \cup {"list"}
Locations2111Config         == Gets \cup Writes
Locations22Config           == Gets \cup Writes
Locations230Config          == Gets \cup Writes
Locations2111Config_flat    == ById \cup {"list"}
Locations22Config_flat      == ById \cup {"list"}
Locations230Config_flat     == ById \cup {"list"}

\* The functions by which a host with routes of its own comes to the methods;
\* the stores of 2.2 and 2.3.0 have none.
LocationsHandler ==
  [list_locations |-> "list", get_location |-> "get", put_location |-> "put",
   patch_location |-> "patch_location", get_evse |-> "get_evse", put_evse |-> "put_evse",
   patch_evse |-> "patch_evse", get_connector |-> "get_connector",
   put_connector |-> "put_connector", patch_connector |-> "patch_connector"]
Locations2111Handler ==
  [get_location |-> "get", put_location |-> "put",
   patch_location |-> "patch_location", get_evse |-> "get_evse", put_evse |-> "put_evse",
   patch_evse |-> "patch_evse", get_connector |-> "get_connector",
   put_connector |-> "put_connector", patch_connector |-> "patch_connector"]

\* The handlers of the routes at each level.
location_handlers        == {"list", "get", "put", "patch_location"}
location_2_1_1_handlers  == {"get", "put", "patch_location"}
location_2_2_handlers    == {"get", "put", "patch_location"}
location_2_3_0_handlers  == {"get", "put", "patch_location"}
evse_handlers            == {"get_evse", "put_evse", "patch_evse"}
evse_2_1_1_handlers      == {"get_evse", "put_evse", "patch_evse"}
evse_2_2_handlers        == {"get_evse", "put_evse", "patch_evse"}
evse_2_3_0_handlers      == {"get_evse", "put_evse", "patch_evse"}
connector_handlers       == {"get_connector", "put_connector", "patch_connector"}
connector_2_1_1_handlers == {"get_connector", "put_connector", "patch_connector"}
connector_2_2_handlers   == {"get_connector", "put_connector", "patch_connector"}
connector_2_3_0_handlers == {"get_connector", "put_connector", "patch_connector"}

locations_router       == location_handlers \cup evse_handlers \cup connector_handlers
locations_2_1_1_router ==
  location_2_1_1_handlers \cup evse_2_1_1_handlers \cup connector_2_1_1_handlers
locations_2_2_router   == location_2_2_handlers \cup evse_2_2_handlers \cup connector_2_2_handlers
locations_2_3_0_router ==
  location_2_3_0_handlers \cup evse_2_3_0_handlers \cup connector_2_3_0_handlers

locations_2_1_1_sender_router == ById \cup {"list"}
locations_2_2_sender_router   == ById \cup {"list"}
locations_2_3_0_sender_router == ById \cup {"list"}

locations_client       == ById \cup {"list"}
locations_2_1_1_client == ById \cup {"list"}
locations_2_2_client   == ById \cup {"list"}
locations_2_3_0_client == ById \cup {"list"}

\* Writes come from an owner that uses another client; reads from the crate's.
\* The 2.2.1 store files a Location under the ids in the body, the stores of
\* the other releases under the path.
Service(files_by, receiver, sender, client) ==
  [files_by |-> files_by, writes |-> receiver \cap Writes, reads |-> sender \cap client]

Locations221  == Service("body", LocationsConfig \cap locations_router,
                         LocationsConfig \cap locations_router, locations_client)
Locations2111 == Service("path", Locations2111Config \cap locations_2_1_1_router,
                         Locations2111Config_flat \cap locations_2_1_1_sender_router,
                         locations_2_1_1_client)
Locations22   == Service("path", Locations22Config \cap locations_2_2_router,
                         Locations22Config_flat \cap locations_2_2_sender_router,
                         locations_2_2_client)
Locations230  == Service("path", Locations230Config \cap locations_2_3_0_router,
                         Locations230Config_flat \cap locations_2_3_0_sender_router,
                         locations_2_3_0_client)

Calls(handler) == {handler[f] : f \in DOMAIN handler}

Hosted221  == Service("body", LocationsConfig \cap Calls(LocationsHandler),
                      LocationsConfig \cap Calls(LocationsHandler), locations_client)
Hosted2111 == Service("path", Locations2111Config \cap Calls(Locations2111Handler),
                      Locations2111Config_flat \cap locations_2_1_1_sender_router,
                      locations_2_1_1_client)

Releases == {Locations2111, Locations22, Locations221, Locations230, Hosted2111, Hosted221}

-----------------------------------------------------------------------------
Init ==
  /\ locations = [k \in Key |-> Absent]
  /\ site \in Sites
  /\ service \in Releases
  /\ clock = 0
  /\ mirror = locations /\ pulled = 0

-----------------------------------------------------------------------------
\* Where the objects with an id are in a list; iter().find() takes the first.
First(S) == CHOOSE i \in S : \A j \in S : i <= j

At(items, id) == {i \in DOMAIN items : items[i].id = id}

\* None or one.
find(items, id) == IF At(items, id) = {} THEN {} ELSE {items[First(At(items, id))]}

\* Mutant: what is there already is kept, and found first.
append_by(items, incoming) == Append(items, incoming)

\* Replace the first object with the incoming one's id, or add it at the end.
upsert_by(items, incoming) ==
  IF At(items, incoming.id) = {} THEN Append(items, incoming)
  ELSE [items EXCEPT ![First(At(items, incoming.id))] = incoming]

Merge(current, patch) == IF patch = Unset THEN current ELSE patch

\* Mutant: a field that the patch does not have is cleared.
apply_replacing_patch(current, patch) ==
  [current EXCEPT !.id = Merge(@, patch.id), !.rev = patch.rev, !.last_updated = patch.last_updated]

apply_merge_patch(current, patch) ==
  [current EXCEPT !.id = Merge(@, patch.id), !.rev = Merge(@, patch.rev),
                  !.last_updated = patch.last_updated]

get_evse(k, uid) == find(locations[k].evses, uid)

get_connector(k, uid, id) == UNION {find(e.connectors, id) : e \in get_evse(k, uid)}

-----------------------------------------------------------------------------
(***************************************************************************)
(* The writes.                                                             *)
(***************************************************************************)
\* 404, or an error that is reported with HTTP status 200: nothing is changed.
Refuse == UNCHANGED vars

Store(k, location) ==
  /\ locations' = [locations EXCEPT ![k] = location]
  /\ UNCHANGED <<site, service, clock, mirror, pulled>>

\* What a merge leaves is stored if it deserializes.
StoreMerged(k, merged, location) ==
  IF merged.rev = Null THEN Refuse ELSE Store(k, location)

\* path and body may name different Locations: nobody compares them.
Put(path, location) == Store(IF service.files_by = "body" THEN location.id ELSE path, location)

\* The key stays, also where the patch changes the id.
PatchLocation(k, patch) ==
  IF locations[k] = Absent THEN Refuse
  ELSE LET merged == apply_merge_patch(locations[k], patch) IN StoreMerged(k, merged, merged)

PutEvse(k, evse) ==
  IF locations[k] = Absent THEN Refuse
  ELSE Store(k, [locations[k] EXCEPT !.evses = upsert_by(@, evse)])

\* Mutant: the location's first EVSE is patched.
PatchEvseFirst(k, uid, patch) ==
  IF locations[k] = Absent \/ get_evse(k, uid) = {} THEN Refuse
  ELSE LET merged == apply_merge_patch(locations[k].evses[1], patch) IN
       StoreMerged(k, merged, [locations[k] EXCEPT !.evses[1] = merged])

\* The EVSE is patched in place; the Location's own last_updated stays.
PatchEvse(k, uid, patch) ==
  IF locations[k] = Absent \/ get_evse(k, uid) = {} THEN Refuse
  ELSE LET e == First(At(locations[k].evses, uid))
           merged == apply_merge_patch(locations[k].evses[e], patch) IN
       StoreMerged(k, merged, [locations[k] EXCEPT !.evses[e] = merged])

PutConnector(k, uid, connector) ==
  IF locations[k] = Absent \/ get_evse(k, uid) = {} THEN Refuse
  ELSE Store(k, [locations[k] EXCEPT
         !.evses[First(At(locations[k].evses, uid))].connectors = upsert_by(@, connector)])

PatchConnector(k, uid, id, patch) ==
  IF locations[k] = Absent \/ get_connector(k, uid, id) = {} THEN Refuse
  ELSE LET e == First(At(locations[k].evses, uid))
           c == First(At(locations[k].evses[e].connectors, id))
           merged == apply_merge_patch(locations[k].evses[e].connectors[c], patch) IN
       StoreMerged(k, merged, [locations[k] EXCEPT !.evses[e].connectors[c] = merged])

\* The handlers of a PUT below a Location drop the last id of the path.
evse_put(k, _evse_uid, evse) == PutEvse(k, evse)

connector_put(k, evse_uid, _connector_id, connector) == PutConnector(k, evse_uid, connector)

-----------------------------------------------------------------------------
(***************************************************************************)
(* The clients: the owner stamps what it writes with the time, and makes   *)
(* no other slips than those of its site.                                  *)
(***************************************************************************)
EvsesOf(k) == {u \in Uid : <<k, u>> \in site.evses}
Known == {k \in Key : EvsesOf(k) # {}}

NamedOnce(items) == \A i, j \in DOMAIN items : items[i].id = items[j].id => i = j

Lists(Objects) == {items \in SeqOf(Objects, MaxList) : "list" \in site.slips \/ NamedOnce(items)}

\* The ids that the body of a PUT may have.
Body(path, Ids) == IF "path" \in site.slips THEN Ids ELSE {path}

NewConnectors(Ids) == [id : Ids, rev : Revision, last_updated : {clock}]

NewEvses(Ids) == [id : Ids, rev : Revision, last_updated : {clock},
                  connectors : Lists(NewConnectors(site.connectors))]

NewLocations(i) == [id : {i}, rev : Revision, last_updated : {clock},
                    evses : Lists(NewEvses(EvsesOf(i)))]

Patches(Ids) == {p \in Patch(Ids) : p.last_updated = clock /\ (p.id = Unset \/ "id" \in site.slips)}

\* Bound: an object is added to a list that is not full.
Room(items, id) == Len(items) < MaxList \/ At(items, id) # {}

EvseRoom(k, id) == locations[k] # Absent => Room(locations[k].evses, id)
ConnectorRoom(k, u, id) ==
  locations[k] # Absent => \A e \in get_evse(k, u) : Room(e.connectors, id)

Serves(operation) == operation \in service.writes

\* A write to an EVSE of a Location, or to a connector of that EVSE.
Below(k, u) ==
  \/ /\ Serves("put_evse")
     /\ \E e \in NewEvses(Body(u, EvsesOf(k))) : EvseRoom(k, e.id) /\ evse_put(k, u, e)
  \/ Serves("patch_evse") /\ \E p \in Patches(EvsesOf(k)) : PatchEvse(k, u, p)
  \/ \E id \in site.connectors :
       \/ /\ Serves("put_connector")
          /\ \E c \in NewConnectors(Body(id, site.connectors)) :
               ConnectorRoom(k, u, c.id) /\ connector_put(k, u, id, c)
       \/ Serves("patch_connector") /\ \E p \in Patches(site.connectors) : PatchConnector(k, u, id, p)

Owner ==
  \E k \in Known :
    \/ Serves("put") /\ \E i \in Body(k, Known) : \E l \in NewLocations(i) : Put(k, l)
    \/ Serves("patch_location") /\ \E p \in Patches(Known) : PatchLocation(k, p)
    \/ \E u \in EvsesOf(k) : Below(k, u)

Tick ==
  /\ clock < MaxTime
  /\ clock' = clock + 1
  /\ UNCHANGED <<locations, site, service, mirror, pulled>>

\* Mutant: the lower bound is exclusive.
list_after(date_from) ==
  {k \in Key : locations[k] # Absent /\ locations[k].last_updated > date_from}

\* list, without date_to and over all its pages.
list(date_from) ==
  {k \in Key : locations[k] # Absent /\ locations[k].last_updated >= date_from}

Reads(operation) == operation \in service.reads

\* Of several Locations listed under one id the mirror keeps any.
Pull ==
  LET listed(i) == {k \in list(pulled) : locations[k].id = i} IN
  /\ Reads("list")
  /\ pulled' = clock
  /\ \E kept \in [Key -> Key] :
       /\ \A i \in Key : listed(i) = {} \/ kept[i] \in listed(i)
       /\ mirror' = [i \in Key |-> IF listed(i) = {} THEN mirror[i] ELSE locations[kept[i]]]
  /\ UNCHANGED <<locations, site, service, clock>>

\* A GET by id alone finds the first Location with that id that the map's
\* iteration comes to.
get_by_id(i) == {locations[k] : k \in {k \in Key : locations[k] # Absent /\ locations[k].id = i}}

get_evse_by_id(i, uid) == UNION {find(l.evses, uid) : l \in get_by_id(i)}

get_connector_by_id(i, uid, id) == UNION {find(e.connectors, id) : e \in get_evse_by_id(i, uid)}

Mirror(i, location) ==
  /\ mirror' = [mirror EXCEPT ![i] = location]
  /\ UNCHANGED <<locations, site, service, clock, pulled>>

FetchLocation(i) ==
  /\ Reads("get_by_id")
  /\ \E l \in get_by_id(i) : Mirror(i, l)

\* What is fetched below a Location goes into the mirror's copy of it.
FetchEvse(i, u) ==
  /\ Reads("get_evse_by_id") /\ mirror[i] # Absent
  /\ \E e \in get_evse_by_id(i, u) :
       /\ Room(mirror[i].evses, u)
       /\ Mirror(i, [mirror[i] EXCEPT !.evses = upsert_by(@, e)])

FetchConnector(i, u, id) ==
  /\ Reads("get_connector_by_id") /\ mirror[i] # Absent /\ At(mirror[i].evses, u) # {}
  /\ LET n == First(At(mirror[i].evses, u)) IN
     \E c \in get_connector_by_id(i, u, id) :
       /\ Room(mirror[i].evses[n].connectors, id)
       /\ Mirror(i, [mirror[i] EXCEPT !.evses[n].connectors = upsert_by(@, c)])

Fetch ==
  \E i \in Key :
    \/ FetchLocation(i)
    \/ \E u \in Uid : FetchEvse(i, u) \/ \E id \in ConnectorId : FetchConnector(i, u, id)

Next == Owner \/ Tick \/ Pull \/ Fetch

Spec == Init /\ [][Next]_vars

-----------------------------------------------------------------------------
(***************************************************************************)
(* Properties.                                                             *)
(***************************************************************************)

\* Every variable has its type.
TypeOK ==
  /\ locations \in [Key -> Location \cup {Absent}]
  /\ mirror \in [Key -> Location \cup {Absent}]
  /\ site \in Sites /\ service \in Releases
  /\ clock \in Time /\ pulled \in 0..clock

\* However PUTs and PATCHes at the three levels alternate, no EVSE is in a
\* Location twice and no connector in an EVSE twice (upsert_by), unless the
\* owner puts it there: by a list that names it twice, or by a PATCH with an
\* id.  A PUT under another object's path adds none.
IdsAreUnique ==
  site.slips \subseteq {"path"} =>
    \A k \in Key : locations[k] # Absent =>
      /\ NamedOnce(locations[k].evses)
      /\ \A e \in ToSet(locations[k].evses) : NamedOnce(e.connectors)

\* No write below the Location has been made since the Location was stamped.
Bumped(l) ==
  \A e \in ToSet(l.evses) :
    /\ e.last_updated <= l.last_updated
    /\ \A c \in ToSet(e.connectors) : c.last_updated <= l.last_updated

\* Locations are where a partner looks for them.
FiledUnderId ==
  "id" \notin site.slips /\ ("path" \notin site.slips \/ service.files_by = "body")

\* A pull brings the mirror up to date in every Location whose owner has
\* stamped it after its last write below it, whatever was fetched in between:
\* nothing written in the tick of an earlier pull is missed (list's inclusive
\* lower bound).  A store that files under the ids in the body guarantees it
\* also to an owner whose paths name other Locations than its bodies.
PullIsComplete ==
  [][FiledUnderId /\ Pull => \A k \in Key : (locations[k] # Absent /\ Bumped(locations[k])) =>
                mirror'[k] = locations[k]]_vars

\* What the specification says of a PATCH below a Location: the receiver sets
\* its last_updated on the parents too.  The code leaves them as they are, and
\* an incremental pull misses the change.
ParentsAreStamped ==
  [][\A k \in Key, u \in Uid, p \in Patches({}) :
       (locations[k] # Absent /\ PatchEvse(k, u, p) /\ locations' # locations) =>
         locations'[k].last_updated = p.last_updated]_vars

-----------------------------------------------------------------------------
(***************************************************************************)
(* The store, with its lists that are scanned, implements a map at each of *)
(* the three levels: what is under an id is what find comes to.            *)
(***************************************************************************)
Fields(x) == [rev |-> x.rev, last_updated |-> x.last_updated]

ConnectorMap(cs) == [id \in ConnectorId |-> {Fields(c) : c \in find(cs, id)}]

EvseBranch(e) ==
  [rev |-> e.rev, last_updated |-> e.last_updated, connectors |-> ConnectorMap(e.connectors)]

EvseMap(es) == [u \in Uid |-> {EvseBranch(e) : e \in find(es, u)}]

LocationBranch(l) ==
  [id |-> l.id, rev |-> l.rev, last_updated |-> l.last_updated, evses |-> EvseMap(l.evses)]

Branches(store) ==
  [k \in Key |-> IF store[k] = Absent THEN {} ELSE {LocationBranch(store[k])}]

T == INSTANCE Tree WITH tree <- Branches(locations)

\* A write to the Location is the write of the tree to what its path names, a
\* PUT to what its body names there.
SameWrite(k) ==
  /\ \A p \in Patches({}) : PatchLocation(k, p) => T!PatchLocation(k, Fields(p))
  /\ \A u \in EvsesOf(k) :
       /\ \A e \in NewEvses(EvsesOf(k)) : evse_put(k, u, e) => T!PutEvse(k, e.id, EvseBranch(e))
       /\ \A p \in Patches({}) : PatchEvse(k, u, p) => T!PatchEvse(k, u, Fields(p))
       /\ \A id \in site.connectors :
            /\ \A c \in NewConnectors(site.connectors) :
                 connector_put(k, u, id, c) => T!PutConnector(k, u, c.id, Fields(c))
            /\ \A p \in Patches({}) :
                 PatchConnector(k, u, id, p) => T!PatchConnector(k, u, id, Fields(p))

\* Whatever is in the lists and in whatever order, named twice or renamed, a
\* PUT sets what its body names, also where its path ends with another id, and
\* a PATCH without an id changes what its path names.  Both change that and
\* nothing else, as in a map: no other EVSE or connector, and no field of a
\* parent (patch, evse_put, patch_evse, connector_put, patch_connector).
WritesFindTheirObject ==
  [][\A k \in Key : locations'[k] # locations[k] => SameWrite(k)]_vars
=============================================================================
