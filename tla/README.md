# Formal models of ocpi-rs

`ocpi-rs` is a Rust implementation of the Open Charge Point Interface: the wire types
(`ocpi-types`), an async sender (`ocpi-client`), in-memory receivers with their HTTP routers
(`ocpi-server`), and a small command line tool (`ocpi-cli`). This directory holds TLA+ modules of the
parts of it that keep state or are used concurrently, and of the protocols that two nodes run with
them; TLC configurations that check them on small instances; and TLAPS proofs for every size.

    tlasany M.tla                            # parse
    tlc -workers 2 -config X.cfg M           # model-check one run
    tlapm CredentialsProofs.tla              # check the proofs; likewise every other *Proofs.tla

Paths below are relative to `crates/`, those in `specs/` to the repository; `lib.rs` alone means `ocpi-server/src/lib.rs`. `PROJECT.json`
maps every definition to the lines it stands for.

## 1. Inventory

### The system

A *node* (an operator of charge points, a service provider, a hub) runs the routers of `ocpi-server`
over stores that its host application shares. Other nodes call it with `ocpi-client`. Everything is
in memory: a store is a `HashMap` behind a read-write lock, every store method takes the lock once,
and a restart empties the store. The HTTP runtime runs each request as its own task on a thread pool.
The client keeps no state except its base URL and token; it sets no timeout and never retries. So
whatever a party remembers between two calls is in its host application: the models have such a party,
give it exactly the library's calls, and mark what it remembers as external.

The same module exists once per protocol release (2.1.1, 2.2, 2.2.1, 2.3.0): the stores and routers
repeat the same code over another object type. A model of one is a model of all, where the
repetitions do agree; where they do not (which versions the constructor supports, which ids a Location is filed
under, which methods a router dispatches) the difference is a parameter of the model.

| Component | State | Operations | Interacts with |
|---|---|---|---|
| Version negotiation (`select_best_version` lib.rs:435, `negotiate_version`, `select_version` ocpi-client/src/lib.rs:162) | none | pure selections from a `/versions` list | both the credentials handlers and the client's bootstrap |
| Version registry (`VersionsConfig` lib.rs:205, `versions_router`) | list of versions; two maps of details, role-bearing and role-less | `add_version`, `add_legacy_version`, list, details | read-only once served |
| Credentials store (`CredentialsConfig` lib.rs:462 and its 2.1.1 and 2.3.0 twins) and handlers (lib.rs:6860, 7029, 7194) | registry: token to party with endpoints; own credentials; optional fetcher | GET, POST, PUT, DELETE; host calls `register`, `update`, `invalidate`, `delete` | awaits `GET /versions` and details of the party (`OcpiVersionFetcher`, ocpi-client/src/lib.rs:4561) |
| Registration client (ocpi-client/src/lib.rs:380, and its 2.1.1 and 2.3.0 twins) | none | `register`, `update_credentials`, `get_credentials`, `delete_credentials` | the handlers above, over a network |
| Object stores: sessions, tokens, tariffs, CDRs, payments, hub client info (fourteen stores, lib.rs:1279-6425) | map of key to object | `put`/`store`, `get`, `patch_json`, `delete` as the store has them; `list` | routers (lib.rs:7359-9805), push client |
| Paginated lists (`list` of every store, `OcpiPaged` envelope.rs:100, `PaginationMeta`) | none of their own | sorted, filtered page with total and `Link` | getters of the client |
| Locations stores (lib.rs:5034-6586) | map of Locations, each a list of EVSEs, each a list of connectors | PUT and PATCH at three levels, get, list | routers (lib.rs:9816), pull client |
| Push client (ocpi-client/src/lib.rs:716-) | none | one HTTP call per function | routers above |
| Token authorization (`authorize`, lib.rs:3582, 3917) | none of its own | looks a token up by uid and type, decides by its status | reads the tokens store while tokens are pushed |
| Charging preferences (`set_charging_preferences`, lib.rs:1405) | none of its own | looks a session up by id, decides by what the driver gave | reads the sessions store while sessions are pushed |
| Commands (lib.rs:4025-4500, routers lib.rs:8874-9372) | none | five commands and the callback for their results; placeholders that answer `NOT_SUPPORTED` | the host's bridge to Charge Points; the sender's record of its calls |
| Charging profiles (lib.rs:4510-4710, router lib.rs:9595) | none | GET, PUT, DELETE of a profile, callbacks for their results and for unsolicited updates | as commands |
| Payment terminals client (ocpi-client/src/lib.rs) | none | lists and activation of terminals at a payment provider | no server for it in the crate |
| Wire types, status codes, headers, CLI, conformance data, fuzz targets, scripts | none | conversions, tooling | |

### What is hard, and what makes each component correct

* **Credentials.** A handler checks the registry, then suspends for two HTTP calls to the party it is
  registering, then writes, and (POST) takes the lock a third time to burn the bootstrap token.
  Other requests and the host run at each of these points; the party may fail or never answer; the
  caller may disconnect. Correct means: the outcome is that of one atomic registration; exactly
  those requests that changed the registry were told so; an entry never has one party's credentials
  beside another presentation's catalogue; a failed fetch-back is never taken for a skipped one; the
  bootstrap token is burned, and only that token.
* **Registration.** The party that registers learns what became of a call only from its answer, which may
  be lost although the call was handled, or handled later, when the party is already at its next call; and
  the server may restart with an empty registry. Correct means: party and server agree unless something
  happened behind the party's back, which it then finds out; and every loss can be recovered from.
* **Versions.** Two maps, a list and three selections written apart must agree on what is served, in
  whatever order versions are added and although a list may hold versions a side does not speak.
* **Lists.** A crawl reads pages by offset while others write. Correct means: the pages tile the
  list when it only grows; the crawl ends; and the advice the protocol gives for shrinking lists works.
* **Push.** A call may fail with the owner not knowing whether it was handled; it may be handled later,
  over newer state; a patch may be refused; the receiver may restart empty. Correct means: what the owner
  believes acknowledged is stored, the copy is always something the object once was, in the end it is
  the object; and `authorize` and `set_charging_preferences`, asked in between, answer what is consistent
  with what was acknowledged.
* **Locations.** Writes below a Location find their place by scanning lists. Correct means: ids stay
  unique, a write touches only what it names, and incremental pulls miss nothing that was stamped.
* **Commands and profiles.** The answer to a request and its result are two calls in opposite directions
  that overtake each other; each may be lost; and a result does not say which request it belongs to.
  Correct means: no result is taken for another's, what was refused is not executed, and nobody waits for ever.

The complete list of hazards, each at its line and with the properties that cover it, is `hazards` in
`PROJECT.json`.

## 2. Modules

| Module | Models | Kind |
|---|---|---|
| `Negotiation` | the three selections from a `/versions` list | operators |
| `Versions` | the version registry and a partner that bootstraps | state machine, extends `Negotiation` |
| `Registration` | what the credentials store promises | abstract specification |
| `Credentials` | credentials store, handlers, fetch-back, host | state machine, extends `Negotiation`, implements `Registration` |
| `Handshake` | a party and its registration client, the network, server restarts | state machine, extends `Credentials` |
| `Crawl` | a paginated list, the getters, its writers and a crawling party | state machine |
| `Objects` | put, store, get, patch, delete of one entry; JSON merge; `authorize`, `set_charging_preferences` | operators |
| `Push` | owner, network and receiver of one object | state machine, extends `Objects` |
| `Tree` | what a Locations store promises: a map of maps | abstract specification |
| `Locations` | the three-level store in four releases, its owner and a puller | state machine, implements `Tree` |
| `Commands` | sender and receiver of commands and profile requests, network, Charge Point | state machine |
| `VersionsProofs`, `CredentialsProofs`, `HandshakeProofs`, `CrawlProofs`, `PushProofs`, `LocationsProofs`, `CommandsProofs` | theorems about the module they are named for | proofs |
| `MC...` | the instances that TLC checks | |

What the four releases repeat is written down as tables, which the state machines read: the operations of each
store, the function of its handler trait that calls each of them (through which a host with routes of its own comes to the
store), the operation that each method of a router has handled, and the request that each function of the client sends. What an
owner or a sender can do is what the tables of its release have in common, so an operation that is missing in one
of them is missing in the model. In `map` such a table stands for the methods, handlers or functions it lists, whose bodies the
actions have once for all releases; a bare list of routes stands for the routes alone.

Definitions marked "Mutant" in a comment are plausible mistakes in the code. Nothing uses them; putting one
in the place of the definition below it makes a run fail, which shows that the property depends on the code.

### `Negotiation`, `Versions`

A version is a natural number, because only the order that `VersionNumber` derives matters. An
`Option` is a set with at most one element. `max_by_key` keeps the last of equal maxima and `find`
the first match, which the operators say by position in the list. `Versions` adds entries at startup
(`add_version`, `add_legacy_version`; adding a version again replaces its catalogue and appends a
second list entry), hands the registry to the router, and lets a partner `Bootstrap` and fetch
`version_details` in the router's lookup order. An entry and the details filed with it are taken
to have the same version number; the host passes both.

### `Credentials`, `Registration`

One action is one stretch of a handler between two points where others may run:

| Action | Code |
|---|---|
| `PostCheck`, `PutCheck` | token extraction and registry check, up to the first await |
| `Get`, `Delete` | whole handlers: one critical section each |
| `FetchVersions`, `FetchDetails`, `FetchFails` | the two awaits of `fetch_back`, with any list of `Offer` or any error |
| `Disconnect` | the runtime drops a suspended handler when its connection closes; possible only at an await |
| `PostRegister`, `PutUpdate` | `register_with_endpoints`, `update_with_endpoints` |
| `PostBurn` | `invalidate` of the bearer unless it equals Token C, then the answer |
| `HostRegister`, `HostUpdate`, `HostInvalidate` | the host's own calls |

`registered` is the registry, `at` where each handler is, `got` what its fetch-back has obtained,
`cfg` the constructed store (release, fetcher or not, supported versions). `wrote` is a history
variable. A catalogue is identified by the credentials object and the list entry it was read through:
its contents never decide anything. The router of each release is a record from method to the calls that its handler makes on
the store, in order; a release is `Served` by the actions, which are those of 2.2.1, where its handler makes the same calls.

`Registration` is the promise without awaits and locks: `Join`, `Rotate`, `Leave` in one step each,
by callers that do so at most once, and an operator that issues and burns bootstrap tokens. `Credentials`
instantiates it (`R`) with `party <- registered[TokenC]`, `issued <-` the other live tokens, and
`joined`, `rotated`, `left` from `wrote` and the methods of the requests in it. Checks, awaits and refusals stutter.

### `Handshake`

The server is `Credentials`, whole, with its actions; `Handshake` puts a party and a network before it.
A call is a request that travels (`sent`), is delivered (`Deliver`: the check of the handler runs), goes on
(`Proceed`: fetch-back, write, burn) and is `Answered`. The party waits for one call at a time. `Fail`
ends the waiting and nothing else: the request may be on its way or at any point of its handler, and be
handled beside the next one, or its connection be closed (`Drop`). `Restart` empties the registry and
drops the handlers. `Issue` and `OperatorRelease` are the operator, who gives out the bootstrap token
and removes the registration of a party that asks for it.

`knows`, `token` and `filed` are what the party remembers. `Conclude` is what the client's return value
says: a 405 to a POST means that it is registered (`locked`: without a token to use), a 401 or 405 to
anything else that it is not, an error with status code 3001 nothing. After a lost answer the party repeats the
call, which is safe for PUT and DELETE because Token C stays the same. `surprised` and `lostPost` are history:
whether the registration was changed by anything but an awaited call since the server last decided
on one, and whether the answer to a POST was ever lost.

### `Crawl`

An object is its key and its `last_updated`. `List` is filter, sort, skip and take; `has_next` adds in
modular arithmetic of `Width`; a store is assumed to hold fewer objects than a `u32` counts. The `HashMap` iteration order is `layout`; it decides among equal
timestamps only (the sort is stable) and may change when a key is inserted, so it is kept only
while two timestamps are equal. `Asked` is what the handler reads from the parameters a getter passes on; all
seventeen getters of the client are listed, each with its parameters. A party goes from page to page by the `Link`
(which carries offset and limit, no filters), by computing the next offset, or by computing it with
the care the protocol advises (lower the offset when `X-Total-Count` has fallen). What is written
meanwhile is part of a crawl: `"grow"` (new objects only) or `"move"` (created, replaced and removed).
`UntiedSpec` starts without equal timestamps, `TiesSpec` with any, `FairSpec` is the first with fairness.

A crawl may begin at any offset with any limit. `start` is what it set out to see: the objects from its
offset on (`Beyond`). Where offset and limit add up to 2^32 or more an optimised build wraps the sum, and the Link
leads back to the beginning: such a crawl still leaves no gap, but receives objects twice. `Fits`
says that the sums of a crawl stay below; `NothingTwice` (for Links) and `LinksAdvance` claim only those crawls.
`CrawlEnds` is checked for both kinds.

### `Objects`, `Push`

An object has one field of each sort that a merge-patch tells apart: a required scalar, a list, and an
optional nested object with a required and an optional member (a session's `total_cost`). `json_merge`
is the code's, including that a member merged into a missing nested object changes nothing;
`from_value` is the deserialization that follows it. `Profiles` are the sets of methods that a store (or its
handler trait), its router and the client crate share, one or two for each of the fourteen stores, so that `Push` runs for a store with PATCH and GET (sessions), one with
PATCH and no GET of single objects (tokens), one with DELETE (tariffs), a POST-only one (CDRs, payments) and one with PUT
and GET alone (client info).

In `Push` an owner edits its object and keeps `acked`, what it believes the receiver has. A call is a
record in `call`; `Handle` runs the receiver's handler on it, `Answered` returns the reply, `Fail`
ends the call before or after it was handled, `Restart` empties the store. A call that failed unhandled
may become `late`: `HandleLate` runs it at any later moment, over whatever is stored by then, since
no store compares `last_updated`. `forgotten` and `overtaken` are history: a restart or a late call
has changed the entry and the owner has had no answer from which it could know. The owner does what the
protocol advises: after a failure it asks with GET before it writes (or, where it has no GET, writes again),
and a PATCH answered 404 is followed by a PUT. `authorize` and `set_charging_preferences` change nothing; the
properties ask them in every state. Both look an object up without its owner, so `authorize` takes
the statuses of all tokens with the uid and type and may answer for any of them.

### `Locations`, `Tree`

Each write is one action: `Put`, `PatchLocation`, `PutEvse`, `PatchEvse`, `PutConnector`,
`PatchConnector`, with the scan for the first match and its not-found and does-not-deserialize
branches. What an object says is one field, `rev`. `evse_put` and `connector_put` are the handlers of a PUT below a
Location: they drop the last id of the path, and the object goes under the id in its body. `service` is the release, or a
host's own routes over its trait: which operations there are, which the client uses, and whether a PUT of a Location is
filed under the ids in the body (2.2.1) or under the path (the others).

The owner stamps its writes with a clock. `site` is what it has and the `slips` it makes, which the protocol does not
allow and the code does: `"path"`, a PUT whose path names another object than its body, at any level; `"id"`, a
PATCH that changes an id; `"list"`, a body whose list names an object twice. Every property says which of them it
puts up with. The other party keeps a `mirror`: it asks for what was updated since its last pull (`Pull`) and, where
the release has the routes, fetches single objects by id alone (`Fetch`), which finds any Location with
that id; of several listed under one id the mirror keeps any.

`Tree` is the store without lists: each level is a map, and the six writes set or patch what is under a path.
`Locations` instantiates it (`T`) with `tree <- Branches(locations)`: under an id of a list is what the list has first with
that id. Contents are the same on both sides; order and positions, which the scans work with, are gone.
`T!TSpec` says that every step is some write; since a PUT of a whole Location can bring about almost any
change, `WritesFindTheirObject` says more: a Location that changes does so by the write of `Tree` that has the
name of the write that ran (`SameWrite`), a PATCH at the ids of its path, and a PUT below the Location at the id of
its body, the last one of the path being dropped. That the two may differ at all is not what the protocol advises (see
*Disagreements*).

### `Commands`

A sender POSTs a command (or GETs, PUTs, DELETEs a profile); `handle` is the receiver's route with either
the placeholder or a bridge to Charge Points behind it; `post_command_result` sends the result, possibly
before the answer has arrived; `receive_result` is the sender's callback route. The services are what routers, handler traits,
client functions (those that ask and, as `tells`, those that post results) and callback routes have in common for 2.1.1,
2.2, 2.2.1 and for profiles. A callback
hands on the type of the command (for profiles: of the request) and nothing that identifies the call. The sender
modelled therefore keeps one call open on each route (`RouteIsFree`), and keeps it open also when it has failed
or expired, since a result may still come; such a call blocks its route until one does.

## 3. Runs

Every run checks deadlock except where the modelled system may stop (all requests handled, crawl
ended, object no longer changing): those configurations say `CHECK_DEADLOCK FALSE`.

| Run | Instance | Checks | Shows |
|---|---|---|---|
| `credentials` | 2 requests, tokens A and C, 2 credentials objects, 2 URLs, 3 lists, 4 configurations; 165,348 states | type, 2 invariants, 4 action properties incl. refinement, 2 liveness properties | the split handlers implement one atomic registration |
| `credentials_parties` | 2 requests of 2 parties, no host | `PostRefusedOnlyIfRegistered` *violated* | a party that never registered is refused as already registered |
| `handshake` | one party, 2 requests, 2 credentials objects, with and without fetch-back, 1 loss, 1 restart; 294,336 states | type, `Agreement`, `LockedOnlyByLostPost`, `LossIsNoticed`, `Recovers` | party and server agree or the party finds out; it is always registered again |
| `versions` | lists of up to 3 entries over all versions, 2 URLs, 3 partners; 20,110 states | type, 2 invariants, 1 action property | list, maps and selections agree |
| `crawl` | 3 objects, pages of 1 and of the default 2, growing and moving lists, a Link that wraps, one lost reply; 489,812 states | type, `CrawlIsComplete`, `NothingTwice`, `CarefulCrawlIsComplete`, `LinksAdvance`, `CrawlEnds` | pages tile a list that grows; the advised way is complete for one that shrinks; Links lead on, and following them ends |
| `crawl_ties` | equal timestamps at the start | `CrawlIsComplete` *violated* | an insert can hide an old object |
| `crawl_filters` | a filtered list followed by Links | `FilterIsKept` *violated* | the Link drops the filter |
| `push` | 3 edits, one failed (or late, or invalid) call, one restart; 622,688 states | type, `AckedIsStored`, `CopyIsASnapshot`, `BlockedStaysBlocked`, `PreferencesSettle`, `PatchInStepIsMergePatch`, `Converges` | acknowledged means stored, also for what is decided from the copy; the copy converges |
| `push_merge` | patches of a missing nested object | `PatchIsMergePatch` *violated* | such a patch is acknowledged and dropped |
| `locations` | 2 Locations, or 2 EVSEs of one, or 2 connectors of one; 2 times, 6 services, owners that make no slip or one; 49,575 states up to symmetry | type, `IdsAreUnique`, `PullIsComplete`, `WritesFindTheirObject` | scans and upserts change what a PUT's body or a PATCH's path names, at every level and whatever is in the lists; pulls between fetches miss nothing stamped |
| `locations_parents` | 1 Location, 2 EVSEs, 2 times | `ParentsAreStamped` *violated* | a PATCH below a Location does not stamp it |
| `commands` | 2 calls, 4 services, placeholder or bridge, 2 losses; 22,842 states | type, `ResultIsMeant`, `RefusedIsNotExecuted`, `ResultsArrive`, `CallsSettle` | results find their calls; refused is final; every call is settled |

### Why the bounds are enough

* *Two requests* are what every race of the handlers needs: each critical section depends only on the
  entry it touches, and a third writer can be the host, which is unbounded. The proofs remove the bound.
* *Three lists*: one with two mutual versions, one with a version twice, one with none.
* *Two requests in `Handshake`* are an awaited call and one that has failed and is still at work; with one loss there
  cannot be more. The safety properties are proved for any number of losses and restarts.
* *Three objects, pages of one and two*: a page boundary before, between and after the objects, a full and a
  partial last page, an explicit limit and the default. `Width` is 16; one crawl, which starts at
  offset 1 with limit 15, wraps. The proofs have any offsets and limits.
* *Three edits*: create, change, change or remove; two patches in a row can then be told from one.
  One failure and one restart may hit any of the calls between them, and a late call may come at any
  later moment. One failure is too few for two late calls in a row; the proofs remove this bound. The scalar takes two values and
  the amounts one: a patch that leaves an amount alone and one that sets it differ all the same by `Unset`.
* *Two of each in `Locations`*: the first and the not-first match of each scan, two objects that
  a path and a body mix up, or that a PATCH gives one id. `Sites` has one shape with two connectors, one with two EVSEs and one
  with two Locations, since a scan of one list never reads another's; each comes with every slip of its level. Lists have up
  to two objects, which is enough for the same id twice. Slips are made one at a time and not with all of the shapes
  (EVSEs of the larger ones have no connectors then); the proofs have any sites and slips. With one
  revision objects differ by their ids and timestamps only, which is what scans and pulls compare.
* *Two calls in `Commands`*: one more than a result belongs to. Two losses: of answer and result of one
  call, or one of each.

### Fairness

* `Credentials`: weak fairness of `Handler(r)`, the stretches after the fetch-back. They take a lock
  that is only ever held for a map operation, and have no await. Nothing is assumed of the party
  answering a fetch: the fetcher sets no timeout, and a handler may stay suspended for ever. No
  progress is claimed there.
* `Handshake`: weak fairness of what an awaited call depends on (delivery, handler, a fetch-back that is
  answered, the party reading the answer or noticing that the connection broke), of the party registering and
  repeating what was lost, and of the operator. Strong fairness of `get_credentials`: a registered party that
  updates again and again still asks now and then; since asking is disabled while a call is out, weak fairness
  would not say it. Nothing is assumed of calls that have failed. A fetch-back is assumed to be answered only
  here, where the party that is asked is the one that waits; it may fail as often as calls are lost.
* `Crawl`: weak fairness of `Serve` (the handler's task) and of the party going on once it has a page.
  Losses are bounded; writers may do as they like. `limit=0` is left out: its Link never
  advances, and such a crawl really does not end.
* `Push`: weak fairness of the owner sending what it has to send, of the handler and of the return of
  its answer. Failures are bounded, so `Converges` says what happens once they stop. None of a late call.
* `Commands`: weak fairness of everything that is on its way, of the Charge Point (`post_command_result`) and
  of the sender's patience (`Expire`): that a host ends its waiting at some time is what `CallsSettle` needs,
  since a lost result is not repeated.

### Disagreements with the documentation

The five violation runs are `findings` in `PROJECT.json`, with the lines quoted. Further ones
were met while modelling, seen by reading and not given a run:

* POST and PUT answer with a clone of the one configured credentials object (lib.rs:6967); the protocol
  asks for a new token on each success.
* When a version is listed twice the server's selection takes its last entry and the client's its
  first, though a comment says that one mirrors the other (lib.rs:436).
* Results of commands and profile requests come in at one route per command type or kind of request
  (lib.rs:8973, 9595); the session id in the path of a profile result is not handed on. The protocol lets the
  sender make an identifier of the request part of the URL (`specs/ocpi/2.2.1/mod_commands.asciidoc:109`,
  `mod_charging_profiles.asciidoc:176`). With these routes a sender can have one open call on each, as modelled.
* The 2.2.1 client's `get_location`, `get_evse` and `get_connector` ask paths of ids alone, for which
  `locations_router` has no route; the one for a connector has three segments and is read as country code, party and
  Location.
* Where the id in the path is not that of the object, the protocol advises to answer with 2001
  (`specs/ocpi/2.2.1/transport_and_format.asciidoc:292`). Nothing compares the two, at no level. An EVSE and a connector go under
  the id in their body (lib.rs:9947, 10003), over the one that has it. A Location of 2.1.1, 2.2 or 2.3.0 goes under its path: a PUT under another's path is
  stored there, and a list then has two objects with one id. `PullIsComplete` is claimed where Locations are filed under their
  ids (`FiledUnderId`): always in 2.2.1, and in the others for owners whose paths and bodies agree.
* A PATCH merges the id too (lib.rs:5179, 5238), so two EVSEs of a Location may come to have one uid. `IdsAreUnique` is claimed for
  owners whose patches have no ids and whose lists name nothing twice.
* `VersionsConfig::version_details` looks in the role-bearing map only, so through the
  `VersionsHandler` trait a listed role-less version has no details (lib.rs:276); the router asks both.
* The Link is a path, and the getters need an absolute URL.
* `has_next` adds two `u32` without a check (envelope.rs:140).
* Lists are sorted by `last_updated`, not by creation date, so replacing an object during a crawl
  shifts the others; the properties of crawls of moving lists are about objects that nobody touches.
* A PATCH with `charging_periods` replaces the list (lib.rs:1344), where the protocol adds to it.
* A write to a Location that does not deserialize is answered with HTTP status 200 and an error envelope.

### What some properties leave open

* `HighestMutualIsChosen` is about the client's `select_version`. Of the server's `select_best_version` the runs show that
  an entry of a version it does not speak does not change its choice (`ForeignEntryIsIgnored`) and that the catalogue of a
  party is read through a version both sides have (`CataloguesMatch`).
* `ResultIsMeant` rests on the sender keeping one call open on each route (`RouteIsFree`): the library does not identify calls.
* `WritersAreAnswered` begins where the fetch-back has ended; one that never returns keeps its handler for ever.
* `IdsAreUnique` and `PullIsComplete` claim owners that do not make certain slips (see *Disagreements*).

## 4. Proofs

Seven modules hold 34 theorems; all but two (`ListsAreMaps`, `WhereMergesDiffer`) name a property that a run
checks, and the run shows it on a small instance. They are proved for any sets
of requests, tokens, objects, keys, calls and values, any bounds, and any lists and services, from the
assumption of the module that declares the constants: `CredentialsAssumption`, `HandshakeAssumption`,
`VersionsAssumption`, `CrawlAssumption`, `ObjectsAssumption`, `PushAssumption`, `LocationsAssumption`, `CommandsAssumption`. These say
that bounds are numbers, that Token C is a token, that a list has fewer than 2^32 objects, that offered lists are lists, and that sentinels (`Absent`,
`Nothing`, `Null`, ...) differ from the values they stand beside.

| Module | Theorems (each `Spec => []P` or `Spec => P`) |
|---|---|
| `CredentialsProofs` | `TypeCorrect`, `CataloguesAlwaysMatch` (`CataloguesMatch`), `EffectsAreAnswered` (`EffectIffSuccess`), `HostIssues` (`OnlyHostIssuesTokens`), `BurnSpares` (`BurnSparesTokenC`), `FetchesAreNotSkipped` (`FetchIsNotSkipped`), `Refinement` (`ImplementsRegistration`) |
| `HandshakeProofs` | `HandshakeTypeCorrect`, `PartiesAgree` (`Agreement`), `OnlyLostPostsLock` (`LockedOnlyByLostPost`) |
| `VersionsProofs` | `TypeCorrect`, `AdvertisedIsServed` (`ChosenVersionIsServed`), `HighestIsChosen` (`HighestMutualIsChosen`), `ForeignEntriesAreIgnored` (`ForeignEntryIsIgnored`) |
| `CrawlProofs` | `TypeCorrect`, `CrawlsAreComplete` (`CrawlIsComplete`), `PagesAreDisjoint` (`NothingTwice`), `CarefulCrawlsAreComplete` (`CarefulCrawlIsComplete`), `LinksAlwaysAdvance` (`LinksAdvance`) |
| `PushProofs` | `TypeCorrect`, `AcknowledgedIsStored` (`AckedIsStored`), `CopiesAreSnapshots` (`CopyIsASnapshot`), `BlockedTokensStayBlocked` (`BlockedStaysBlocked`), `PreferencesComeToAnEnd` (`PreferencesSettle`), `PatchesInStepMerge` (`PatchInStepIsMergePatch`), `WhereMergesDiffer` |
| `LocationsProofs` | `TypeCorrect`, `NoIdTwice` (`IdsAreUnique`), `PullsAreComplete` (`PullIsComplete`), `WritesAreFound` (`WritesFindTheirObject`), `ListsAreMaps` (`T!TSpec`, as long as no PATCH changes an id) |
| `CommandsProofs` | `TypeCorrect`, `ResultsAreMeant` (`ResultIsMeant`), `RefusalIsFinal` (`RefusedIsNotExecuted`) |

*Credentials.* `TypeOK` is inductive because it also types what a suspended handler carries: past the first
call a version entry, before the write an endpoint set, and always a complete request.
`CataloguesMatch` alone is not inductive: nothing in it keeps a suspended handler from carrying a
catalogue that belongs elsewhere, which it would then write. `MatchInv` adds `CarriedMatches`, the same
relation between a handler's request and what its fetch-back has obtained; each of the fetch steps
establishes it from negotiation (`SelectionIsAnEntry`), and each write moves it into the registry
(`MatchingWrite`). `EffectIffSuccess` is inductive together with `TypeOK`. `HostIssues` and `BurnSpares`
need only `TypeOK`; `FetchIsNotSkipped` needs `FetchedInv` (a handler that is about to write
carries a catalogue if there is a fetcher). `StepRefines` maps each action to a step of `Registration` or a stutter,
from `TypeOK`, `EffectIffSuccess` (a request that writes has not written before, so the abstract caller
is new) and `MatchInv` (what is stored is what `Registered` allows).

*Handshake.* `Agreement` is about moments when no call is out, and says nothing of how they are reached.
`HandshakeInv` adds where an awaited call is (`SentInv`, `CallInv`) and `KnownOrAnswered`: unless something
has happened behind the party's back, the registry is as the party knows it until the server decides on the
call, and as the party will be told from then on. `NoStrayPost`, which holds while no POST was lost, is what
`LockedOnlyByLostPost` needs: no other POST is about, so an entry under Token C is known to the party.
`Arrival` and `Advance` first reduce the handlers of `Credentials` to what they do to the registry and to the
place of the call (`Arrives`, `Advances`); the cases of the proof are those.

*Versions.* The selections are defined by position in a list; the lemmas `Least`, `Highest`,
`NegotiatedIsHighest` and `SelectedIsHighest` show that each returns the highest common version, and
`ForeignEntry` that an entry of a version the chooser does not speak changes nothing. `Inv` adds `Catalogued`
(what is listed is filed, in the map for its version) and `Chosen`.

*Crawl.* A page is given by ranks, the cardinalities of what comes before an object, so the proofs rest on lemmas about
how ranks change when the list is written: a new object that is the newest moves nobody, one that goes moves
each object behind it by one, and ranks are distinct and below the size of the list. `Inv` has the types, that
no timestamps are equal, and that the request is a page of the crawl (`Paging`). Each of the three
safety theorems adds the half of "the pages tile the list" that it needs:

* `NoGap`: what the crawl set out to see and has not seen is ahead, at a rank not below the request's offset. An offset
  that wraps only comes down, so `CrawlIsComplete` needs no `Fits`.
* `NoOverlap`: what has been seen is behind, at a rank below the offset. Here a wrapped offset would break the proof.
* `NoSkip`, for the careful crawl of a closed interval: objects leave the list on both sides of the offset, and
  the party learns only how many. What has not been seen is at most as far from the end of the list as the offset was from the
  last total; since no new object comes into the interval, lowering the offset by the difference does not pass it.

`LinksAlwaysAdvance` needs only `TypeOK` and what a reply on its way says of its own request, and so holds with
equal timestamps too.

*Push.* `Inv` says what a call means: `CallInv` (a PATCH carries the difference between what is acknowledged
and what the object was when it was sent, or nulls a required field), `Remembered` (what is sent is what
the object was) and `Agrees` (until a call is handled the entry is what the owner believes; from then on
it is what the reply will make it believe). The core is `PatchRestores`: merging the difference of two objects
into the first yields the second, if the patched nested object is there; it is where the finding of `push_merge` would
break the proof. `WhereMergesDiffer` says how far that finding goes: the code's merge and that of RFC 7396, each defined by
itself in `Objects`, differ exactly where a patch gives a nested object that is not there. `PatchesInStepMerge` then shows, from
`CallInv` and `Agrees`, that an owner who never adds one by PATCH does not meet it, as long as nothing has gone on behind his back.

*Locations.* `TypeCorrect` and `NoIdTwice` follow from `Inv`, which is the two properties together. The proofs rest on lemmas
about lists of whatever has an id: `Place` and `Found` say what a scan comes to, and `Replaced` and `Upserted` that a list written at the
first match, or by `upsert_by`, has nothing new but the object (`Alters`) and finds under every id what it found before,
except the object under its own (`Sets`). Each write below a Location is reduced to one of them (`EvseStored`,
`ConnectorStored`), and then to `Written`: one Location is replaced by a well-typed one, part of which has
just been stamped, and in which no id is twice if the owner puts none there. `PullInvariant` adds, under `FiledUnderId`, that Locations are
under their own ids (`Filed`) and that what was stamped before the last pull is in the mirror (`Mirrored`).

For the refinement, `MapsAreSet` turns `Sets` into an update of the map under one id, `EvseGrafted` and
`ConnectorGrafted` carry it up to the store, and one lemma per write (`PutIsPut` to `PatchConnectorIsPatch`) identifies
it with that of `Tree`; `WritesAreFound` and `ListsAreMaps` follow. Neither rests on unique ids: scans on either side take the first match,
so an id that is in a list twice does no harm as long as it is the first that is written. A PATCH with an id is no
write of `Tree`, which is why `ListsAreMaps` has the hypothesis and `SameWrite` is about patches without one.

*Commands.* `Inv` adds to `ResultIsMeant` what is known of each call and each result on its way, and `OneOpen`: no two
open calls have the same route. A result then has one candidate only, its own call (`OneCandidate`).

*Only model-checked:* the liveness properties (`BearerIsBurned`, `WritersAreAnswered`, `LossIsNoticed`,
`Recovers`, `CrawlEnds`, `Converges`, `ResultsArrive`, `CallsSettle`), which are beyond the prover together with
everything that needs `ENABLED`.

## 5. What is not modelled

* Contents, parsing and formatting: envelopes, headers, timestamps' text, status messages. Status
  codes appear as the outcomes the handlers tell apart.
* Poisoned locks: a handler that panics while it holds one. No critical section has a panic other than
  arithmetic overflow in debug builds.
* `Push` has at most one late call at a time, and one owner per object: two owners that push under one key are
  two parties that claim one object.
* The order of two PUTs of one party whose fetch-backs take different times: both orders are explored, and no
  property claims one; the code promises none.
* Unsolicited updates of an active charging profile (`cp_receive_active_update`): the placeholder discards them.
* Payment terminals: the client has functions for lists and activation of terminals, and no server in the crate
  answers them.
* PATCH with a list (of EVSEs or connectors): a PUT does the same to the model's state.
* A crawl with `limit=0`: its Link never advances.
* Wire types, status codes, transport headers, the command line tool, conformance data, fuzz targets and CI: conversions and
  tooling without state. What of them matters (the order of `VersionNumber`, JSON merge, which patch deserializes) is
  in the modules that depend on it.

## 6. Plan

Done, in this order: `Negotiation` and `Versions`; `Registration`, `Credentials` and its proofs (the most
important behaviour, since every other module is used by a registered party); `Crawl`; `Objects` and
`Push`; `Locations`; `Handshake`, the composition with the registration client; authorization, preferences and late calls in
`Push`; the releases and the mirror's fetches in `Locations`; `Commands`; the proofs about all of them; `Tree` and its refinement.

What could follow:

1. `OperatorRelease` and `Issue` by an operator who acts on his own, for several parties, once the registry keeps
   parties apart (see `credentials_parties`).
2. `Commands` for callback routes that identify the call, if the library comes to have them: `RouteIsFree` could then go.
