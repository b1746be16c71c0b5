------------------------------- MODULE Crawl -------------------------------
(***************************************************************************)
(* Paginated lists.  A store (sessions, CDRs, tariffs, tokens, locations,  *)
(* client info) answers a GET with the objects whose last_updated is in an *)
(* interval, sorted by last_updated, from an offset up to a limit, and a   *)
(* Link to the next page.  A party crawls a list page by page, while the   *)
(* owners of the objects go on writing them.                               *)
(*                                                                         *)
(* An object is its key and its last_updated; the rest of it never decides *)
(* where it appears.  The store is a HashMap: objects with equal           *)
(* timestamps come in the order of the map's buckets (the sort is stable), *)
(* and inserting a new key may rehash, that is, shuffle them.  While no    *)
(* two timestamps are equal the order of the buckets never shows, and is   *)
(* not told apart.                                                         *)
(***************************************************************************)
EXTENDS Naturals, FiniteSets

CONSTANTS
  Key,            \* keys of objects
  MaxTime,        \* bound: timestamps are 0..MaxTime; 0 is the epoch
  Width,          \* 2^32: what u32 arithmetic wraps at
  DEFAULT_LIMIT,  \* the page size when the request names none
  Crawls,         \* the crawls a party may start
  MaxLosses,      \* bound: replies lost
  Absent,         \* no object under this key
  Nothing         \* no filter, no limit; nothing on the wire

Time == 0..MaxTime
Filter == [from : Time, to : Time \cup {Nothing}]
Everything == [from |-> 0, to |-> Nothing]

\* How the party gets from a page to the next one: it takes the Link, resolved
\* against the URL it asked; or it asks for the next offset, with or without
\* looking at how X-Total-Count changes.
Mode == {"link", "offset", "careful offset"}

\* What is written while the list is crawled: it only grows, or objects are
\* created, replaced and removed.
Writers == {"grow", "move"}

\* A store has less than 2^32 objects: their number is a u32.
ASSUME CrawlAssumption ==
  /\ IsFiniteSet(Key) /\ Cardinality(Key) < Width
  /\ MaxTime \in Nat /\ MaxLosses \in Nat /\ Width \in Nat \ {0}
  /\ DEFAULT_LIMIT \in 0..(Width - 1)
  /\ Absent \notin Time /\ Nothing \notin Nat \cup Crawls
  /\ Crawls \subseteq [mode : Mode, writers : Writers, filter : Filter, offset : 0..(Width - 1),
                       limit : 0..(Width - 1) \cup {Nothing}]

VARIABLES
  store,          \* key -> last_updated
  layout,         \* key -> where the map iterates it
  crawl,          \* what the party set out to crawl
  request,        \* the page it is asking for
  wire,           \* the reply on its way
  phase,          \* "idle", "asking" or "ended"
  total,          \* the last X-Total-Count the party saw
  seen,           \* history: the keys received
  twice,          \* history: the keys received more than once
  start,          \* history: the keys that the crawl set out to see
  touched,        \* history: the keys written or removed since
  losses

vars == <<store, layout, crawl, request, wire, phase, total, seen, twice, start, touched, losses>>

-----------------------------------------------------------------------------
\* last_updated >= date_from, and < date_to if there is one.
Matching(f) ==
  {k \in Key : /\ store[k] # Absent
               /\ store[k] >= f.from
               /\ f.to # Nothing => store[k] < f.to}

Tied(s) == \E j, k \in Key : j # k /\ s[j] = s[k] /\ s[j] # Absent

Layouts(s) ==
  IF Tied(s)
    THEN {p \in [Key -> 1..Cardinality(Key)] : \A j, k \in Key : p[j] = p[k] => j = k}
    ELSE {[k \in Key |-> 1]}

Before(j, k) == store[j] < store[k] \/ (store[j] = store[k] /\ layout[j] < layout[k])

\* How many matching objects are listed before k.
Rank(k, f) == Cardinality({j \in Matching(f) : Before(j, k)})

\* Mutant: the filter is applied to the page, after skip and take.
ListPageFirst(f, offset, limit) ==
  [items |-> {k \in Matching(f) : /\ offset <= Rank(k, Everything)
                                 /\ Rank(k, Everything) < offset + limit},
   total |-> Cardinality(Matching(f))]

\* Mutant: the page has one object too many.
ListInclusive(f, offset, limit) ==
  [items |-> {k \in Matching(f) : offset <= Rank(k, f) /\ Rank(k, f) <= offset + limit},
   total |-> Cardinality(Matching(f))]

\* skip(offset).take(limit) of the sorted objects, and how many there are.
List(f, offset, limit) ==
  [items |-> {k \in Matching(f) : offset <= Rank(k, f) /\ Rank(k, f) < offset + limit},
   total |-> Cardinality(Matching(f))]

\* Mutant: the last page but one is taken for the last, if it leaves one object.
has_next_strict(offset, limit, count) == (offset + limit + 1) % Width < count

\* The sum is a u32: an optimised build wraps it, a debug build panics.
has_next(offset, limit, count) == (offset + limit) % Width < count

next_offset(offset, limit, count) ==
  IF has_next(offset, limit, count) THEN {(offset + limit) % Width} ELSE {}

-----------------------------------------------------------------------------
(***************************************************************************)
(* Which parameters the client's getters hand on.  All that a list handler *)
(* takes, for every list of every release.                                 *)
(***************************************************************************)
PaginatedParams == {"date_from", "date_to", "offset", "limit"}

get_sessions        == PaginatedParams
get_sessions_2_1_1  == PaginatedParams
get_sessions_2_3_0  == PaginatedParams
get_cdrs            == PaginatedParams
get_cdrs_2_1_1      == PaginatedParams
get_cdrs_2_2        == PaginatedParams
get_cdrs_2_3_0      == PaginatedParams
get_tariffs         == PaginatedParams
get_tariffs_2_1_1   == PaginatedParams
get_tariffs_2_3_0   == PaginatedParams
get_tokens          == PaginatedParams
get_tokens_2_1_1    == PaginatedParams
get_locations       == PaginatedParams
get_locations_2_1_1 == PaginatedParams
get_locations_2_2   == PaginatedParams
get_locations_2_3_0 == PaginatedParams
get_client_infos    == PaginatedParams

Getters ==
  {get_sessions, get_sessions_2_1_1, get_sessions_2_3_0, get_cdrs,
   get_cdrs_2_1_1, get_cdrs_2_2, get_cdrs_2_3_0, get_tariffs,
   get_tariffs_2_1_1, get_tariffs_2_3_0, get_tokens, get_tokens_2_1_1,
   get_locations, get_locations_2_1_1, get_locations_2_2,
   get_locations_2_3_0, get_client_infos}

\* The request a getter makes of a party's parameters, as the handler reads it.
Asked(passed, c) ==
  [filter |-> [from |-> IF "date_from" \in passed THEN c.filter.from ELSE 0,
               to   |-> IF "date_to" \in passed THEN c.filter.to ELSE Nothing],
   offset |-> IF "offset" \in passed THEN c.offset ELSE 0,
   limit  |-> IF "limit" \in passed /\ c.limit # Nothing THEN c.limit ELSE DEFAULT_LIMIT]

-----------------------------------------------------------------------------
Unasked == [filter |-> Everything, offset |-> 0, limit |-> 0]

Init ==
  /\ store \in [Key -> Time \cup {Absent}]
  /\ layout \in Layouts(store)
  /\ crawl = Nothing /\ request = Unasked /\ wire = Nothing
  /\ phase = "idle" /\ total = 0
  /\ seen = {} /\ twice = {} /\ start = {} /\ touched = {}
  /\ losses = 0

\* What a crawl sets out to see: the objects from its offset on.
Beyond(c) == {k \in Matching(c.filter) : c.offset <= Rank(k, c.filter)}

\* Mutant: a missing limit is not replaced by the default.
BeginWithoutDefault ==
  /\ phase = "idle"
  /\ \E c \in Crawls :
       /\ crawl' = c
       /\ request' = [filter |-> c.filter, offset |-> c.offset, limit |-> c.limit]
       /\ start' = Beyond(c)
  /\ phase' = "asking"
  /\ UNCHANGED <<store, layout, wire, total, seen, twice, touched, losses>>

\* The first request of a crawl.
Begin ==
  /\ phase = "idle"
  /\ \E c \in Crawls, passed \in Getters :
       /\ crawl' = c
       /\ request' = Asked(passed, c)
       /\ start' = Beyond(c)
  /\ phase' = "asking"
  /\ UNCHANGED <<store, layout, wire, total, seen, twice, touched, losses>>

\* Mutant: the offset is not moved on.
ServeSameOffset ==
  /\ phase = "asking" /\ wire = Nothing
  /\ LET page == List(request.filter, request.offset, request.limit) IN
       wire' = [items |-> page.items, total |-> page.total,
                next |-> IF has_next(request.offset, request.limit, page.total)
                           THEN {request.offset} ELSE {}]
  /\ UNCHANGED <<store, layout, crawl, request, phase, total, seen, twice, start, touched, losses>>

\* The list handler: one page, X-Total-Count and, unless it is the last page,
\* a Link.  The Link names an offset and a limit and nothing else.
Serve ==
  /\ phase = "asking" /\ wire = Nothing
  /\ LET page == List(request.filter, request.offset, request.limit) IN
       wire' = [items |-> page.items, total |-> page.total,
                next |-> next_offset(request.offset, request.limit, page.total)]
  /\ UNCHANGED <<store, layout, crawl, request, phase, total, seen, twice, start, touched, losses>>

\* The reply does not arrive: the getter returns an error, and the party asks
\* for the same page again.
Lose ==
  /\ wire # Nothing /\ losses < MaxLosses
  /\ wire' = Nothing /\ losses' = losses + 1
  /\ UNCHANGED <<store, layout, crawl, request, phase, total, seen, twice, start, touched>>

Collect ==
  /\ seen' = seen \cup wire.items
  /\ twice' = twice \cup (seen \cap wire.items)
  /\ total' = wire.total

\* A Link's target carries no filters: following it asks for all objects.
Unfiltered(offset) ==
  [filter |-> Everything, offset |-> offset, limit |-> request.limit]

\* The Link is a path without an authority, and a getter takes an absolute URL:
\* the party resolves it first.
FollowLink ==
  /\ wire # Nothing /\ crawl.mode = "link"
  /\ Collect
  /\ IF wire.next = {} THEN phase' = "ended" /\ UNCHANGED request
     ELSE /\ \E o \in wire.next : request' = Unfiltered(o)
          /\ UNCHANGED phase
  /\ wire' = Nothing
  /\ UNCHANGED <<store, layout, crawl, start, touched, losses>>

Advance ==
  IF request.offset + request.limit < wire.total
    THEN request' = [request EXCEPT !.offset = @ + request.limit] /\ UNCHANGED phase
    ELSE phase' = "ended" /\ UNCHANGED request

NextOffset ==
  /\ wire # Nothing /\ crawl.mode = "offset"
  /\ Collect /\ Advance
  /\ wire' = Nothing
  /\ UNCHANGED <<store, layout, crawl, start, touched, losses>>

\* What the specification advises: when X-Total-Count has fallen, redo the GET
\* with the offset lowered by as much.
NextOffsetCarefully ==
  /\ wire # Nothing /\ crawl.mode = "careful offset"
  /\ Collect
  /\ IF wire.total < total /\ request.offset # 0
       THEN /\ request' = [request EXCEPT !.offset =
                              IF @ > total - wire.total THEN @ - (total - wire.total) ELSE 0]
            /\ UNCHANGED phase
       ELSE Advance
  /\ wire' = Nothing
  /\ UNCHANGED <<store, layout, crawl, start, touched, losses>>

-----------------------------------------------------------------------------
\* put and store: a map insert, whatever the timestamp.  A new key may shuffle
\* the map.
Put(k, t) ==
  /\ store' = [store EXCEPT ![k] = t]
  /\ IF store[k] = Absent \/ ~Tied(store) THEN layout' \in Layouts(store')
                                          ELSE UNCHANGED layout
  /\ touched' = touched \cup {k}
  /\ UNCHANGED <<crawl, request, wire, phase, total, seen, twice, start, losses>>

Remove(k) ==
  /\ store[k] # Absent
  /\ store' = [store EXCEPT ![k] = Absent]
  /\ touched' = touched \cup {k}
  /\ UNCHANGED <<layout, crawl, request, wire, phase, total, seen, twice, start, losses>>

Party == Begin \/ Lose \/ FollowLink \/ NextOffset \/ NextOffsetCarefully

\* Writes are stamped by a clock that moves on.
Newest(t) == \A k \in Key : store[k] # Absent => store[k] < t

\* No two objects have the same timestamp.
UntiedInit == Init /\ ~Tied(store)

\* The list only grows.
Grow == \E k \in Key, t \in Time : store[k] = Absent /\ Newest(t) /\ Put(k, t)

\* Objects are created, replaced and removed; no new timestamp falls into the
\* interval that is crawled.
Past(t) == Newest(t) /\ (crawl.filter.to # Nothing => t >= crawl.filter.to)

Move == \E k \in Key : Remove(k) \/ \E t \in Time : Past(t) /\ Put(k, t)

Growing == crawl # Nothing /\ crawl.writers = "grow"

\* What was written before the crawl is in the initial store.
Write == (Growing /\ Grow) \/ (crawl # Nothing /\ ~Growing /\ Move)

UntiedSpec == UntiedInit /\ [][Party \/ Serve \/ Write]_vars

\* The same, over a list that may have begun with equal timestamps.
TiesSpec == Init /\ [][Party \/ Serve \/ Write]_vars

\* The handler's task is scheduled, and the party goes on when a getter has
\* returned.  Replies are lost only so often.
FairSpec ==
  UntiedSpec /\ WF_vars(Serve) /\ WF_vars(FollowLink \/ NextOffset \/ NextOffsetCarefully)

-----------------------------------------------------------------------------
(***************************************************************************)
(* Properties.                                                             *)
(***************************************************************************)

\* Every variable has its type.
TypeOK ==
  /\ store \in [Key -> Time \cup {Absent}]
  /\ layout \in [Key -> 1..Cardinality(Key)]
  /\ crawl \in Crawls \cup {Nothing}
  /\ request \in [filter : Filter, offset : 0..(Width - 1), limit : 0..(Width - 1)]
  /\ wire \in [items : SUBSET Key, total : Nat, next : SUBSET (0..(Width - 1))] \cup {Nothing}
  /\ phase \in {"idle", "asking", "ended"}
  /\ total \in Nat
  /\ seen \subseteq Key /\ twice \subseteq Key /\ start \subseteq Key /\ touched \subseteq Key
  /\ losses \in 0..MaxLosses

\* While the list only grows, a crawl that has ended has seen every object from
\* its first offset on that matched when it began (list, has_next,
\* next_offset): the pages leave no gap, even where the sum of offset and limit
\* wraps.
CrawlIsComplete == Growing /\ phase = "ended" => start \subseteq seen

\* The sum of offset and limit stays a u32, and is not the offset.
Fits(c) ==
  LET limit == IF c.limit = Nothing THEN DEFAULT_LIMIT ELSE c.limit IN
  limit > 0 /\ c.offset + limit < Width /\ Cardinality(Key) + limit < Width

\* While the list only grows, no object is on two pages, unless Links lead out
\* of a filtered list or wrap.
NothingTwice ==
  (Growing /\ (crawl.mode = "link" => crawl.filter = Everything /\ Fits(crawl))) => twice = {}

\* The advised way of crawling a closed interval from its beginning sees every
\* object of it that is still what it was when the crawl began, however many
\* others leave it.
CarefulCrawlIsComplete ==
  (/\ phase = "ended" /\ crawl.mode = "careful offset"
   /\ crawl.offset = 0 /\ crawl.filter.to # Nothing) => start \ touched \subseteq seen

\* Whatever is written and removed meanwhile, a Link leads further on, and to an
\* offset where the list it was made from still had objects: what makes every
\* crawl by Links end.
LinksAdvance ==
  [][(FollowLink /\ phase' = "asking" /\ Fits(crawl)) =>
       /\ request.offset < request'.offset
       /\ request'.offset < Cardinality(Key)]_vars

\* A crawl that follows Links with a positive limit ends, whatever is written
\* and removed meanwhile: the next offset always grows (next_offset).  Lowering
\* the offset whenever an object leaves gives no such guarantee.
CrawlEnds == (phase = "asking" /\ crawl.mode = "link") ~> (phase = "ended")

\* What the specification says of the Link: it contains the filters of the
\* request.  The code's Link does not, so that a crawl receives objects it
\* filtered out (sessions_list).
FilterIsKept ==
  \A k \in seen : k \notin touched => k \in start
=============================================================================
