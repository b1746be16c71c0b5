---------------------------- MODULE CrawlProofs ----------------------------
(***************************************************************************)
(* Theorems about Crawl, for any keys, timestamps, page sizes and crawls,  *)
(* any number of writes and losses, and any width of the arithmetic that   *)
(* the number of the objects fits.                                         *)
(***************************************************************************)
EXTENDS Crawl, FiniteSetTheorems, TLAPS

-----------------------------------------------------------------------------
(***************************************************************************)
(* The list by timestamps alone, as an operator of the store: where no two *)
(* are equal, the order of the buckets never shows.                        *)
(***************************************************************************)

Listed(s, f) ==
  {k \in Key : /\ s[k] # Absent
               /\ s[k] >= f.from
               /\ f.to # Nothing => s[k] < f.to}

Ahead(s, k, f) == {j \in Listed(s, f) : s[j] < s[k]}

Place(s, k, f) == Cardinality(Ahead(s, k, f))

Count(s, f) == Cardinality(Listed(s, f))

Store == [Key -> Time \cup {Absent}]

-----------------------------------------------------------------------------
(***************************************************************************)
(* The inductive invariant.                                                *)
(***************************************************************************)

\* The arithmetic of a page and its Link.
Paging ==
  /\ total <= Cardinality(Key)
  /\ crawl = Nothing => phase = "idle" /\ wire = Nothing
                        /\ total = 0 /\ seen = {} /\ twice = {} /\ touched = {}
  /\ crawl # Nothing =>
       /\ phase \in {"asking", "ended"}
       /\ request.limit = IF crawl.limit = Nothing THEN DEFAULT_LIMIT ELSE crawl.limit
       /\ crawl.mode # "link" => request.filter = crawl.filter
       /\ request.filter \in {crawl.filter, Everything}
       /\ crawl.mode = "link" /\ Fits(crawl) => request.offset + request.limit < Width
  /\ wire # Nothing =>
       /\ phase = "asking"
       /\ wire.total <= Cardinality(Key)
       /\ wire.next = next_offset(request.offset, request.limit, wire.total)

Inv == TypeOK /\ ~Tied(store) /\ Paging

\* While the list grows: what has not been seen is still ahead.
NoGap ==
  Growing =>
    /\ start \subseteq Listed(store, crawl.filter)
    /\ phase = "asking" =>
         \A k \in start \ seen : request.offset <= Place(store, k, request.filter)
    /\ wire # Nothing =>
         /\ \A k \in start \ (seen \cup wire.items) :
              request.offset + request.limit <= Place(store, k, request.filter)
         /\ \A k \in start : Place(store, k, request.filter) < wire.total
    /\ phase = "ended" => start \subseteq seen

\* The crawls of which NothingTwice speaks.
Tiling == Growing /\ (crawl.mode = "link" => crawl.filter = Everything /\ Fits(crawl))

\* While the list grows: what has been seen is behind.
NoOverlap ==
  Tiling =>
    /\ twice = {}
    /\ total <= Count(store, crawl.filter)
    /\ phase = "asking" =>
         \A k \in seen : /\ k \in Listed(store, crawl.filter)
                         /\ Place(store, k, crawl.filter) < request.offset
    /\ wire # Nothing =>
         /\ \A k \in wire.items :
              /\ k \in Listed(store, crawl.filter)
              /\ request.offset <= Place(store, k, crawl.filter)
              /\ Place(store, k, crawl.filter) < request.offset + request.limit
         /\ total <= wire.total /\ wire.total <= Count(store, crawl.filter)

\* The careful crawl of a closed interval that objects leave.
Closing ==
  /\ crawl # Nothing /\ ~Growing
  /\ crawl.mode = "careful offset" /\ crawl.offset = 0 /\ crawl.filter.to # Nothing

\* How far an object is from the end of the list only falls when others leave:
\* measured from there, what has not been seen is still ahead.
NoSkip ==
  Closing =>
    /\ Listed(store, crawl.filter) = start \ touched
    /\ phase = "asking" /\ request.offset # 0 =>
         /\ Count(store, crawl.filter) <= total
         /\ \A k \in Listed(store, crawl.filter) \ seen :
              request.offset + Count(store, crawl.filter) <= Place(store, k, crawl.filter) + total
    /\ wire # Nothing =>
         /\ Count(store, crawl.filter) <= wire.total
         /\ request.offset # 0 => wire.total <= total
         /\ request.offset = 0 \/ wire.total = total =>
              \A k \in Listed(store, crawl.filter) \ (seen \cup wire.items) :
                request.offset + request.limit + Count(store, crawl.filter)
                  <= Place(store, k, crawl.filter) + wire.total
    /\ phase = "ended" => Listed(store, crawl.filter) \subseteq seen
-----------------------------------------------------------------------------
(***************************************************************************)
(* Lemmas on the list and on the arithmetic.                               *)
(***************************************************************************)

\* What the wrapping sum of offset and limit is.
LEMMA Wrapped ==
  ASSUME NEW a \in Nat
  PROVE  /\ a % Width \in 0..(Width - 1)
         /\ a % Width <= a
         /\ a < Width => a % Width = a
<1>1. Width \in Nat /\ Width > 0
  BY CrawlAssumption
<1>2. a % Width \in 0..(Width - 1) /\ a = Width * (a \div Width) + (a % Width)
  BY <1>1
<1>3. a \div Width \in Nat
  BY <1>1
<1>4. Width * (a \div Width) >= 0
  BY <1>1, <1>3
<1> QED
  BY <1>1, <1>2, <1>4

\* The number of the objects of a list, and of those before one of them.
LEMMA Numbers ==
  ASSUME NEW s, NEW f, NEW k
  PROVE  /\ Count(s, f) \in Nat /\ Place(s, k, f) \in Nat
         /\ IsFiniteSet(Listed(s, f)) /\ IsFiniteSet(Ahead(s, k, f))
         /\ Count(s, f) <= Cardinality(Key)
         /\ Place(s, k, f) <= Count(s, f)
<1>1. IsFiniteSet(Key) /\ Listed(s, f) \in SUBSET Key
  BY CrawlAssumption DEF Listed
<1>2. IsFiniteSet(Listed(s, f)) /\ Cardinality(Listed(s, f)) <= Cardinality(Key)
  BY <1>1, FS_Subset
<1>3. Ahead(s, k, f) \in SUBSET Listed(s, f)
  BY DEF Ahead
<1>4. IsFiniteSet(Ahead(s, k, f)) /\ Cardinality(Ahead(s, k, f)) <= Cardinality(Listed(s, f))
  BY <1>2, <1>3, FS_Subset
<1> QED
  BY <1>2, <1>4, FS_CardinalityType DEF Count, Place

\* An object that is listed is before the end of the list.
LEMMA PlaceInList ==
  ASSUME NEW s \in Store, NEW f, NEW k \in Listed(s, f)
  PROVE  Place(s, k, f) < Count(s, f)
<1>1. IsFiniteSet(Listed(s, f)) /\ Ahead(s, k, f) \in SUBSET Listed(s, f)
  BY Numbers DEF Ahead
<1>2. s[k] \in Nat
  BY CrawlAssumption DEF Store, Listed, Time
<1>3. k \notin Ahead(s, k, f)
  BY <1>2 DEF Ahead
<1>4. Place(s, k, f) # Count(s, f)
  BY <1>1, <1>3, FS_Subset DEF Place, Count
<1> QED
  BY <1>4, Numbers

\* More objects are before one when there is no filter.
LEMMA PlaceUnfiltered ==
  ASSUME NEW s \in Store, NEW f \in Filter, NEW k
  PROVE  Place(s, k, f) <= Place(s, k, Everything)
<1>1. Listed(s, f) \subseteq Listed(s, Everything)
  BY CrawlAssumption DEF Listed, Everything, Store, Time, Filter
<1>2. Ahead(s, k, f) \in SUBSET Ahead(s, k, Everything)
  BY <1>1 DEF Ahead
<1> QED
  BY <1>2, Numbers, FS_Subset DEF Place

\* An object that no filter leaves out is listed without one.
LEMMA ListedUnfiltered ==
  ASSUME NEW s \in Store, NEW f \in Filter
  PROVE  Listed(s, f) \subseteq Listed(s, Everything)
BY CrawlAssumption DEF Listed, Everything, Store, Time, Filter

\* The lists of the model, where no two timestamps are equal (list).
LEMMA ListByTime ==
  ASSUME TypeOK, ~Tied(store), NEW f \in Filter
  PROVE  /\ Matching(f) = Listed(store, f)
         /\ \A k \in Matching(f) : Rank(k, f) = Place(store, k, f)
<1>1. Matching(f) = Listed(store, f)
  BY DEF Matching, Listed
<1>2. ASSUME NEW k \in Matching(f)
      PROVE  Rank(k, f) = Place(store, k, f)
  <2>1. \A j \in Matching(f) : j # k => store[j] # store[k]
    BY <1>2 DEF Tied, Matching
  <2>2. ~(store[k] < store[k]) /\ ~(layout[k] < layout[k])
    <3>1. Cardinality(Key) \in Nat
      BY CrawlAssumption, FS_CardinalityType
    <3>2. layout[k] \in Nat /\ store[k] \in Nat
      BY <1>2, <3>1, CrawlAssumption DEF TypeOK, Matching, Time
    <3> QED
      BY <3>2
  <2>3. \A j \in Matching(f) : Before(j, k) <=> store[j] < store[k]
    BY <2>1, <2>2 DEF Before
  <2>4. {j \in Matching(f) : Before(j, k)} = Ahead(store, k, f)
    BY <1>1, <2>3 DEF Ahead
  <2> QED
    BY <2>4 DEF Rank, Place
<1> QED
  BY <1>1, <1>2

-----------------------------------------------------------------------------
(***************************************************************************)
(* Lemmas on the writes.                                                   *)
(***************************************************************************)

\* A new object comes last: the places of the others stay (Grow).
LEMMA PlacesStay ==
  ASSUME NEW s \in Store, NEW x \in Key, NEW t \in Time, s[x] = Absent,
         \A k \in Key : s[k] # Absent => s[k] < t,
         NEW f \in Filter
  PROVE  LET new == [s EXCEPT ![x] = t] IN
         /\ Listed(s, f) \subseteq Listed(new, f)
         /\ \A k \in Listed(s, f) : Place(new, k, f) = Place(s, k, f)
         /\ Count(s, f) <= Count(new, f)
<1> DEFINE new == [s EXCEPT ![x] = t]
<1>1. \A k \in Key : k # x => new[k] = s[k]
  BY DEF Store
<1>2. new[x] = t
  BY DEF Store
<1>3. Listed(s, f) \subseteq Listed(new, f)
  BY <1>1 DEF Listed
<1>4. ASSUME NEW k \in Listed(s, f)
      PROVE  Place(new, k, f) = Place(s, k, f)
  <2>1. k # x /\ s[k] < t /\ new[k] = s[k] /\ s[k] \in Nat /\ t \in Nat
    BY <1>1, <1>4, CrawlAssumption DEF Listed, Store, Time
  <2>2. \A j \in Key : (j \in Listed(new, f) /\ new[j] < new[k]) <=> (j \in Listed(s, f) /\ s[j] < s[k])
    <3> SUFFICES ASSUME NEW j \in Key
                 PROVE  (j \in Listed(new, f) /\ new[j] < new[k]) <=> (j \in Listed(s, f) /\ s[j] < s[k])
      OBVIOUS
    <3>1. CASE j = x
      BY <1>2, <2>1, <3>1 DEF Listed
    <3>2. CASE j # x
      BY <1>1, <2>1, <3>2 DEF Listed
    <3> QED
      BY <3>1, <3>2
  <2>3. Listed(new, f) \subseteq Key /\ Listed(s, f) \subseteq Key
    BY DEF Listed
  <2>4. Ahead(new, k, f) = Ahead(s, k, f)
    BY <2>2, <2>3 DEF Ahead
  <2> QED
    BY <2>4 DEF Place
<1>5. IsFiniteSet(Listed(new, f)) /\ Listed(s, f) \in SUBSET Listed(new, f)
  BY <1>3, Numbers
<1>6. Count(s, f) <= Count(new, f)
  BY <1>5, FS_Subset DEF Count
<1> QED
  BY <1>3, <1>4, <1>6

\* One object leaves the list, or none: the others come no further from its
\* end (Move).
LEMMA EndComesNearer ==
  ASSUME NEW s \in Store, NEW x \in Key, NEW v \in Time \cup {Absent}, NEW f \in Filter,
         x \notin Listed([s EXCEPT ![x] = v], f)
  PROVE  LET new == [s EXCEPT ![x] = v] IN
         /\ Listed(new, f) = Listed(s, f) \ {x}
         /\ Count(new, f) <= Count(s, f)
         /\ \A k \in Listed(new, f) :
              Count(new, f) + Place(s, k, f) <= Count(s, f) + Place(new, k, f)
<1> DEFINE new == [s EXCEPT ![x] = v]
<1>1. \A k \in Key : k # x => new[k] = s[k]
  BY DEF Store
<1>2. Listed(new, f) = Listed(s, f) \ {x}
  BY <1>1 DEF Listed
<1>3. /\ IsFiniteSet(Listed(s, f)) /\ Count(s, f) \in Nat
      /\ Count(new, f) = IF x \in Listed(s, f) THEN Count(s, f) - 1 ELSE Count(s, f)
  BY <1>2, Numbers, FS_RemoveElement DEF Count
<1>4. ASSUME NEW k \in Listed(new, f)
      PROVE  Count(new, f) + Place(s, k, f) <= Count(s, f) + Place(new, k, f)
  <2>1. k # x /\ new[k] = s[k]
    BY <1>1, <1>2, <1>4 DEF Listed
  <2>2. Ahead(new, k, f) = Ahead(s, k, f) \ {x}
    BY <1>1, <1>2, <2>1 DEF Ahead, Listed
  <2>3. /\ IsFiniteSet(Ahead(s, k, f)) /\ Place(s, k, f) \in Nat
        /\ Place(new, k, f) = IF x \in Ahead(s, k, f) THEN Place(s, k, f) - 1 ELSE Place(s, k, f)
    BY <2>2, Numbers, FS_RemoveElement DEF Place
  <2>4. x \in Ahead(s, k, f) => x \in Listed(s, f)
    BY DEF Ahead
  <2> QED
    BY <1>3, <2>3, <2>4
<1>5. Count(new, f) <= Count(s, f)
  BY <1>3
<1> QED
  BY <1>2, <1>4, <1>5

-----------------------------------------------------------------------------
(***************************************************************************)
(* Types, and the arithmetic of the pages.                                 *)
(***************************************************************************)

Next == Party \/ Serve \/ Write

PageSize(c) == IF c.limit = Nothing THEN DEFAULT_LIMIT ELSE c.limit

\* Every getter hands on all the parameters, so a crawl's first request is what
\* its party asked for.
LEMMA FirstRequest ==
  ASSUME NEW passed \in Getters, NEW c \in Crawls
  PROVE  /\ Asked(passed, c) = [filter |-> c.filter, offset |-> c.offset, limit |-> PageSize(c)]
         /\ PageSize(c) \in 0..(Width - 1)
         /\ Asked(passed, c) \in [filter : Filter, offset : 0..(Width - 1), limit : 0..(Width - 1)]
<1>1. passed = {"date_from", "date_to", "offset", "limit"}
  BY DEF Getters, PaginatedParams, get_sessions, get_sessions_2_1_1, get_sessions_2_3_0, get_cdrs,
         get_cdrs_2_1_1, get_cdrs_2_2, get_cdrs_2_3_0, get_tariffs, get_tariffs_2_1_1,
         get_tariffs_2_3_0, get_tokens, get_tokens_2_1_1, get_locations, get_locations_2_1_1,
         get_locations_2_2, get_locations_2_3_0, get_client_infos
<1>2. /\ c.filter \in Filter /\ c.offset \in 0..(Width - 1)
      /\ c.limit \in 0..(Width - 1) \cup {Nothing}
  BY CrawlAssumption
<1>3. c.filter = [from |-> c.filter.from, to |-> c.filter.to]
  BY <1>2 DEF Filter
<1>4. Asked(passed, c) = [filter |-> [from |-> c.filter.from, to |-> c.filter.to],
                          offset |-> c.offset, limit |-> PageSize(c)]
  BY <1>1 DEF Asked, PageSize
<1>5. PageSize(c) \in 0..(Width - 1)
  BY <1>2, CrawlAssumption DEF PageSize
<1> QED
  BY <1>2, <1>3, <1>4, <1>5

\* What Begin does.
LEMMA BeginAsks ==
  ASSUME Begin
  PROVE  \E c \in Crawls :
           /\ crawl' = c
           /\ request' = [filter |-> c.filter, offset |-> c.offset, limit |-> PageSize(c)]
           /\ request' \in [filter : Filter, offset : 0..(Width - 1), limit : 0..(Width - 1)]
           /\ start' = Beyond(c)
<1>1. PICK c \in Crawls, passed \in Getters :
        crawl' = c /\ request' = Asked(passed, c) /\ start' = Beyond(c)
  BY DEF Begin
<1> QED
  BY <1>1, FirstRequest

\* A crawl's parameters are typed.
LEMMA CrawlTyped ==
  ASSUME NEW c \in Crawls
  PROVE  /\ c \in [mode : Mode, writers : Writers, filter : Filter, offset : 0..(Width - 1),
                   limit : 0..(Width - 1) \cup {Nothing}]
         /\ c # Nothing
BY CrawlAssumption

\* The order of the map's buckets is one of the layouts.
LEMMA LayoutTyped ==
  ASSUME NEW s, NEW p \in Layouts(s)
  PROVE  p \in [Key -> 1..Cardinality(Key)]
<1>1. CASE Tied(s)
  BY <1>1 DEF Layouts
<1>2. CASE ~Tied(s)
  <2>1. p = [k \in Key |-> 1]
    BY <1>2 DEF Layouts
  <2>2. ASSUME NEW k \in Key
        PROVE  1 \in 1..Cardinality(Key)
    <3>1. Cardinality(Key) \in Nat /\ Cardinality(Key) # 0
      BY <2>2, CrawlAssumption, FS_CardinalityType, FS_EmptySet
    <3> QED
      BY <3>1
  <2> QED
    BY <2>1, <2>2
<1> QED
  BY <1>1, <1>2

\* The page that the handler makes.
LEMMA PageTyped ==
  ASSUME NEW f, NEW offset, NEW limit
  PROVE  /\ List(f, offset, limit).items \subseteq Key
         /\ List(f, offset, limit).total \in Nat
         /\ List(f, offset, limit).total <= Cardinality(Key)
<1>1. Matching(f) \in SUBSET Key /\ IsFiniteSet(Key)
  BY CrawlAssumption DEF Matching
<1>2. Cardinality(Matching(f)) \in Nat /\ Cardinality(Matching(f)) <= Cardinality(Key)
  BY <1>1, FS_Subset, FS_CardinalityType
<1> QED
  BY <1>1, <1>2 DEF List

Request == [filter : Filter, offset : 0..(Width - 1), limit : 0..(Width - 1)]

\* What a Link names is a u32, and where the sum of offset and limit is one,
\* that sum.
LEMMA NextOffset32 ==
  ASSUME NEW offset \in 0..(Width - 1), NEW limit \in 0..(Width - 1), NEW count \in Nat,
         NEW o \in next_offset(offset, limit, count)
  PROVE  /\ o \in 0..(Width - 1) /\ o < count /\ o <= offset + limit
         /\ offset + limit < Width => o = offset + limit
<1>1. o = (offset + limit) % Width /\ o < count
  BY DEF next_offset, has_next
<1>2. offset \in Nat /\ limit \in Nat /\ offset + limit \in Nat
  BY CrawlAssumption
<1> QED
  BY <1>1, <1>2, Wrapped

\* No Link is made only where the page reaches the end of the list.
LEMMA NoNextOffset ==
  ASSUME NEW offset \in 0..(Width - 1), NEW limit \in 0..(Width - 1), NEW count \in Nat,
         next_offset(offset, limit, count) = {}
  PROVE  count <= offset + limit
<1>1. ~((offset + limit) % Width < count)
  BY DEF next_offset, has_next
<1>2. offset + limit \in Nat
  BY CrawlAssumption
<1>3. (offset + limit) % Width \in Nat /\ (offset + limit) % Width <= offset + limit
  BY <1>2, Wrapped, CrawlAssumption
<1> QED
  BY <1>1, <1>2, <1>3

\* The party takes up a page.
Turn == FollowLink \/ NextOffset \/ NextOffsetCarefully

\* What the request is after the party has taken up a page by offsets (Advance).
LEMMA AdvanceTyped ==
  ASSUME TypeOK, Paging, wire # Nothing, Advance
  PROVE  /\ request' \in Request
         /\ request'.limit = request.limit /\ request'.filter = request.filter
         /\ phase' \in {"asking", "ended"}
<1>1. /\ request \in Request /\ phase = "asking" /\ wire.total \in Nat
      /\ wire.total <= Cardinality(Key)
  BY DEF TypeOK, Paging, Request
<1>2. Cardinality(Key) \in Nat /\ Cardinality(Key) < Width /\ Width \in Nat
  BY CrawlAssumption, FS_CardinalityType
<1>3. CASE request.offset + request.limit < wire.total
  <2>1. request' = [request EXCEPT !.offset = @ + request.limit] /\ phase' = phase
    BY <1>3 DEF Advance
  <2>2. request.offset + request.limit \in 0..(Width - 1)
    BY <1>1, <1>2, <1>3 DEF Request
  <2> QED
    BY <1>1, <2>1, <2>2 DEF Request
<1>4. CASE ~(request.offset + request.limit < wire.total)
  BY <1>1, <1>4 DEF Advance
<1> QED
  BY <1>3, <1>4

\* What every way of taking up a page has in common.
LEMMA TurnTyped ==
  ASSUME TypeOK, Paging, Turn
  PROVE  /\ wire # Nothing /\ wire' = Nothing /\ phase = "asking"
         /\ crawl # Nothing /\ crawl \in Crawls
         /\ Collect
         /\ request' \in Request /\ request'.limit = request.limit
         /\ crawl.mode # "link" => request'.filter = request.filter
         /\ request'.filter \in {request.filter, Everything}
         /\ crawl.mode = "link" /\ Fits(crawl) => request'.offset + request'.limit < Width
         /\ phase' \in {"asking", "ended"}
         /\ UNCHANGED <<store, layout, crawl, start, touched, losses>>
<1>1. /\ wire # Nothing /\ wire' = Nothing /\ Collect
      /\ UNCHANGED <<store, layout, crawl, start, touched, losses>>
  BY DEF Turn, FollowLink, NextOffset, NextOffsetCarefully
<1>2. crawl # Nothing /\ crawl \in Crawls /\ phase = "asking"
  BY <1>1 DEF Paging, TypeOK
<1>3. /\ request \in Request /\ wire.total \in Nat /\ wire.total <= Cardinality(Key) /\ total \in Nat
      /\ wire.next = next_offset(request.offset, request.limit, wire.total)
  BY <1>1 DEF TypeOK, Paging, Request
<1>4. CASE FollowLink
  <2>1. CASE wire.next = {}
    BY <1>1, <1>2, <1>3, <1>4, <2>1 DEF FollowLink, Paging
  <2>2. CASE wire.next # {}
    <3>1. PICK o \in wire.next : request' = Unfiltered(o)
      BY <1>4, <2>2 DEF FollowLink
    <3>2. request' = [filter |-> Everything, offset |-> o, limit |-> request.limit]
      BY <3>1 DEF Unfiltered
    <3>3. o \in 0..(Width - 1) /\ o < wire.total
      BY <1>3, <3>1, NextOffset32 DEF Request
    <3>4. Everything \in Filter
      BY CrawlAssumption DEF Everything, Filter, Time
    <3>5. ASSUME Fits(crawl)
          PROVE  o + request.limit < Width
      <4>1. Cardinality(Key) + request.limit < Width
        BY <1>2, <3>5 DEF Paging, Fits
      <4> QED
        BY <1>3, <3>3, <4>1, CrawlAssumption, FS_CardinalityType DEF Request
    <3>6. phase' = phase
      BY <1>4, <2>2 DEF FollowLink
    <3>7. crawl.mode = "link"
      BY <1>4 DEF FollowLink
    <3> QED
      BY <1>1, <1>2, <1>3, <3>2, <3>3, <3>4, <3>5, <3>6, <3>7 DEF Request
  <2> QED
    BY <2>1, <2>2
<1>5. CASE NextOffset
  <2>1. Advance /\ crawl.mode # "link"
    BY <1>5 DEF NextOffset
  <2> QED
    BY <1>1, <1>2, <1>3, <2>1, AdvanceTyped
<1>6. CASE NextOffsetCarefully
  <2>1. crawl.mode # "link"
    BY <1>6 DEF NextOffsetCarefully
  <2>2. CASE wire.total < total /\ request.offset # 0
    <3> DEFINE o == IF request.offset > total - wire.total
                      THEN request.offset - (total - wire.total) ELSE 0
    <3>1. request' = [request EXCEPT !.offset = o] /\ phase' = phase
      BY <1>6, <2>2 DEF NextOffsetCarefully
    <3>2. o \in 0..(Width - 1)
      BY <1>3, <2>2, CrawlAssumption DEF Request
    <3> HIDE DEF o
    <3> QED
      BY <1>1, <1>2, <1>3, <2>1, <3>1, <3>2 DEF Request
  <2>3. CASE ~(wire.total < total /\ request.offset # 0)
    <3>1. Advance
      BY <1>6, <2>3 DEF NextOffsetCarefully
    <3> QED
      BY <1>1, <1>2, <1>3, <2>1, <3>1, AdvanceTyped
  <2> QED
    BY <2>2, <2>3
<1> QED
  BY <1>4, <1>5, <1>6 DEF Turn

\* What every write has in common.
LEMMA WriteTyped ==
  ASSUME TypeOK, Write
  PROVE  /\ crawl # Nothing
         /\ store' \in Store /\ layout' \in [Key -> 1..Cardinality(Key)]
         /\ touched' \subseteq Key
         /\ UNCHANGED <<crawl, request, wire, phase, total, seen, twice, start, losses>>
<1>1. crawl # Nothing
  BY DEF Write, Growing
<1>2. ASSUME NEW k \in Key, NEW t \in Time, Put(k, t)
      PROVE  /\ store' \in Store /\ layout' \in [Key -> 1..Cardinality(Key)]
             /\ touched' \subseteq Key
             /\ UNCHANGED <<crawl, request, wire, phase, total, seen, twice, start, losses>>
  <2>1. layout' \in [Key -> 1..Cardinality(Key)]
    BY <1>2, LayoutTyped DEF Put, TypeOK
  <2> QED
    BY <1>2, <2>1 DEF Put, TypeOK, Store
<1>3. ASSUME NEW k \in Key, Remove(k)
      PROVE  /\ store' \in Store /\ layout' \in [Key -> 1..Cardinality(Key)]
             /\ touched' \subseteq Key
             /\ UNCHANGED <<crawl, request, wire, phase, total, seen, twice, start, losses>>
  BY <1>3 DEF Remove, TypeOK, Store
<1>4. CASE Grow
  BY <1>1, <1>2, <1>4 DEF Grow
<1>5. CASE Move
  BY <1>1, <1>2, <1>3, <1>5 DEF Move
<1> QED
  BY <1>4, <1>5 DEF Write

LEMMA TypeInit ==
  ASSUME Init
  PROVE  TypeOK /\ Paging
<1>1. layout \in [Key -> 1..Cardinality(Key)]
  BY LayoutTyped DEF Init
<1>2. Unasked \in Request
  BY CrawlAssumption DEF Unasked, Request, Everything, Filter, Time
<1>3. TypeOK
  BY <1>1, <1>2, CrawlAssumption DEF Init, TypeOK, Request
<1>4. Cardinality(Key) \in Nat
  BY CrawlAssumption, FS_CardinalityType
<1> QED
  BY <1>3, <1>4 DEF Init, Paging

LEMMA TypeStep ==
  ASSUME TypeOK, Paging, [Next]_vars
  PROVE  TypeOK' /\ Paging'
<1>1. CASE Begin
  <2>1. PICK c \in Crawls :
          /\ crawl' = c
          /\ request' = [filter |-> c.filter, offset |-> c.offset, limit |-> PageSize(c)]
          /\ request' \in Request
          /\ start' = Beyond(c)
    BY <1>1, BeginAsks DEF Request
  <2>2. /\ crawl = Nothing /\ phase' = "asking" /\ wire' = wire
        /\ UNCHANGED <<store, layout, wire, total, seen, twice, touched, losses>>
    BY <1>1 DEF Begin, Paging
  <2>3. start' \subseteq Key
    BY <2>1 DEF Beyond, Matching
  <2>4. TypeOK'
    BY <2>1, <2>2, <2>3 DEF TypeOK, Request
  <2>5. c # Nothing
    BY CrawlTyped
  <2>6. Fits(c) => c.offset + PageSize(c) < Width
    BY DEF Fits, PageSize
  <2>7. wire = Nothing
    BY <2>2 DEF Paging
  <2> QED
    BY <2>1, <2>2, <2>4, <2>5, <2>6, <2>7 DEF Paging, PageSize
<1>2. CASE Serve
  <2> DEFINE page == List(request.filter, request.offset, request.limit)
             reply == [items |-> page.items, total |-> page.total,
                       next |-> next_offset(request.offset, request.limit, page.total)]
  <2>1. /\ wire' = reply /\ phase = "asking"
        /\ UNCHANGED <<store, layout, crawl, request, phase, total, seen, twice, start, touched,
                       losses>>
    BY <1>2 DEF Serve
  <2>2. page.items \subseteq Key /\ page.total \in Nat /\ page.total <= Cardinality(Key)
    BY PageTyped
  <2> HIDE DEF page
  <2>3. next_offset(request.offset, request.limit, page.total) \subseteq 0..(Width - 1)
    BY <2>2, NextOffset32 DEF TypeOK
  <2>4. reply \in [items : SUBSET Key, total : Nat, next : SUBSET (0..(Width - 1))]
    BY <2>2, <2>3
  <2>5. TypeOK'
    BY <2>1, <2>4 DEF TypeOK
  <2>6. crawl # Nothing
    BY <2>1 DEF Paging
  <2> QED
    BY <2>1, <2>2, <2>5, <2>6 DEF Paging
<1>3. CASE Lose
  BY <1>3, CrawlAssumption DEF Lose, TypeOK, Paging
<1>4. CASE Turn
  <2>1. /\ wire # Nothing /\ wire' = Nothing
        /\ crawl # Nothing
        /\ Collect
        /\ request' \in Request /\ request'.limit = request.limit
        /\ crawl.mode # "link" => request'.filter = request.filter
        /\ request'.filter \in {request.filter, Everything}
        /\ crawl.mode = "link" /\ Fits(crawl) => request'.offset + request'.limit < Width
        /\ phase' \in {"asking", "ended"}
        /\ UNCHANGED <<store, layout, crawl, start, touched, losses>>
    BY <1>4, TurnTyped
  <2>2. /\ wire.total \in Nat /\ wire.total <= Cardinality(Key) /\ wire.items \subseteq Key
    BY <2>1 DEF TypeOK, Paging
  <2>3. /\ seen' \subseteq Key /\ twice' \subseteq Key
        /\ total' \in Nat /\ total' <= Cardinality(Key)
    BY <2>1, <2>2 DEF Collect, TypeOK
  <2>4. TypeOK'
    BY <2>1, <2>3 DEF TypeOK, Request
  <2> QED
    BY <2>1, <2>3, <2>4 DEF Paging
<1>5. CASE Write
  <2>1. /\ crawl # Nothing
        /\ store' \in Store /\ layout' \in [Key -> 1..Cardinality(Key)]
        /\ touched' \subseteq Key
        /\ UNCHANGED <<crawl, request, wire, phase, total, seen, twice, start, losses>>
    BY <1>5, WriteTyped
  <2>2. TypeOK'
    BY <2>1 DEF TypeOK, Store
  <2> QED
    BY <2>1, <2>2 DEF Paging
<1>6. CASE UNCHANGED vars
  BY <1>6 DEF vars, TypeOK, Paging
<1> QED
  BY <1>1, <1>2, <1>3, <1>4, <1>5, <1>6 DEF Next, Party, Turn

\* Types (Crawl's variables), whether or not timestamps are equal.
THEOREM TypeCorrect == TiesSpec => []TypeOK
<1>1. Init => TypeOK /\ Paging
  BY TypeInit
<1>2. TypeOK /\ Paging /\ [Next]_vars => (TypeOK /\ Paging)'
  BY TypeStep
<1> QED
  BY <1>1, <1>2, PTL DEF TiesSpec, Next

-----------------------------------------------------------------------------
(***************************************************************************)
(* Timestamps stay apart: writes are stamped by a clock that moves on.     *)
(***************************************************************************)

\* What a write does to the store while the list grows.
LEMMA GrowWrites ==
  ASSUME Grow
  PROVE  \E k \in Key, t \in Time :
           store[k] = Absent /\ Newest(t) /\ store' = [store EXCEPT ![k] = t]
BY DEF Grow, Put

\* What a write does to the store while objects move.
LEMMA MoveWrites ==
  ASSUME Move
  PROVE  \E k \in Key, v \in Time \cup {Absent} :
           /\ v = Absent \/ (v \in Time /\ Past(v))
           /\ store' = [store EXCEPT ![k] = v] /\ touched' = touched \cup {k}
<1>1. PICK k \in Key : Remove(k) \/ \E t \in Time : Past(t) /\ Put(k, t)
  BY DEF Move
<1>2. CASE Remove(k)
  BY <1>2 DEF Remove
<1>3. CASE \E t \in Time : Past(t) /\ Put(k, t)
  BY <1>3 DEF Put
<1> QED
  BY <1>1, <1>2, <1>3

\* The newest timestamp is no other object's.
LEMMA NewestIsUntied ==
  ASSUME TypeOK, ~Tied(store), NEW k \in Key, NEW v \in Time \cup {Absent},
         v = Absent \/ Newest(v), store' = [store EXCEPT ![k] = v]
  PROVE  ~Tied(store')
<1>1. store \in [Key -> Time \cup {Absent}] /\ \A t \in Time : t \in Nat
  BY CrawlAssumption DEF TypeOK, Time
<1>2. SUFFICES ASSUME NEW i \in Key, NEW j \in Key, i # j, store'[i] = store'[j], store'[j] # Absent
               PROVE  FALSE
  BY DEF Tied
<1>3. CASE i # k /\ j # k
  BY <1>1, <1>2, <1>3 DEF Tied
<1>4. CASE i = k
  <2>1. v = store[j] /\ v # Absent /\ v \in Nat
    BY <1>1, <1>2, <1>4
  <2> QED
    BY <2>1 DEF Newest
<1>5. CASE j = k
  <2>1. v = store[i] /\ v # Absent /\ v \in Nat
    BY <1>1, <1>2, <1>5
  <2> QED
    BY <2>1 DEF Newest
<1> QED
  BY <1>3, <1>4, <1>5

LEMMA UntiedStep ==
  ASSUME TypeOK, ~Tied(store), [Next]_vars
  PROVE  ~Tied(store')
<1>1. CASE Write
  <2>1. CASE Grow
    BY <2>1, GrowWrites, NewestIsUntied
  <2>2. CASE Move
    BY <2>2, MoveWrites, NewestIsUntied DEF Past
  <2> QED
    BY <1>1, <2>1, <2>2 DEF Write
<1>2. CASE ~Write
  <2>1. store' = store
    BY <1>2 DEF Next, Party, Begin, Lose, FollowLink, NextOffset, NextOffsetCarefully, Serve, vars
  <2> QED
    BY <2>1
<1> QED
  BY <1>1, <1>2

LEMMA InvInit ==
  ASSUME UntiedInit
  PROVE  Inv
BY TypeInit DEF UntiedInit, Inv

LEMMA InvStep ==
  ASSUME Inv, [Next]_vars
  PROVE  Inv'
<1>1. TypeOK' /\ Paging'
  BY TypeStep DEF Inv
<1>2. ~Tied(store')
  BY UntiedStep DEF Inv
<1> QED
  BY <1>1, <1>2 DEF Inv, Tied

LEMMA Invariant == UntiedSpec => []Inv
<1>1. UntiedInit => Inv
  BY InvInit
<1>2. Inv /\ [Next]_vars => Inv'
  BY InvStep
<1> QED
  BY <1>1, <1>2, PTL DEF UntiedSpec, Next

-----------------------------------------------------------------------------
(***************************************************************************)
(* Links lead further on, whatever is written.                             *)
(***************************************************************************)

LEMMA LinkAdvances ==
  ASSUME TypeOK, Paging, FollowLink, phase' = "asking", Fits(crawl)
  PROVE  request.offset < request'.offset /\ request'.offset < Cardinality(Key)
<1>1. /\ wire # Nothing /\ crawl.mode = "link" /\ crawl # Nothing
  BY DEF FollowLink, Paging
<1>2. /\ request \in Request /\ wire.total \in Nat /\ wire.total <= Cardinality(Key)
      /\ wire.next = next_offset(request.offset, request.limit, wire.total)
      /\ request.offset + request.limit < Width
  BY <1>1 DEF TypeOK, Paging, Request
<1>3. request.limit > 0
  BY <1>1 DEF Paging, Fits
<1>4. PICK o \in wire.next : request' = Unfiltered(o)
  BY DEF FollowLink
<1>5. request'.offset = o
  BY <1>4 DEF Unfiltered
<1>6. o = request.offset + request.limit /\ o < wire.total
  BY <1>2, <1>4, NextOffset32 DEF Request
<1>7. request.offset \in Nat /\ request.limit \in Nat /\ Cardinality(Key) \in Nat
  BY <1>2, CrawlAssumption, FS_CardinalityType DEF Request
<1> QED
  BY <1>2, <1>3, <1>5, <1>6, <1>7

\* LinksAdvance, whether or not timestamps are equal.
THEOREM LinksAlwaysAdvance == TiesSpec => LinksAdvance
<1>1. Init => TypeOK /\ Paging
  BY TypeInit
<1>2. TypeOK /\ Paging /\ [Next]_vars => (TypeOK /\ Paging)'
  BY TypeStep
<1>3. TypeOK /\ Paging =>
        [(FollowLink /\ phase' = "asking" /\ Fits(crawl)) =>
           /\ request.offset < request'.offset
           /\ request'.offset < Cardinality(Key)]_vars
  BY LinkAdvances
<1> QED
  BY <1>1, <1>2, <1>3, PTL DEF TiesSpec, Next, LinksAdvance

-----------------------------------------------------------------------------
(***************************************************************************)
(* What the actions do to the places.                                      *)
(***************************************************************************)

\* A page, by the places of its objects (list).
LEMMA Served ==
  ASSUME Inv, Serve
  PROVE  /\ crawl # Nothing /\ request.filter \in Filter /\ phase = "asking"
         /\ wire'.items = {k \in Listed(store, request.filter) :
                             /\ request.offset <= Place(store, k, request.filter)
                             /\ Place(store, k, request.filter) < request.offset + request.limit}
         /\ wire'.total = Count(store, request.filter)
         /\ UNCHANGED <<store, crawl, request, phase, total, seen, twice, start, touched>>
<1> DEFINE page == List(request.filter, request.offset, request.limit)
<1>1. /\ phase = "asking"
      /\ wire' = [items |-> page.items, total |-> page.total,
                  next |-> next_offset(request.offset, request.limit, page.total)]
      /\ UNCHANGED <<store, crawl, request, phase, total, seen, twice, start, touched>>
  BY DEF Serve
<1>2. crawl # Nothing /\ request.filter \in Filter
  BY <1>1 DEF Inv, Paging, TypeOK
<1>3. /\ Matching(request.filter) = Listed(store, request.filter)
      /\ \A k \in Matching(request.filter) :
           Rank(k, request.filter) = Place(store, k, request.filter)
  BY <1>2, ListByTime DEF Inv
<1>4. page.total = Count(store, request.filter)
  BY <1>3 DEF List, Count
<1>5. page.items = {k \in Listed(store, request.filter) :
                      /\ request.offset <= Place(store, k, request.filter)
                      /\ Place(store, k, request.filter) < request.offset + request.limit}
  BY <1>3 DEF List
<1> QED
  BY <1>1, <1>2, <1>4, <1>5

\* A crawl begins with the objects from its offset on.
LEMMA Begun ==
  ASSUME Inv, Begin
  PROVE  /\ crawl = Nothing /\ crawl' \in Crawls /\ phase' = "asking"
         /\ crawl'.filter \in Filter
         /\ request'.filter = crawl'.filter /\ request'.offset = crawl'.offset
         /\ start' = {k \in Listed(store, crawl'.filter) :
                        crawl'.offset <= Place(store, k, crawl'.filter)}
         /\ wire = Nothing /\ total = 0 /\ seen = {} /\ twice = {} /\ touched = {}
         /\ UNCHANGED <<store, wire, total, seen, twice, touched>>
<1>1. PICK c \in Crawls :
        /\ crawl' = c
        /\ request' = [filter |-> c.filter, offset |-> c.offset, limit |-> PageSize(c)]
        /\ start' = Beyond(c)
  BY BeginAsks
<1>2. c.filter \in Filter
  BY CrawlTyped
<1>3. /\ Matching(c.filter) = Listed(store, c.filter)
      /\ \A k \in Matching(c.filter) : Rank(k, c.filter) = Place(store, k, c.filter)
  BY <1>2, ListByTime DEF Inv
<1>4. Beyond(c) = {k \in Listed(store, c.filter) : c.offset <= Place(store, k, c.filter)}
  BY <1>3 DEF Beyond
<1>5. /\ phase = "idle" /\ phase' = "asking"
      /\ UNCHANGED <<store, wire, total, seen, twice, touched>>
  BY DEF Begin
<1>6. /\ crawl = Nothing
      /\ wire = Nothing /\ total = 0 /\ seen = {} /\ twice = {} /\ touched = {}
  BY <1>5 DEF Inv, Paging
<1> QED
  BY <1>1, <1>2, <1>4, <1>5, <1>6

\* Going on by offsets (Advance).
LEMMA Advanced ==
  ASSUME Inv, wire # Nothing, Advance
  PROVE  \/ /\ phase' = "asking"
            /\ request.offset + request.limit < wire.total
            /\ request'.offset = request.offset + request.limit
         \/ phase' = "ended" /\ wire.total <= request.offset + request.limit
<1>1. request \in Request /\ wire.total \in Nat /\ phase = "asking"
  BY DEF Inv, TypeOK, Paging, Request
<1>2. CASE request.offset + request.limit < wire.total
  BY <1>1, <1>2 DEF Advance, Request
<1>3. CASE ~(request.offset + request.limit < wire.total)
  BY <1>1, <1>3, CrawlAssumption DEF Advance, Request
<1> QED
  BY <1>2, <1>3

\* However the party goes on, it leaves out nothing behind the page; and it
\* ends where the page reached the end of the list.
LEMMA Turned ==
  ASSUME Inv, Turn
  PROVE  \/ phase' = "asking" /\ request'.offset <= request.offset + request.limit
         \/ phase' = "ended" /\ wire.total <= request.offset + request.limit
<1>1. wire # Nothing /\ phase = "asking" /\ request \in Request
  BY TurnTyped DEF Inv, TypeOK, Request
<1>2. /\ request.offset \in Nat /\ request.limit \in Nat
      /\ wire.total \in Nat /\ total \in Nat
      /\ wire.next = next_offset(request.offset, request.limit, wire.total)
  BY <1>1, CrawlAssumption DEF Inv, TypeOK, Paging, Request
<1>3. CASE Advance
  BY <1>1, <1>2, <1>3, Advanced
<1>4. CASE FollowLink
  <2>1. CASE wire.next = {}
    <3>1. phase' = "ended"
      BY <1>4, <2>1 DEF FollowLink
    <3> QED
      BY <1>1, <1>2, <2>1, <3>1, NoNextOffset DEF Request
  <2>2. CASE wire.next # {}
    <3>1. PICK o \in wire.next : request' = Unfiltered(o)
      BY <1>4, <2>2 DEF FollowLink
    <3>2. request'.offset = o /\ phase' = phase
      BY <1>4, <2>2, <3>1 DEF Unfiltered, FollowLink
    <3> QED
      BY <1>1, <1>2, <3>1, <3>2, NextOffset32 DEF Request
  <2> QED
    BY <2>1, <2>2
<1>5. CASE NextOffsetCarefully /\ ~Advance
  <2> DEFINE o == IF request.offset > total - wire.total
                    THEN request.offset - (total - wire.total) ELSE 0
  <2>1. /\ wire.total < total /\ phase' = phase
        /\ request' = [request EXCEPT !.offset = o]
    BY <1>5 DEF NextOffsetCarefully
  <2>2. o <= request.offset + request.limit
    BY <1>2, <2>1
  <2> HIDE DEF o
  <2> QED
    BY <1>1, <2>1, <2>2 DEF Request
<1> QED
  BY <1>3, <1>4, <1>5 DEF Turn, NextOffset

-----------------------------------------------------------------------------
(***************************************************************************)
(* While the list grows, a crawl leaves out nothing.                       *)
(***************************************************************************)

LEMMA GapTurn ==
  ASSUME Inv, NoGap, Turn
  PROVE  NoGap'
<1> SUFFICES ASSUME Growing'
             PROVE  NoGap'
  BY DEF NoGap
<1>1. /\ wire # Nothing /\ wire' = Nothing /\ crawl # Nothing /\ crawl \in Crawls /\ Collect
      /\ request'.filter \in {request.filter, Everything}
      /\ UNCHANGED <<store, crawl, start>>
  BY TurnTyped DEF Inv
<1>2. Growing
  BY <1>1 DEF Growing
<1>3. /\ request.filter \in Filter /\ store \in Store
      /\ request.offset \in Nat /\ request.limit \in Nat /\ wire.total \in Nat
      /\ request'.offset \in Nat
  BY <1>1, TurnTyped, CrawlAssumption DEF Inv, TypeOK, Store, Request
<1>4. seen' = seen \cup wire.items
  BY <1>1 DEF Collect
<1>5. \A k \in start \ seen' : /\ request.offset + request.limit <= Place(store, k, request.filter)
                               /\ Place(store, k, request.filter) < wire.total
  BY <1>1, <1>2, <1>4 DEF NoGap
<1>6. \A k : Place(store, k, request.filter) <= Place(store, k, request'.filter)
  BY <1>1, <1>3, PlaceUnfiltered, Numbers
<1>7. \A k : Place(store, k, request.filter) \in Nat /\ Place(store, k, request'.filter) \in Nat
  BY Numbers
<1>8. phase' = "asking" => \A k \in start \ seen' : request'.offset <= Place(store, k, request'.filter)
  <2> SUFFICES ASSUME phase' = "asking", NEW k \in start \ seen'
               PROVE  request'.offset <= Place(store, k, request'.filter)
    OBVIOUS
  <2>1. request'.offset <= request.offset + request.limit
    BY Turned
  <2> QED
    BY <1>3, <1>5, <1>6, <1>7, <2>1
<1>9. phase' = "ended" => start \subseteq seen'
  <2> SUFFICES ASSUME phase' = "ended", NEW k \in start \ seen'
               PROVE  FALSE
    OBVIOUS
  <2>1. wire.total <= request.offset + request.limit
    BY Turned
  <2> QED
    BY <1>3, <1>5, <1>7, <2>1
<1>10. start \subseteq Listed(store, crawl.filter)
  BY <1>2 DEF NoGap
<1> QED
  BY <1>1, <1>8, <1>9, <1>10 DEF NoGap

LEMMA GapServe ==
  ASSUME Inv, NoGap, Serve
  PROVE  NoGap'
<1> SUFFICES ASSUME Growing'
             PROVE  NoGap'
  BY DEF NoGap
<1>1. /\ crawl # Nothing /\ request.filter \in Filter /\ phase = "asking"
      /\ wire'.items = {k \in Listed(store, request.filter) :
                          /\ request.offset <= Place(store, k, request.filter)
                          /\ Place(store, k, request.filter) < request.offset + request.limit}
      /\ wire'.total = Count(store, request.filter)
      /\ UNCHANGED <<store, crawl, request, phase, total, seen, twice, start, touched>>
  BY Served
<1>2. Growing
  BY <1>1 DEF Growing
<1>3. start \subseteq Listed(store, crawl.filter)
  BY <1>2 DEF NoGap
<1>4. store \in Store /\ crawl.filter \in Filter /\ request.filter \in {crawl.filter, Everything}
      /\ request.offset \in Nat /\ request.limit \in Nat
  BY <1>1, CrawlAssumption DEF Inv, TypeOK, Paging, Store
<1>5. start \subseteq Listed(store, request.filter)
  BY <1>3, <1>4, ListedUnfiltered
<1>6. \A k \in start \ seen : request.offset <= Place(store, k, request.filter)
  BY <1>1, <1>2 DEF NoGap
<1>7. \A k : Place(store, k, request.filter) \in Nat
  BY Numbers
<1>8. \A k \in start \ (seen \cup wire'.items) :
        request.offset + request.limit <= Place(store, k, request.filter)
  BY <1>1, <1>4, <1>5, <1>6, <1>7
<1>9. \A k \in start : Place(store, k, request.filter) < wire'.total
  BY <1>1, <1>4, <1>5, PlaceInList
<1> QED
  BY <1>1, <1>3, <1>6, <1>8, <1>9 DEF NoGap

LEMMA GapWrite ==
  ASSUME Inv, NoGap, Write
  PROVE  NoGap'
<1> SUFFICES ASSUME Growing'
             PROVE  NoGap'
  BY DEF NoGap
<1>1. /\ crawl # Nothing
      /\ UNCHANGED <<crawl, request, wire, phase, total, seen, twice, start>>
  BY WriteTyped DEF Inv
<1>2. Growing /\ Grow
  BY <1>1 DEF Growing, Write
<1>3. PICK x \in Key, t \in Time :
        store[x] = Absent /\ Newest(t) /\ store' = [store EXCEPT ![x] = t]
  BY <1>2, GrowWrites
<1>4. store \in Store /\ crawl.filter \in Filter /\ request.filter \in {crawl.filter, Everything}
      /\ request.filter \in Filter
  BY <1>1, CrawlAssumption DEF Inv, TypeOK, Paging, Store
<1>5. \A k \in Key : store[k] # Absent => store[k] < t
  BY <1>3 DEF Newest
<1>6. start \subseteq Listed(store, crawl.filter)
  BY <1>2 DEF NoGap
<1>7. start \subseteq Listed(store, request.filter)
  BY <1>4, <1>6, ListedUnfiltered
<1>8. Listed(store, crawl.filter) \subseteq Listed(store', crawl.filter)
  BY <1>3, <1>4, <1>5, PlacesStay
<1>9. \A k \in start : Place(store', k, request.filter) = Place(store, k, request.filter)
  BY <1>3, <1>4, <1>5, <1>7, PlacesStay
<1> QED
  BY <1>1, <1>2, <1>6, <1>8, <1>9 DEF NoGap

LEMMA GapStep ==
  ASSUME Inv, NoGap, [Next]_vars
  PROVE  NoGap'
<1>1. CASE Begin
  <2> SUFFICES ASSUME Growing'
               PROVE  NoGap'
    BY DEF NoGap
  <2>1. /\ phase' = "asking"
        /\ request'.filter = crawl'.filter /\ request'.offset = crawl'.offset
        /\ start' = {k \in Listed(store, crawl'.filter) :
                       crawl'.offset <= Place(store, k, crawl'.filter)}
        /\ wire' = Nothing /\ store' = store
    BY <1>1, Begun
  <2> QED
    BY <2>1 DEF NoGap
<1>2. CASE Lose
  <2>1. wire' = Nothing /\ UNCHANGED <<store, crawl, request, phase, seen, start>>
    BY <1>2 DEF Lose
  <2> QED
    BY <2>1 DEF NoGap, Growing
<1>3. CASE UNCHANGED vars
  BY <1>3 DEF vars, NoGap, Growing
<1> QED
  BY <1>1, <1>2, <1>3, GapTurn, GapServe, GapWrite DEF Next, Party, Turn

\* While the list only grows, a crawl that has ended has seen every object from
\* its first offset on that matched when it began: for any number of objects,
\* any pages, and where the sum of offset and limit wraps.
THEOREM CrawlsAreComplete == UntiedSpec => []CrawlIsComplete
<1>1. UntiedInit => Inv /\ NoGap
  BY InvInit DEF UntiedInit, Init, NoGap, Growing
<1>2. Inv /\ NoGap /\ [Next]_vars => (Inv /\ NoGap)'
  BY InvStep, GapStep
<1>3. Inv /\ NoGap => CrawlIsComplete
  BY DEF NoGap, CrawlIsComplete
<1> QED
  BY <1>1, <1>2, <1>3, PTL DEF UntiedSpec, Next

-----------------------------------------------------------------------------
(***************************************************************************)
(* While the list grows, no object is on two pages.                        *)
(***************************************************************************)

\* Such a crawl asks for its own filter all along.
LEMMA TilingFilter ==
  ASSUME Inv, Tiling
  PROVE  request.filter = crawl.filter /\ crawl # Nothing /\ crawl.filter \in Filter
<1>1. crawl # Nothing
  BY DEF Tiling, Growing
<1> QED
  BY <1>1, CrawlTyped DEF Inv, Paging, TypeOK, Tiling

\* It goes on exactly where the page ends.
LEMMA TilingTurn ==
  ASSUME Inv, Tiling, NoOverlap, Turn
  PROVE  phase' = "asking" => request'.offset = request.offset + request.limit
<1> SUFFICES ASSUME phase' = "asking"
             PROVE  request'.offset = request.offset + request.limit
  OBVIOUS
<1>1. /\ wire # Nothing /\ crawl # Nothing /\ request \in Request
      /\ wire.total \in Nat /\ total \in Nat
      /\ wire.next = next_offset(request.offset, request.limit, wire.total)
  BY TurnTyped DEF Inv, TypeOK, Paging, Request
<1>2. total <= wire.total
  BY <1>1 DEF NoOverlap
<1>3. CASE Advance
  BY <1>1, <1>3, Advanced
<1>4. CASE FollowLink
  <2>1. wire.next # {}
    BY <1>4 DEF FollowLink
  <2>2. PICK o \in wire.next : request' = Unfiltered(o)
    BY <1>4, <2>1 DEF FollowLink
  <2>3. request.offset + request.limit < Width
    BY <1>1, <1>4 DEF FollowLink, Tiling, Inv, Paging
  <2>4. request'.offset = o
    BY <2>2 DEF Unfiltered
  <2> QED
    BY <1>1, <2>2, <2>3, <2>4, NextOffset32 DEF Request
<1>5. CASE NextOffsetCarefully
  <2>1. ~(wire.total < total)
    BY <1>1, <1>2
  <2> QED
    BY <1>3, <1>5, <2>1 DEF NextOffsetCarefully
<1> QED
  BY <1>3, <1>4, <1>5 DEF Turn, NextOffset

LEMMA OverlapTurn ==
  ASSUME Inv, NoOverlap, Turn
  PROVE  NoOverlap'
<1> SUFFICES ASSUME Tiling'
             PROVE  NoOverlap'
  BY DEF NoOverlap
<1>1. /\ wire # Nothing /\ wire' = Nothing /\ crawl # Nothing /\ Collect /\ phase = "asking"
      /\ request'.filter \in {request.filter, Everything}
      /\ UNCHANGED <<store, crawl>>
  BY TurnTyped DEF Inv
<1>2. Tiling
  BY <1>1 DEF Tiling, Growing, Fits
<1>3. seen' = seen \cup wire.items /\ twice' = twice \cup (seen \cap wire.items) /\ total' = wire.total
  BY <1>1 DEF Collect
<1>4. request.offset \in Nat /\ request.limit \in Nat
  BY CrawlAssumption DEF Inv, TypeOK
<1>5. \A k : Place(store, k, crawl.filter) \in Nat
  BY Numbers
<1>6. \A k \in seen : /\ k \in Listed(store, crawl.filter)
                      /\ Place(store, k, crawl.filter) < request.offset
  BY <1>1, <1>2 DEF NoOverlap
<1>7. \A k \in wire.items :
        /\ k \in Listed(store, crawl.filter)
        /\ request.offset <= Place(store, k, crawl.filter)
        /\ Place(store, k, crawl.filter) < request.offset + request.limit
  BY <1>1, <1>2 DEF NoOverlap
<1>8. twice = {} /\ wire.total <= Count(store, crawl.filter)
  BY <1>1, <1>2 DEF NoOverlap
<1>9. seen \cap wire.items = {}
  BY <1>4, <1>5, <1>6, <1>7
<1>10. \A k \in seen' : /\ k \in Listed(store, crawl.filter)
                        /\ Place(store, k, crawl.filter) < request.offset + request.limit
  BY <1>3, <1>4, <1>5, <1>6, <1>7
<1>11. phase' = "asking" => request'.offset = request.offset + request.limit
  BY <1>2, TilingTurn
<1> QED
  BY <1>1, <1>3, <1>8, <1>9, <1>10, <1>11 DEF NoOverlap

LEMMA OverlapServe ==
  ASSUME Inv, NoOverlap, Serve
  PROVE  NoOverlap'
<1> SUFFICES ASSUME Tiling'
             PROVE  NoOverlap'
  BY DEF NoOverlap
<1>1. /\ wire'.items = {k \in Listed(store, request.filter) :
                          /\ request.offset <= Place(store, k, request.filter)
                          /\ Place(store, k, request.filter) < request.offset + request.limit}
      /\ wire'.total = Count(store, request.filter)
      /\ UNCHANGED <<store, crawl, request, phase, total, seen, twice, start, touched>>
  BY Served
<1>2. Tiling
  BY <1>1 DEF Tiling, Growing, Fits
<1>3. request.filter = crawl.filter
  BY <1>2, TilingFilter
<1>4. Count(store, crawl.filter) \in Nat
  BY Numbers
<1> QED
  BY <1>1, <1>2, <1>3, <1>4 DEF NoOverlap

LEMMA OverlapWrite ==
  ASSUME Inv, NoOverlap, Write
  PROVE  NoOverlap'
<1> SUFFICES ASSUME Tiling'
             PROVE  NoOverlap'
  BY DEF NoOverlap
<1>1. /\ crawl # Nothing
      /\ UNCHANGED <<crawl, request, wire, phase, total, seen, twice>>
  BY WriteTyped DEF Inv
<1>2. Tiling /\ Grow
  BY <1>1 DEF Tiling, Growing, Fits, Write
<1>3. PICK x \in Key, t \in Time :
        store[x] = Absent /\ Newest(t) /\ store' = [store EXCEPT ![x] = t]
  BY <1>2, GrowWrites
<1>4. store \in Store /\ crawl.filter \in Filter
  BY <1>2, TilingFilter DEF Inv, TypeOK, Store
<1>5. \A k \in Key : store[k] # Absent => store[k] < t
  BY <1>3 DEF Newest
<1>6. /\ Listed(store, crawl.filter) \subseteq Listed(store', crawl.filter)
      /\ \A k \in Listed(store, crawl.filter) :
           Place(store', k, crawl.filter) = Place(store, k, crawl.filter)
      /\ Count(store, crawl.filter) <= Count(store', crawl.filter)
  BY <1>3, <1>4, <1>5, PlacesStay
<1>7. /\ Count(store, crawl.filter) \in Nat /\ Count(store', crawl.filter) \in Nat
      /\ total \in Nat
      /\ wire # Nothing => wire.total \in Nat
  BY Numbers DEF Inv, TypeOK
<1>8. twice = {} /\ total <= Count(store', crawl.filter)
  BY <1>2, <1>6, <1>7 DEF NoOverlap
<1>9. phase = "asking" =>
        \A k \in seen : /\ k \in Listed(store', crawl.filter)
                        /\ Place(store', k, crawl.filter) < request.offset
  BY <1>2, <1>6 DEF NoOverlap
<1>10. wire # Nothing =>
         \A k \in wire.items :
           /\ k \in Listed(store', crawl.filter)
           /\ request.offset <= Place(store', k, crawl.filter)
           /\ Place(store', k, crawl.filter) < request.offset + request.limit
  BY <1>2, <1>6 DEF NoOverlap
<1>11. wire # Nothing => total <= wire.total /\ wire.total <= Count(store', crawl.filter)
  BY <1>2, <1>6, <1>7 DEF NoOverlap
<1> QED
  BY <1>1, <1>8, <1>9, <1>10, <1>11 DEF NoOverlap

LEMMA OverlapStep ==
  ASSUME Inv, NoOverlap, [Next]_vars
  PROVE  NoOverlap'
<1>1. CASE Begin
  <2>1. /\ wire' = Nothing /\ total' = 0 /\ seen' = {} /\ twice' = {}
    BY <1>1, Begun
  <2>2. \A f : Count(store', f) \in Nat
    BY Numbers
  <2> QED
    BY <2>1, <2>2 DEF NoOverlap
<1>2. CASE Lose
  <2>1. wire' = Nothing /\ UNCHANGED <<store, crawl, request, phase, total, seen, twice>>
    BY <1>2 DEF Lose
  <2> QED
    BY <2>1 DEF NoOverlap, Tiling, Growing, Fits
<1>3. CASE UNCHANGED vars
  BY <1>3 DEF vars, NoOverlap, Tiling, Growing, Fits
<1> QED
  BY <1>1, <1>2, <1>3, OverlapTurn, OverlapServe, OverlapWrite DEF Next, Party, Turn

\* While the list only grows, no object is on two pages, unless Links lead out
\* of a filtered list or wrap.
THEOREM PagesAreDisjoint == UntiedSpec => []NothingTwice
<1>1. UntiedInit => Inv /\ NoOverlap
  BY InvInit DEF UntiedInit, Init, NoOverlap, Tiling, Growing
<1>2. Inv /\ NoOverlap /\ [Next]_vars => (Inv /\ NoOverlap)'
  BY InvStep, OverlapStep
<1>3. NoOverlap => NothingTwice
  BY DEF NoOverlap, Tiling, NothingTwice
<1> QED
  BY <1>1, <1>2, <1>3, PTL DEF UntiedSpec, Next

-----------------------------------------------------------------------------
(***************************************************************************)
(* While objects leave an interval, the careful crawl skips none.          *)
(***************************************************************************)

\* Such a crawl asks for its own filter all along.
LEMMA ClosingFilter ==
  ASSUME Inv, Closing
  PROVE  request.filter = crawl.filter /\ crawl # Nothing /\ crawl.filter \in Filter
<1>1. crawl # Nothing /\ crawl.mode # "link"
  BY DEF Closing
<1> QED
  BY <1>1, CrawlTyped DEF Inv, Paging, TypeOK

LEMMA SkipTurn ==
  ASSUME Inv, NoSkip, Turn
  PROVE  NoSkip'
<1> SUFFICES ASSUME Closing'
             PROVE  NoSkip'
  BY DEF NoSkip
<1>1. /\ wire # Nothing /\ wire' = Nothing /\ crawl # Nothing /\ Collect /\ phase = "asking"
      /\ UNCHANGED <<store, crawl, start, touched>>
  BY TurnTyped DEF Inv
<1>2. Closing
  BY <1>1 DEF Closing, Growing
<1>3. seen' = seen \cup wire.items /\ total' = wire.total
  BY <1>1 DEF Collect
<1>4. /\ request \in Request /\ request.offset \in Nat /\ request.limit \in Nat
      /\ total \in Nat /\ wire.total \in Nat
  BY <1>1, CrawlAssumption DEF Inv, TypeOK, Request
<1> DEFINE f == crawl.filter
           n == Count(store, f)
<1>5. store \in Store /\ n \in Nat /\ \A k : Place(store, k, f) \in Nat
  BY Numbers DEF Inv, TypeOK, Store
<1>6. \A k \in Listed(store, f) : Place(store, k, f) < n
  BY <1>5, PlaceInList
<1>7. /\ n <= wire.total
      /\ request.offset # 0 => wire.total <= total
      /\ request.offset = 0 \/ wire.total = total =>
           \A k \in Listed(store, f) \ seen' :
             request.offset + request.limit + n <= Place(store, k, f) + wire.total
      /\ request.offset # 0 =>
           \A k \in Listed(store, f) \ seen : request.offset + n <= Place(store, k, f) + total
      /\ Listed(store, f) = start \ touched
  BY <1>1, <1>2, <1>3 DEF NoSkip
<1> HIDE DEF f, n
<1>8. \/ /\ phase' = "asking"
         /\ request'.offset # 0 =>
              \A k \in Listed(store, f) \ seen' :
                request'.offset + n <= Place(store, k, f) + wire.total
      \/ phase' = "ended" /\ Listed(store, f) \subseteq seen'
  <2>1. NextOffsetCarefully
    BY <1>2 DEF Closing, Turn, FollowLink, NextOffset
  <2>2. CASE wire.total < total /\ request.offset # 0
    <3> DEFINE o == IF request.offset > total - wire.total
                      THEN request.offset - (total - wire.total) ELSE 0
    <3>1. phase' = "asking" /\ request' = [request EXCEPT !.offset = o]
      BY <1>1, <2>1, <2>2 DEF NextOffsetCarefully
    <3>2. request'.offset = o
      BY <1>4, <3>1 DEF Request
    <3>3. o # 0 => o = request.offset - (total - wire.total)
      OBVIOUS
    <3> HIDE DEF o
    <3>4. ASSUME o # 0, NEW k \in Listed(store, f) \ seen'
          PROVE  o + n <= Place(store, k, f) + wire.total
      <4>1. request.offset + n <= Place(store, k, f) + total
        BY <1>3, <1>7, <2>2, <3>4
      <4> QED
        BY <1>4, <1>5, <3>3, <3>4, <4>1
    <3> QED
      BY <3>1, <3>2, <3>4
  <2>3. CASE ~(wire.total < total /\ request.offset # 0)
    <3>1. request.offset = 0 \/ wire.total = total
      BY <1>4, <1>7, <2>3
    <3>2. \A k \in Listed(store, f) \ seen' :
            request.offset + request.limit + n <= Place(store, k, f) + wire.total
      BY <1>7, <3>1
    <3>3. Advance
      BY <2>1, <2>3 DEF NextOffsetCarefully
    <3>4. CASE phase' = "asking" /\ request'.offset = request.offset + request.limit
      BY <3>2, <3>4
    <3>5. CASE phase' = "ended" /\ wire.total <= request.offset + request.limit
      <4>1. ASSUME NEW k \in Listed(store, f) \ seen'
            PROVE  FALSE
        <5>1. request.offset + request.limit + n <= Place(store, k, f) + wire.total
          BY <3>2, <4>1
        <5>2. Place(store, k, f) < n
          BY <1>6, <4>1
        <5> QED
          BY <1>4, <1>5, <3>5, <5>1, <5>2
      <4> QED
        BY <3>5, <4>1
    <3> QED
      BY <1>1, <3>3, <3>4, <3>5, Advanced
  <2> QED
    BY <2>2, <2>3
<1> QED
  BY <1>1, <1>3, <1>7, <1>8 DEF NoSkip, f, n

LEMMA SkipServe ==
  ASSUME Inv, NoSkip, Serve
  PROVE  NoSkip'
<1> SUFFICES ASSUME Closing'
             PROVE  NoSkip'
  BY DEF NoSkip
<1>1. /\ phase = "asking"
      /\ wire'.items = {k \in Listed(store, request.filter) :
                          /\ request.offset <= Place(store, k, request.filter)
                          /\ Place(store, k, request.filter) < request.offset + request.limit}
      /\ wire'.total = Count(store, request.filter)
      /\ UNCHANGED <<store, crawl, request, phase, total, seen, twice, start, touched>>
  BY Served
<1>2. Closing
  BY <1>1 DEF Closing, Growing
<1> DEFINE f == crawl.filter
           n == Count(store, f)
<1>3. request.filter = f
  BY <1>2, ClosingFilter
<1>4. n \in Nat /\ \A k : Place(store, k, f) \in Nat
  BY Numbers
<1>5. request.offset \in Nat /\ request.limit \in Nat /\ total \in Nat
  BY CrawlAssumption DEF Inv, TypeOK
<1>6. request.offset # 0 =>
        /\ n <= total
        /\ \A k \in Listed(store, f) \ seen : request.offset + n <= Place(store, k, f) + total
  BY <1>1, <1>2 DEF NoSkip
<1> HIDE DEF n
<1>7. ASSUME request.offset = 0 \/ n = total,
             NEW k \in Listed(store, f) \ (seen \cup wire'.items)
      PROVE  request.offset + request.limit + n <= Place(store, k, f) + n
  <2>1. request.offset <= Place(store, k, f)
    BY <1>4, <1>5, <1>6, <1>7
  <2>2. request.offset + request.limit <= Place(store, k, f)
    BY <1>1, <1>3, <1>4, <1>5, <1>7, <2>1
  <2> QED
    BY <1>4, <1>5, <2>2
<1>8. wire'.total = n
  BY <1>1, <1>3 DEF n
<1>9. n <= wire'.total
  BY <1>4, <1>8
<1> QED
  BY <1>1, <1>2, <1>3, <1>6, <1>7, <1>8, <1>9 DEF NoSkip, n

LEMMA SkipWrite ==
  ASSUME Inv, NoSkip, Write
  PROVE  NoSkip'
<1> SUFFICES ASSUME Closing'
             PROVE  NoSkip'
  BY DEF NoSkip
<1>1. /\ crawl # Nothing
      /\ UNCHANGED <<crawl, request, wire, phase, total, seen, twice, start>>
  BY WriteTyped DEF Inv
<1>2. Closing /\ Move
  BY <1>1 DEF Closing, Growing, Write
<1> DEFINE f == crawl.filter
           n == Count(store, f)
           m == Count(store', f)
<1>3. PICK x \in Key, v \in Time \cup {Absent} :
        /\ v = Absent \/ (v \in Time /\ Past(v))
        /\ store' = [store EXCEPT ![x] = v] /\ touched' = touched \cup {x}
  BY <1>2, MoveWrites
<1>4. store \in Store /\ f \in Filter
  BY <1>2, ClosingFilter DEF Inv, TypeOK, Store
<1>5. x \notin Listed(store', f)
  <2>1. store'[x] = v
    BY <1>3, <1>4 DEF Store
  <2>2. CASE v = Absent
    BY <2>1, <2>2 DEF Listed
  <2>3. CASE v \in Time /\ Past(v)
    <3>1. f.to # Nothing /\ f.to \in Time /\ v >= f.to
      BY <1>2, <1>4, <2>3 DEF Closing, Past, Filter
    <3>2. v \in Nat /\ f.to \in Nat
      BY <2>3, <3>1, CrawlAssumption DEF Time
    <3> QED
      BY <2>1, <3>1, <3>2 DEF Listed
  <2> QED
    BY <1>3, <2>2, <2>3
<1>6. /\ Listed(store', f) = Listed(store, f) \ {x}
      /\ m <= n
      /\ \A k \in Listed(store', f) : m + Place(store, k, f) <= n + Place(store', k, f)
  BY <1>3, <1>4, <1>5, EndComesNearer
<1>7. /\ n \in Nat /\ m \in Nat
      /\ \A k : Place(store, k, f) \in Nat /\ Place(store', k, f) \in Nat
  BY Numbers
<1>8. /\ request.offset \in Nat /\ request.limit \in Nat /\ total \in Nat
      /\ wire # Nothing => wire.total \in Nat
  BY CrawlAssumption DEF Inv, TypeOK
<1>9. Listed(store, f) = start \ touched
  BY <1>2 DEF NoSkip
<1>10. Listed(store', f) = start \ touched'
  BY <1>3, <1>6, <1>9
<1>11. phase = "asking" /\ request.offset # 0 =>
         /\ n <= total
         /\ \A k \in Listed(store, f) \ seen : request.offset + n <= Place(store, k, f) + total
  BY <1>2 DEF NoSkip
<1>12. wire # Nothing =>
         /\ n <= wire.total
         /\ request.offset # 0 => wire.total <= total
         /\ request.offset = 0 \/ wire.total = total =>
              \A k \in Listed(store, f) \ (seen \cup wire.items) :
                request.offset + request.limit + n <= Place(store, k, f) + wire.total
  BY <1>2 DEF NoSkip
<1>13. phase = "ended" => Listed(store, f) \subseteq seen
  BY <1>2 DEF NoSkip
<1> HIDE DEF f, n, m
<1>14. phase = "asking" /\ request.offset # 0 =>
         /\ m <= total
         /\ \A k \in Listed(store', f) \ seen : request.offset + m <= Place(store', k, f) + total
  <2> SUFFICES ASSUME phase = "asking", request.offset # 0
               PROVE  /\ m <= total
                      /\ \A k \in Listed(store', f) \ seen :
                           request.offset + m <= Place(store', k, f) + total
    OBVIOUS
  <2>1. m <= total
    BY <1>6, <1>7, <1>8, <1>11
  <2>2. ASSUME NEW k \in Listed(store', f) \ seen
        PROVE  request.offset + m <= Place(store', k, f) + total
    <3>1. request.offset + n <= Place(store, k, f) + total
      BY <1>6, <1>11, <2>2
    <3>2. m + Place(store, k, f) <= n + Place(store', k, f)
      BY <1>6, <2>2
    <3> QED
      BY <1>7, <1>8, <3>1, <3>2
  <2> QED
    BY <2>1, <2>2
<1>15. wire # Nothing =>
         /\ m <= wire.total
         /\ request.offset # 0 => wire.total <= total
         /\ request.offset = 0 \/ wire.total = total =>
              \A k \in Listed(store', f) \ (seen \cup wire.items) :
                request.offset + request.limit + m <= Place(store', k, f) + wire.total
  <2> SUFFICES ASSUME wire # Nothing
               PROVE  /\ m <= wire.total
                      /\ request.offset # 0 => wire.total <= total
                      /\ request.offset = 0 \/ wire.total = total =>
                           \A k \in Listed(store', f) \ (seen \cup wire.items) :
                             request.offset + request.limit + m <= Place(store', k, f) + wire.total
    OBVIOUS
  <2>1. m <= wire.total
    BY <1>6, <1>7, <1>8, <1>12
  <2>2. ASSUME request.offset = 0 \/ wire.total = total,
               NEW k \in Listed(store', f) \ (seen \cup wire.items)
        PROVE  request.offset + request.limit + m <= Place(store', k, f) + wire.total
    <3>1. request.offset + request.limit + n <= Place(store, k, f) + wire.total
      BY <1>6, <1>12, <2>2
    <3>2. m + Place(store, k, f) <= n + Place(store', k, f)
      BY <1>6, <2>2
    <3> QED
      BY <1>7, <1>8, <3>1, <3>2
  <2> QED
    BY <1>12, <2>1, <2>2
<1>16. phase = "ended" => Listed(store', f) \subseteq seen
  BY <1>6, <1>13
<1> QED
  BY <1>1, <1>10, <1>14, <1>15, <1>16 DEF NoSkip, f, m

LEMMA SkipStep ==
  ASSUME Inv, NoSkip, [Next]_vars
  PROVE  NoSkip'
<1>1. CASE Begin
  <2> SUFFICES ASSUME Closing'
               PROVE  NoSkip'
    BY DEF NoSkip
  <2>1. /\ phase' = "asking"
        /\ request'.offset = crawl'.offset
        /\ start' = {k \in Listed(store, crawl'.filter) :
                       crawl'.offset <= Place(store, k, crawl'.filter)}
        /\ wire' = Nothing /\ store' = store /\ touched' = {}
    BY <1>1, Begun
  <2>2. crawl'.offset = 0
    BY DEF Closing
  <2>3. \A k : 0 <= Place(store, k, crawl'.filter)
    BY Numbers
  <2>4. Listed(store', crawl'.filter) = start' \ touched'
    BY <2>1, <2>2, <2>3
  <2> QED
    BY <2>1, <2>2, <2>4 DEF NoSkip
<1>2. CASE Lose
  <2>1. wire' = Nothing
        /\ UNCHANGED <<store, crawl, request, phase, total, seen, start, touched>>
    BY <1>2 DEF Lose
  <2> QED
    BY <2>1 DEF NoSkip, Closing, Growing
<1>3. CASE UNCHANGED vars
  BY <1>3 DEF vars, NoSkip, Closing, Growing
<1> QED
  BY <1>1, <1>2, <1>3, SkipTurn, SkipServe, SkipWrite DEF Next, Party, Turn

\* The advised way of crawling a closed interval from its beginning sees every
\* object of it that is still what it was when the crawl began, however many
\* others leave it.
THEOREM CarefulCrawlsAreComplete == UntiedSpec => []CarefulCrawlIsComplete
<1>1. UntiedInit => Inv /\ NoGap /\ NoSkip
  BY InvInit DEF UntiedInit, Init, NoGap, Growing, NoSkip, Closing
<1>2. Inv /\ NoGap /\ NoSkip /\ [Next]_vars => (Inv /\ NoGap /\ NoSkip)'
  BY InvStep, GapStep, SkipStep
<1>3. ASSUME Inv, NoGap, NoSkip
      PROVE  CarefulCrawlIsComplete
  <2> SUFFICES ASSUME phase = "ended", crawl.mode = "careful offset",
                      crawl.offset = 0, crawl.filter.to # Nothing
               PROVE  start \ touched \subseteq seen
    BY DEF CarefulCrawlIsComplete
  <2>1. crawl # Nothing
    BY <1>3 DEF Inv, Paging
  <2>2. CASE Growing
    BY <1>3, <2>2 DEF NoGap
  <2>3. CASE ~Growing
    BY <1>3, <2>1, <2>3 DEF NoSkip, Closing
  <2> QED
    BY <2>2, <2>3
<1> QED
  BY <1>1, <1>2, <1>3, PTL DEF UntiedSpec, Next

=============================================================================
