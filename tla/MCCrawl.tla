------------------------------ MODULE MCCrawl ------------------------------
(***************************************************************************)
(* Small instances of Crawl: three objects, pages of one or two, and a     *)
(* u32 of four bits.                                                       *)
(***************************************************************************)
EXTENDS Crawl, TLC

CONSTANTS k1, k2, k3

Window == [from |-> 1, to |-> 3]

Crawling(modes, writers, filters, limits) ==
  [mode : modes, writers : writers, filter : filters, offset : {0}, limit : limits]

\* A crawl that begins in the middle, and whose first Link wraps.
WrappingCrawl ==
  [mode |-> "link", writers |-> "grow", filter |-> Everything, offset |-> 1, limit |-> Width - 1]

\* Links are followed for lists without a filter, offsets for any list.
TilingCrawls ==
  Crawling({"link"}, {"grow"}, {Everything}, {1, Nothing})
    \cup Crawling({"offset"}, {"grow"}, {Everything, Window}, {1, Nothing})
    \cup {WrappingCrawl}

MovingCrawls ==
  Crawling({"careful offset"}, {"move"}, {Window}, {1, Nothing})
    \cup Crawling({"link"}, {"move"}, {Everything}, {1})

MCCrawls == TilingCrawls \cup MovingCrawls

FilteredCrawls == Crawling({"link"}, {"grow"}, {Window}, {1, Nothing})

MCSymmetry == Permutations(Key)
=============================================================================
