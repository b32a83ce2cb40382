----------------------------- MODULE KlineRange -----------------------------
(***************************************************************************)
(* queryRange and locateEndOffset (src/routes/kline/service.go): the bars  *)
(* of a time interval, read from a server that counts bars backwards from  *)
(* the newest one.  The offset of the end of the interval is found by      *)
(* doubling and bisecting, then pages are read towards the past; all the   *)
(* while new bars may push every offset one further.                       *)
(*                                                                         *)
(* Bars are told by their times, the numbers 1, 2, ...: the newest of n    *)
(* bars has time n, and the bar at an offset has time n - offset.  A step  *)
(* is one query with what the code does with the answer.                   *)
(***************************************************************************)
EXTENDS Integers, FiniteSets, FiniteSetsExt

CONSTANTS
    RangePage,  \* pageSizeFor: 800, 100 or 699 bars
    MaxBars,    \* maxBarsPerRequest (20000)
    MaxSearch,  \* maxSearchOffset (10000000)
    MaxCarried, \* the largest offset the protocol carries (65535 for GetIndexBars)
    MaxHistory  \* bound: the bars there may come to be

ASSUME RangeAssumption ==
    /\ RangePage \in Nat \ {0} /\ MaxSearch \in Nat \ {0, 1}
    /\ MaxBars \in Nat /\ MaxCarried \in Nat /\ MaxHistory \in Nat

VARIABLES
    len,             \* external: the number of bars
    lenBefore,       \* history: what it was when the query began
    rangeStart,      \* query.Start
    rangeEnd,        \* query.End
    phase,
    low, high,       \* of the search
    pageOffset,      \* offset, of the next page
    bars             \* the times of the bars collected: the keys of seen

query == <<lenBefore, rangeStart, rangeEnd>>
rangeVars == <<len, query, phase, low, high, pageOffset, bars>>

\* firstBar: is there a bar at this offset, and is it later than end?
Later(o) == o < len /\ len - o > rangeEnd

\* The times on a page.
OnPage(o) == {t \in 1..len : len - o - RangePage < t /\ t <= len - o}

Carried(o) == o <= MaxCarried

Latest ==
    /\ phase = "latest"
    /\ phase' = IF len = 0 THEN "notFound" ELSE IF Later(0) THEN "double" ELSE "read"
    /\ UNCHANGED <<len, query, low, high, pageOffset, bars>>

\* Mutant: the last offset known to be too late is not kept.
LowAfter_Skips(o) == o + 1

\* The low end of the search once the bar at offset o is later than end.
LowAfter(o) == o

HighAfter(o) == IF o >= MaxSearch \div 2 THEN MaxSearch ELSE 2 * o

Double ==
    /\ phase = "double"
    /\ Carried(high)
    /\ IF ~Later(high) THEN phase' = "bisect" /\ UNCHANGED <<low, high>>
       ELSE /\ low' = LowAfter(high)
            /\ high' = HighAfter(high)
            /\ phase' = IF high >= MaxSearch \div 2 THEN "bisect" ELSE phase
    /\ UNCHANGED <<len, query, pageOffset, bars>>

Middle == low + (high - low) \div 2

Bisect ==
    /\ phase = "bisect"
    /\ low + 1 < high
    /\ Carried(Middle)
    /\ IF Later(Middle) THEN low' = LowAfter(Middle) /\ UNCHANGED high
                        ELSE high' = Middle /\ UNCHANGED low
    /\ UNCHANGED <<len, query, phase, pageOffset, bars>>

Candidate ==
    /\ phase = "bisect"
    /\ low + 1 >= high
    /\ Carried(high)
    /\ IF high >= len \/ Later(high)
         THEN phase' = "notFound" /\ UNCHANGED pageOffset
         ELSE phase' = "read" /\ pageOffset' = high
    /\ UNCHANGED <<len, query, low, high, bars>>

\* Nothing is left to read: a bar from before start was on the page, or the
\* page was not full.
NothingLeft(page) == (\E t \in page : t < rangeStart) \/ Cardinality(page) < RangePage

\* Mutant: the next page begins after one bar more.
NextPageOffset_Skips == pageOffset + RangePage + 1

NextPageOffset == pageOffset + RangePage

\* Mutant: as many bars as are allowed are refused.
TooManyBars_Exact(times) == Cardinality(times) >= MaxBars

TooManyBars(times) == Cardinality(times) > MaxBars

Read ==
    /\ phase = "read"
    /\ Carried(pageOffset)
    /\ LET page == OnPage(pageOffset)
           all  == bars \cup {t \in page : rangeStart <= t /\ t <= rangeEnd}
       IN \/ /\ TooManyBars(all)
             /\ phase' = "tooMany"
             /\ UNCHANGED <<pageOffset, bars>>
          \/ /\ ~TooManyBars(all)
             /\ bars' = all
             /\ IF NothingLeft(page) THEN phase' = "done" /\ UNCHANGED pageOffset
                                  ELSE pageOffset' = NextPageOffset /\ UNCHANGED phase
    /\ UNCHANGED <<len, query, low, high>>

OffsetAsked ==
    CASE phase = "double" -> high
      [] phase = "bisect" -> IF low + 1 < high THEN Middle ELSE high
      [] phase = "read"   -> pageOffset
      [] OTHER         -> 0

\* The offset is not one the protocol carries: an error, without a query.
OutOfRange ==
    /\ phase \in {"double", "bisect", "read"}
    /\ ~Carried(OffsetAsked)
    /\ phase' = "outOfRange"
    /\ UNCHANGED <<len, query, low, high, pageOffset, bars>>

\* The query fails: it is for another server now.
RangeFails ==
    /\ phase \in {"latest", "double", "bisect", "read"}
    /\ Carried(OffsetAsked)
    /\ phase' = "failed"
    /\ UNCHANGED <<len, query, low, high, pageOffset, bars>>

\* External: a bar is completed.
NewBar ==
    /\ len < MaxHistory
    /\ len' = len + 1
    /\ UNCHANGED <<query, phase, low, high, pageOffset, bars>>

RangeInit ==
    /\ len \in 0..MaxHistory
    /\ lenBefore = len
    /\ rangeStart \in 1..MaxHistory /\ rangeEnd \in rangeStart..MaxHistory
    /\ phase = "latest"
    /\ low = 0 /\ high = 1
    /\ pageOffset = 0
    /\ bars = {}

Fetch == Latest \/ Double \/ Bisect \/ Candidate \/ Read \/ OutOfRange

RangeNext == Fetch \/ RangeFails \/ NewBar

RangeSpec == RangeInit /\ [][RangeNext]_rangeVars

\* A query that does not fail is answered.
FairRangeSpec == RangeSpec /\ WF_rangeVars(Fetch)

-----------------------------------------------------------------------------
(* What fetch makes of the bars.  A session is a multiple of three minutes *)
(* and the times leave out the pauses, so that no three bars span one.     *)

\* Mutant: nothing is read before start.
RequestStart_AsAsked(start, width) == start

\* Bars of one minute are given as they are, or, for an index, put together by three:
\* then three minutes more are read, for the first to be whole.
RequestStart(start, width) == IF width = 3 THEN start - 3 ELSE start

\* Bars with the same key are one, with the time and the close of the last of them.
BucketKey(t, width) == (t - 1) \div width
Aggregated(width) ==
    {{t \in bars : BucketKey(t, width) = k} : k \in {BucketKey(t, width) : t \in bars}}

\* Those within the interval are given, each with the close before it: that of the bar
\* before, given or not, or of the first bar what the server says.
Given(start, width) == {b \in Aggregated(width) : start <= Max(b) /\ Max(b) <= rangeEnd}
CloseBefore(b, width) ==
    LET earlier == {Max(a) : a \in {a \in Aggregated(width) : Max(a) < Max(b)}}
    IN IF earlier = {} THEN Min(b) - 1 ELSE Max(earlier)

-----------------------------------------------------------------------------
(* Properties                                                              *)

RangeTypeOK ==
    /\ len \in Nat /\ lenBefore \in 0..len
    /\ rangeStart \in Nat \ {0} /\ rangeEnd \in Nat \ {0}
    /\ phase \in {"latest", "double", "bisect", "read", "done", "notFound", "tooMany", "failed", "outOfRange"}
    /\ low \in 0..MaxSearch /\ high \in 1..MaxSearch
    /\ pageOffset \in Nat
    /\ bars \in SUBSET (rangeStart..rangeEnd)

\* The bars of the interval when there are n bars.
InRange(n) == rangeStart..rangeEnd \cap 1..n

\* A query that reads pages to the end has every bar of the interval that
\* there was when it began, though offsets were found and pages read at
\* different moments and each new bar moves both.
Complete ==
    phase = "done" => InRange(lenBefore) \subseteq bars /\ bars \subseteq InRange(len)

\* A bar that is given is whole, however it is put together: none of the bars it is made
\* of is missing, neither at start nor at the seam of two pages, but those after end; and
\* the close before it, from which its change is computed, is that of the minute before.
WholeBars ==
    phase = "done" =>
        \A width \in {1, 3}, asked \in 1..rangeEnd :
            Max({1, RequestStart(asked, width)}) = rangeStart =>
                \A b \in Given(asked, width) :
                    /\ \A t \in 1..lenBefore :
                        BucketKey(t, width) = BucketKey(Max(b), width) /\ t <= rangeEnd => t \in b
                    /\ CloseBefore(b, width) = Min(b) - 1

\* It is reported too long only if it is.
TooManyIsTrue == phase = "tooMany" => Cardinality(InRange(len)) > MaxBars

\* The offset looked for lies where the search looks: no bar that is not later
\* than end is at low or before it.
SearchBrackets ==
    /\ phase \in {"double", "bisect"} => low < high /\ (low > 0 => Later(low))
    /\ phase = "read" /\ bars = {} => \A t \in InRange(lenBefore) : t <= len - pageOffset

\* service.go says that an empty answer means that the server has no data of
\* the kind: an interval that had bars when the query began is not answered
\* with none.
EmptyMeansNoData == phase = "notFound" => InRange(lenBefore) = {}

\* Every query ends, also when the server always answers and the history grows.
QueryEnds == <>(phase \in {"done", "notFound", "tooMany", "failed", "outOfRange"})
=============================================================================
