---------------------------- MODULE RoutesProofs ----------------------------
(***************************************************************************)
(* The two services that search a history page by page while it grows: the *)
(* bars of an interval (KlineRange) and the days of the auction service    *)
(* (AuctionDays), for every size of page, every limit and any growth.      *)
(***************************************************************************)
EXTENDS KlineRange, AuctionDays, FiniteSetTheorems, SequenceTheorems, WellFoundedInduction, TLAPS

-----------------------------------------------------------------------------
(***************************************************************************)
(* Complete, WholeBars, SearchBrackets and TooManyIsTrue for every page    *)
(* size, every limit, every interval and any growth of the history, proved *)
(* with TLAPS.                                                             *)
(*                                                                         *)
(* The argument: a bar that was once later than the interval's end at some *)
(* offset has one that is later still at the same offset after each new    *)
(* bar, so that the low end of the search stays too late.  The offset that *)
(* is found is the one after it: no bar of the interval is before it.  New *)
(* bars push the bars already read to greater offsets, never to a page     *)
(* that is still to be read past (ReadSoFar), so that nothing is missing   *)
(* between two bars collected either (NoHoles).                            *)
(***************************************************************************)

\* While it doubles, the search has not come to its limit.
HighBelowLimit ==
    /\ phase = "latest" => low = 0 /\ high = 1
    /\ phase = "double" => high < MaxSearch

\* The low end is too late, from the newest bar on.
LowIsLater == phase \in {"double", "bisect"} => low < high /\ Later(low)

\* What pages have been read: every bar of the interval, as it was when the query began,
\* that is newer than the next page.
ReadSoFar ==
    /\ phase = "read" => \A t \in InRange(lenBefore) : t > len - pageOffset => t \in bars
    /\ phase = "done" => InRange(lenBefore) \subseteq bars

\* The bars collected have no hole: those of the interval that are older than one of them
\* are collected too, or still to be read.
NoHoles ==
    phase \in {"read", "done"} =>
        \A t \in bars : \A u \in rangeStart..t :
            u \in bars \/ (phase = "read" /\ u <= len - pageOffset)

\* Nothing else is collected.
OnlyInRange ==
    /\ bars \subseteq InRange(len)
    /\ phase \in {"latest", "double", "bisect"} => bars = {} /\ pageOffset = 0

RangeInv ==
    /\ RangeTypeOK /\ HighBelowLimit /\ LowIsLater /\ ReadSoFar /\ NoHoles /\ OnlyInRange
    /\ TooManyIsTrue

-----------------------------------------------------------------------------
(* Lemmas about the operators.                                             *)

\* A bar that is too late at an offset stays so, or is followed by one.
LEMMA LaterStays ==
    ASSUME NEW o \in Nat, RangeTypeOK, Later(o), len' = len \/ len' = len + 1, rangeEnd' = rangeEnd
    PROVE  Later(o)'
<1>1. len \in Nat /\ rangeEnd \in Nat /\ o < len /\ len - o > rangeEnd
    BY DEF RangeTypeOK, Later
<1>2. o < len' /\ len' - o > rangeEnd'
    BY <1>1
<1> QED BY <1>2 DEF Later

\* The bars of an interval are finitely many.
LEMMA InRangeFinite ==
    ASSUME NEW n \in Nat
    PROVE  IsFiniteSet(InRange(n)) /\ InRange(n) \subseteq InRange(n + 1)
<1>1. IsFiniteSet(1..n)
    BY FS_Interval
<1>2. InRange(n) \subseteq 1..n /\ InRange(n) \subseteq InRange(n + 1)
    BY DEF InRange
<1> QED BY <1>1, <1>2, FS_Subset

\* A page: the bars at its offsets, which are as many as it is long while the history lasts.
LEMMA PageFacts ==
    ASSUME RangeTypeOK, NEW o \in Nat
    PROVE  /\ OnPage(o) \subseteq 1..len
           /\ IsFiniteSet(OnPage(o))
           /\ Cardinality(OnPage(o)) < RangePage => len - o < RangePage
<1>1. len \in Nat /\ RangePage \in Nat \ {0}
    BY RangeAssumption DEF RangeTypeOK
<1>2. OnPage(o) \subseteq 1..len
    BY DEF OnPage
<1>3. IsFiniteSet(OnPage(o))
    <2>1. IsFiniteSet(1..len)
        BY <1>1, FS_Interval
    <2> QED BY <1>2, <2>1, FS_Subset
<1>4. ASSUME len - o >= RangePage
      PROVE  Cardinality(OnPage(o)) = RangePage
    <2>1. OnPage(o) = (len - o - RangePage + 1)..(len - o)
        BY <1>1, <1>4 DEF OnPage
    <2>2. Cardinality((len - o - RangePage + 1)..(len - o)) = (len - o) - (len - o - RangePage + 1) + 1
        BY <1>1, <1>4, FS_Interval
    <2> QED BY <1>1, <2>1, <2>2
<1> QED BY <1>1, <1>2, <1>3, <1>4

\* The least and the greatest of some natural numbers that have a bound.
LEMMA Extremes ==
    ASSUME NEW n \in Nat, NEW S, S \subseteq 0..n, S # {}
    PROVE  /\ Min(S) \in S /\ \A s \in S : Min(S) <= s
           /\ Max(S) \in S /\ \A s \in S : s <= Max(S)
<1> DEFINE lt    == {p \in Nat \X Nat : p[1] < p[2]}
           below == {n - s : s \in S}
<1>1. IsWellFoundedOn(lt, Nat)
    BY NatLessThanWellFounded DEF OpToRel
<1>2. S \subseteq Nat /\ below \subseteq Nat /\ below # {}
    <2>1. S \subseteq Nat /\ \A s \in S : n - s \in Nat
        OBVIOUS
    <2>2. \A b \in below : b \in Nat
        BY <2>1
    <2> QED BY <2>1, <2>2
<1>3. \E x \in S : \A y \in S : x <= y
    <2>1. \E x \in S : \A y \in S : <<y, x>> \notin lt
        <3> HIDE DEF lt
        <3> QED BY <1>1, <1>2, WFMin
    <2>2. PICK x \in S : \A y \in S : <<y, x>> \notin lt
        BY <2>1
    <2>3. \A y \in S : ~(y < x) /\ x \in Nat /\ y \in Nat
        BY <1>2, <2>2
    <2> QED BY <2>3
<1>4. \E x \in S : \A y \in S : x >= y
    <2>1. \E x \in below : \A y \in below : <<y, x>> \notin lt
        <3> HIDE DEF lt, below
        <3> QED BY <1>1, <1>2, WFMin
    <2>2. PICK x \in S : \A y \in below : <<y, n - x>> \notin lt
        BY <2>1
    <2>3. \A y \in S : x >= y
        <3> SUFFICES ASSUME NEW y \in S PROVE x >= y
            OBVIOUS
        <3>1. n - y \in Nat /\ n - x \in Nat /\ n - y \in below
            OBVIOUS
        <3>2. ~(n - y < n - x)
            BY <2>2, <3>1
        <3> QED BY <3>1, <3>2, <1>2
    <2> QED BY <2>3
<1>5. Min(S) \in S /\ \A s \in S : Min(S) <= s
    BY <1>3 DEF Min
<1>6. Max(S) \in S /\ \A s \in S : Max(S) >= s
    BY <1>4 DEF Max
<1>7. \A s \in S : s <= Max(S)
    BY <1>2, <1>6
<1> QED BY <1>5, <1>6, <1>7

\* The bars with one key follow one another.
LEMMA KeysInOrder ==
    ASSUME NEW t \in Nat \ {0}, NEW u \in Nat \ {0}, NEW width \in {1, 3}
    PROVE  /\ t <= u => BucketKey(t, width) <= BucketKey(u, width)
           /\ BucketKey(t, width) = BucketKey(u, width) => u < t + width
           /\ BucketKey(t, width) \in Int
<1>1. CASE width = 1
    BY <1>1 DEF BucketKey
<1>2. CASE width = 3
    BY <1>2 DEF BucketKey
<1> QED BY <1>1, <1>2


-----------------------------------------------------------------------------
(* The steps.                                                              *)

\* The invariant holds before the first query.
LEMMA InitRange == RangeInit => RangeInv
<1> SUFFICES ASSUME RangeInit PROVE RangeInv
    OBVIOUS
<1>1. RangeTypeOK
    BY RangeAssumption DEF RangeInit, RangeTypeOK
<1> QED BY <1>1 DEF RangeInit, RangeInv, HighBelowLimit, LowIsLater, ReadSoFar, NoHoles, OnlyInRange,
    TooManyIsTrue

\* The look at the newest bar keeps the invariant.
LEMMA LatestStep ==
    ASSUME RangeInv, Latest
    PROVE  RangeInv'
<1> USE DEF Latest, query
<1>1. RangeTypeOK /\ phase = "latest" /\ high = 1 /\ bars = {} /\ pageOffset = 0
    BY DEF RangeInv, HighBelowLimit, OnlyInRange
<1>2. RangeTypeOK'
    BY <1>1 DEF RangeTypeOK
<1>3. phase' = "read" => \A t \in InRange(lenBefore) : ~(t > len)
    BY <1>1 DEF InRange, RangeTypeOK
<1>4. InRange(lenBefore)' = InRange(lenBefore) /\ InRange(len)' = InRange(len)
    BY DEF InRange
<1>5. NoHoles' /\ OnlyInRange' /\ TooManyIsTrue'
    BY <1>1, <1>4 DEF NoHoles, OnlyInRange, TooManyIsTrue, InRange
<1>6. HighBelowLimit'
    BY <1>1, RangeAssumption DEF HighBelowLimit
<1>7. LowIsLater'
    <2>1. low = 0 /\ high = 1 /\ low' = low /\ high' = high
        BY DEF RangeInv, HighBelowLimit
    <2>2. phase' \in {"double", "bisect"} => Later(low)
        BY <2>1
    <2>3. Later(low)' = Later(low)
        BY <2>1 DEF Later
    <2> QED BY <2>1, <2>2, <2>3 DEF LowIsLater
<1>8. ReadSoFar'
    BY <1>1, <1>3, <1>4 DEF ReadSoFar, RangeTypeOK
<1> QED BY <1>2, <1>5, <1>6, <1>7, <1>8 DEF RangeInv

\* Doubling keeps the invariant: the low end stays later than the interval.
LEMMA DoubleStep ==
    ASSUME RangeInv, Double
    PROVE  RangeInv'
<1> USE DEF Double, query
<1>1. /\ RangeTypeOK /\ phase = "double" /\ high < MaxSearch
      /\ low < high /\ Later(low) /\ bars = {} /\ pageOffset = 0
    BY DEF RangeInv, HighBelowLimit, LowIsLater, OnlyInRange
<1>2. /\ phase' \in {"double", "bisect"} /\ low' \in 0..MaxSearch /\ high' \in 1..MaxSearch
      /\ low' < high' /\ Later(low')
      /\ phase' = "double" => high' < MaxSearch
    <2>1. CASE ~Later(high)
        BY <1>1, <2>1 DEF RangeTypeOK
    <2>2. CASE Later(high)
        <3>1. low' = high
            BY <2>2 DEF LowAfter
        <3>2. MaxSearch \in Nat /\ high \in 1..MaxSearch
            BY RangeAssumption, <1>1 DEF RangeTypeOK
        <3>3. CASE high >= MaxSearch \div 2
            BY <1>1, <2>2, <3>1, <3>2, <3>3 DEF HighAfter
        <3>4. CASE ~(high >= MaxSearch \div 2)
            <4>1. high' = 2 * high /\ 2 * high < MaxSearch
                BY <2>2, <3>2, <3>4 DEF HighAfter
            <4> QED BY <1>1, <2>2, <3>1, <3>2, <4>1
        <3> QED BY <3>3, <3>4
    <2> QED BY <2>1, <2>2
<1>3. Later(low)'
    BY <1>1, <1>2 DEF Later
<1>4. RangeTypeOK'
    BY <1>1, <1>2 DEF RangeTypeOK
<1> QED BY <1>1, <1>2, <1>3, <1>4
        DEF RangeInv, HighBelowLimit, LowIsLater, ReadSoFar, NoHoles, OnlyInRange, TooManyIsTrue, InRange

\* Bisection keeps the invariant, however many bars are added meanwhile.
LEMMA BisectStep ==
    ASSUME RangeInv, Bisect
    PROVE  RangeInv'
<1> USE DEF Bisect, query
<1>1. /\ RangeTypeOK /\ phase = "bisect" /\ low < high /\ Later(low) /\ bars = {} /\ pageOffset = 0
    BY DEF RangeInv, LowIsLater, OnlyInRange
<1>2. Middle \in Nat /\ low < Middle /\ Middle < high
    BY <1>1 DEF RangeTypeOK, Middle
<1>3. /\ low' \in 0..MaxSearch /\ high' \in 1..MaxSearch /\ low' < high' /\ Later(low')
    BY <1>1, <1>2, RangeAssumption DEF RangeTypeOK, LowAfter
<1>4. Later(low)'
    BY <1>1, <1>3 DEF Later
<1>5. RangeTypeOK'
    BY <1>1, <1>3 DEF RangeTypeOK
<1> QED BY <1>1, <1>3, <1>4, <1>5
        DEF RangeInv, HighBelowLimit, LowIsLater, ReadSoFar, NoHoles, OnlyInRange, TooManyIsTrue, InRange

\* The last look at the bar found keeps the invariant.
LEMMA CandidateStep ==
    ASSUME RangeInv, Candidate
    PROVE  RangeInv'
<1> USE DEF Candidate, query
<1>1. /\ RangeTypeOK /\ phase = "bisect" /\ low < high /\ Later(low) /\ bars = {}
    BY DEF RangeInv, LowIsLater, OnlyInRange
<1>2. RangeTypeOK'
    BY <1>1 DEF RangeTypeOK
<1>3. phase' = "read" => \A t \in InRange(lenBefore) : ~(t > len - pageOffset')
    <2> SUFFICES ASSUME phase' = "read", NEW t \in InRange(lenBefore)
                 PROVE  ~(t > len - high)
        OBVIOUS
    <2>1. /\ len \in Nat /\ rangeEnd \in Nat /\ low \in Nat /\ high \in Nat
          /\ low + 1 >= high /\ low < high /\ len - low > rangeEnd
        BY <1>1 DEF RangeTypeOK, Later
    <2>2. t \in Int /\ t <= rangeEnd
        BY <1>1 DEF InRange, RangeTypeOK
    <2> QED BY <2>1, <2>2
<1>4. phase' \in {"read", "notFound"}
    OBVIOUS
<1>5. ReadSoFar'
    BY <1>1, <1>3, <1>4 DEF ReadSoFar, InRange
<1> QED BY <1>1, <1>2, <1>4, <1>5
        DEF RangeInv, HighBelowLimit, LowIsLater, NoHoles, OnlyInRange, TooManyIsTrue, InRange

\* Reading a page keeps the invariant: it leaves no hole to the pages before.
LEMMA ReadStep ==
    ASSUME RangeInv, Read
    PROVE  RangeInv'
<1> USE DEF query
<1> DEFINE page == OnPage(pageOffset)
           all  == bars \cup {t \in page : rangeStart <= t /\ t <= rangeEnd}
<1>1. /\ RangeTypeOK /\ phase = "read" /\ ReadSoFar /\ NoHoles /\ bars \subseteq InRange(len)
      /\ len \in Nat /\ pageOffset \in Nat /\ lenBefore \in Nat /\ lenBefore <= len
      /\ rangeStart \in Nat \ {0} /\ rangeEnd \in Nat \ {0}
      /\ RangePage \in Nat \ {0} /\ MaxBars \in Nat
      /\ bars \subseteq rangeStart..rangeEnd
    BY RangeAssumption DEF Read, RangeInv, OnlyInRange, RangeTypeOK
<1>2. /\ page \subseteq 1..len /\ IsFiniteSet(page)
      /\ Cardinality(page) < RangePage => len - pageOffset < RangePage
    BY <1>1, PageFacts
<1>3. /\ UNCHANGED <<len, lenBefore, rangeStart, rangeEnd, low, high>>
      /\ \/ TooManyBars(all) /\ phase' = "tooMany" /\ pageOffset' = pageOffset /\ bars' = bars
         \/ ~TooManyBars(all) /\ bars' = all /\ NothingLeft(page) /\ phase' = "done" /\ pageOffset' = pageOffset
         \/ ~TooManyBars(all) /\ bars' = all /\ phase' = "read" /\ pageOffset' = pageOffset + RangePage
    BY <1>1 DEF Read, NextPageOffset
<1> HIDE DEF page
<1>4. all \subseteq InRange(len)
    BY <1>1, <1>2 DEF InRange
<1>5. all \subseteq rangeStart..rangeEnd
    BY <1>4 DEF InRange
<1>6. RangeTypeOK'
    BY <1>1, <1>3, <1>5 DEF RangeTypeOK
\* What is still older than the page is either of no use or on the next page.
<1>7. ASSUME NEW u \in rangeStart..rangeEnd, u <= len - pageOffset, NothingLeft(page), u <= len
      PROVE  u \in all
    <2>1. u > len - pageOffset - RangePage
        <3>1. CASE \E t \in page : t < rangeStart
            BY <1>1, <3>1 DEF page, OnPage
        <3>2. CASE Cardinality(page) < RangePage
            BY <1>1, <1>2, <3>2
        <3> QED BY <1>7, <3>1, <3>2 DEF NothingLeft
    <2>2. u \in page
        BY <1>1, <1>7, <2>1 DEF page, OnPage
    <2> QED BY <1>1, <2>2
<1>8. ASSUME NEW u \in rangeStart..rangeEnd, u <= len - pageOffset, u > len - (pageOffset + RangePage), u <= len
      PROVE  u \in all
    <2>1. u \in page
        BY <1>1, <1>8 DEF page, OnPage
    <2> QED BY <1>1, <2>1
<1>9. InRange(lenBefore)' = InRange(lenBefore) /\ InRange(len)' = InRange(len)
    BY <1>3 DEF InRange
<1>10. InRange(lenBefore) \subseteq rangeStart..rangeEnd /\ \A u \in InRange(lenBefore) : u <= len
    BY <1>1 DEF InRange
<1>11. ReadSoFar'
    <2>1. \A u \in InRange(lenBefore) : u \in all \/ u <= len - pageOffset
        BY <1>1, <1>10 DEF ReadSoFar
    <2>2. CASE phase' = "tooMany"
        BY <2>2 DEF ReadSoFar
    <2>3. CASE phase' = "done"
        BY <1>3, <1>7, <1>9, <1>10, <2>1, <2>3 DEF ReadSoFar
    <2>4. CASE phase' = "read"
        BY <1>1, <1>3, <1>8, <1>9, <1>10, <2>1, <2>4 DEF ReadSoFar
    <2> QED BY <1>3, <2>2, <2>3, <2>4
<1>12. NoHoles'
    <2>1. \A t \in all : \A u \in rangeStart..t :
            u \in rangeStart..rangeEnd /\ u <= len /\ (u \in all \/ u <= len - pageOffset)
        <3> SUFFICES ASSUME NEW t \in all, NEW u \in rangeStart..t
                     PROVE  u \in rangeStart..rangeEnd /\ u <= len /\ (u \in all \/ u <= len - pageOffset)
            OBVIOUS
        <3>1. t \in rangeStart..rangeEnd /\ t \in 1..len
            BY <1>4 DEF InRange
        <3>2. u \in rangeStart..rangeEnd /\ u <= len
            BY <1>1, <3>1
        <3>3. CASE t \in bars
            BY <1>1, <3>2, <3>3 DEF NoHoles
        <3>4. CASE t \in page
            BY <1>1, <3>2, <3>4 DEF page, OnPage
        <3> QED BY <3>2, <3>3, <3>4
    <2>2. CASE phase' = "tooMany"
        BY <2>2 DEF NoHoles
    <2>3. CASE phase' = "done"
        <3>1. \A t \in all : \A u \in rangeStart..t : u \in all
            BY <1>3, <1>7, <2>1, <2>3
        <3> QED BY <1>3, <2>3, <3>1 DEF NoHoles
    <2>4. CASE phase' = "read"
        <3>1. \A t \in all : \A u \in rangeStart..t : u \in all \/ u <= len - (pageOffset + RangePage)
            <4> SUFFICES ASSUME NEW t \in all, NEW u \in rangeStart..t, u \notin all
                         PROVE  u <= len - (pageOffset + RangePage)
                OBVIOUS
            <4>1. u \in rangeStart..rangeEnd /\ u <= len /\ u <= len - pageOffset
                BY <2>1
            <4> QED BY <1>1, <1>8, <4>1
        <3> QED BY <1>3, <2>4, <3>1 DEF NoHoles
    <2> QED BY <1>3, <2>2, <2>3, <2>4
<1>13. TooManyIsTrue'
    <2> SUFFICES ASSUME TooManyBars(all) PROVE Cardinality(InRange(len)) > MaxBars
        BY <1>3, <1>9 DEF TooManyIsTrue
    <2>1. IsFiniteSet(InRange(len))
        BY <1>1, InRangeFinite
    <2>2. IsFiniteSet(all) /\ Cardinality(all) <= Cardinality(InRange(len))
        BY <1>4, <2>1, FS_Subset
    <2>3. Cardinality(all) \in Nat /\ Cardinality(InRange(len)) \in Nat
        BY <2>1, <2>2, FS_CardinalityType
    <2> QED BY <1>1, <2>2, <2>3 DEF TooManyBars
<1>14. OnlyInRange'
    BY <1>1, <1>3, <1>4, <1>9 DEF OnlyInRange
<1> QED BY <1>1, <1>3, <1>6, <1>11, <1>12, <1>13, <1>14 DEF RangeInv, HighBelowLimit, LowIsLater

\* A query that ends without an answer.
LEMMA FailStep ==
    ASSUME RangeInv, OutOfRange \/ RangeFails
    PROVE  RangeInv'
BY DEF RangeInv, OutOfRange, RangeFails, query, RangeTypeOK, HighBelowLimit, LowIsLater, ReadSoFar,
       NoHoles, OnlyInRange, TooManyIsTrue, InRange

\* A new bar moves every offset one further.
LEMMA NewBarStep ==
    ASSUME RangeInv, NewBar
    PROVE  RangeInv'
<1> USE DEF NewBar, query
<1>1. /\ RangeTypeOK /\ len \in Nat /\ len' = len + 1 /\ pageOffset \in Nat
      /\ lenBefore \in Nat /\ lenBefore <= len /\ low \in Nat
    BY DEF RangeInv, RangeTypeOK
<1>2. RangeTypeOK'
    BY <1>1 DEF RangeTypeOK
<1>3. InRange(lenBefore)' = InRange(lenBefore) /\ InRange(len)' = InRange(len + 1)
    BY <1>1 DEF InRange
<1>4. InRange(len) \subseteq InRange(len)'
    BY <1>1, <1>3, InRangeFinite
<1>5. LowIsLater'
    <2>1. Later(low) => Later(low)'
        BY <1>1, LaterStays
    <2> QED BY <2>1 DEF RangeInv, LowIsLater
<1>6. ReadSoFar'
    <2>1. \A t \in InRange(lenBefore) : t \in Int
        BY DEF InRange
    <2> QED BY <1>1, <1>3, <2>1 DEF RangeInv, ReadSoFar
<1>7. NoHoles'
    BY <1>1 DEF RangeInv, NoHoles
<1>8. OnlyInRange'
    BY <1>4 DEF RangeInv, OnlyInRange
<1>9. TooManyIsTrue'
    <2>1. IsFiniteSet(InRange(len)')
        BY <1>1, <1>3, InRangeFinite
    <2>2. IsFiniteSet(InRange(len)) /\ Cardinality(InRange(len)) <= Cardinality(InRange(len)')
        BY <1>4, <2>1, FS_Subset
    <2>3. Cardinality(InRange(len)) \in Nat /\ Cardinality(InRange(len)') \in Nat /\ MaxBars \in Nat
        BY <2>1, <2>2, FS_CardinalityType, RangeAssumption
    <2>4. Cardinality(InRange(len)') = Cardinality(InRange(len))'
        OBVIOUS
    <2> QED BY <2>2, <2>3, <2>4 DEF RangeInv, TooManyIsTrue
<1> QED BY <1>2, <1>5, <1>6, <1>7, <1>8, <1>9 DEF RangeInv, HighBelowLimit

-----------------------------------------------------------------------------
(* What follows from the invariant.                                        *)

\* Every step of the query, and every new bar, keeps the invariant.
LEMMA RangeKeeps ==
    ASSUME RangeInv, [RangeNext]_rangeVars
    PROVE  RangeInv'
<1>1. CASE Fetch
    BY <1>1, LatestStep, DoubleStep, BisectStep, CandidateStep, ReadStep, FailStep DEF Fetch
<1>2. CASE RangeFails
    BY <1>2, FailStep
<1>3. CASE NewBar
    BY <1>3, NewBarStep
<1>4. CASE UNCHANGED rangeVars
    BY <1>4 DEF rangeVars, query, RangeInv, RangeTypeOK, HighBelowLimit, LowIsLater, Later, ReadSoFar,
                NoHoles, OnlyInRange, TooManyIsTrue, InRange
<1> QED BY <1>1, <1>2, <1>3, <1>4 DEF RangeNext

\* RangeInv is an invariant of the query, whatever the history does meanwhile.
THEOREM RangeInvariant == RangeSpec => []RangeInv
<1> QED BY InitRange, RangeKeeps, PTL DEF RangeSpec

\* The low end of the search is too late; no bar of the interval is before the offset it found.
LEMMA SearchBracketed == RangeInv => SearchBrackets
<1> SUFFICES ASSUME RangeInv PROVE SearchBrackets
    OBVIOUS
<1>1. phase \in {"double", "bisect"} => low < high /\ (low > 0 => Later(low))
    BY DEF RangeInv, LowIsLater
<1>2. ASSUME phase = "read", bars = {}, NEW t \in InRange(lenBefore)
      PROVE  t <= len - pageOffset
    <2>1. t \in Int /\ len \in Int /\ pageOffset \in Int
        BY DEF RangeInv, RangeTypeOK, InRange
    <2> QED BY <1>2, <2>1 DEF RangeInv, ReadSoFar
<1> QED BY <1>1, <1>2 DEF SearchBrackets

\* locateEndOffset keeps the end of the interval between low and high, and reads from an offset
\* that no bar of the interval is before.
THEOREM SearchIsRight == RangeSpec => []SearchBrackets
BY SearchBracketed, RangeInvariant, PTL

\* When the last page is read every bar of the interval is among those read.
LEMMA AnswerComplete == RangeInv => Complete
BY DEF RangeInv, ReadSoFar, OnlyInRange, Complete

\* An answered query has every bar of its interval that there was when it began, and no other.
THEOREM AnswersComplete == RangeSpec => []Complete
BY AnswerComplete, RangeInvariant, PTL

\* An interval that was refused as too large has more bars than an answer may have.
LEMMA RefusalTrue == RangeInv => TooManyIsTrue
BY DEF RangeInv

\* A query is refused as too long only if its interval has more bars than maxBarsPerRequest.
THEOREM RefusalsTrue == RangeSpec => []TooManyIsTrue
BY RefusalTrue, RangeInvariant, PTL

\* A group of bars is made of all the bars of the interval with its key, and the close
\* before it is that of the minute before: the bars collected have no hole.
LEMMA GroupsAreWhole ==
    ASSUME RangeInv, phase = "done", NEW width \in {1, 3}, NEW asked \in 1..rangeEnd,
           Max({1, RequestStart(asked, width)}) = rangeStart,
           NEW b \in Given(asked, width)
    PROVE  /\ \A t \in 1..lenBefore :
                BucketKey(t, width) = BucketKey(Max(b), width) /\ t <= rangeEnd => t \in b
           /\ CloseBefore(b, width) = Min(b) - 1
<1>1. /\ rangeStart \in Nat \ {0} /\ rangeEnd \in Nat \ {0} /\ lenBefore \in Nat
      /\ bars \subseteq rangeStart..rangeEnd
      /\ InRange(lenBefore) \subseteq bars
      /\ \A t \in bars : \A u \in rangeStart..t : u \in bars
    BY DEF RangeInv, RangeTypeOK, ReadSoFar, NoHoles
<1>2. PICK k \in {BucketKey(t, width) : t \in bars} : b = {t \in bars : BucketKey(t, width) = k}
    BY DEF Given, Aggregated
<1>3. b # {} /\ b \subseteq 0..rangeEnd
    BY <1>1, <1>2
<1>4. /\ Max(b) \in b /\ \A t \in b : t <= Max(b)
      /\ Min(b) \in b /\ \A t \in b : Min(b) <= t
    BY <1>1, <1>3, Extremes
<1>5. asked <= Max(b) /\ Max(b) <= rangeEnd /\ BucketKey(Max(b), width) = k
    BY <1>2, <1>4 DEF Given
<1>6. rangeStart = 1 \/ rangeStart = RequestStart(asked, width)
    <2>1. RequestStart(asked, width) \in Int
        BY <1>1 DEF RequestStart
    <2>2. Max({1, RequestStart(asked, width)}) \in {1, RequestStart(asked, width)}
        BY <2>1 DEF Max
    <2> QED BY <2>2
<1>7. ASSUME NEW t \in 1..lenBefore, BucketKey(t, width) = k, t <= rangeEnd
      PROVE  t \in b
    <2>1. Max(b) \in Nat \ {0} /\ t \in Nat \ {0}
        BY <1>1, <1>2, <1>4
    <2>2. Max(b) < t + width
        BY <1>5, <1>7, <2>1, KeysInOrder
    <2>3. rangeStart <= t
        BY <1>1, <1>5, <1>6, <2>1, <2>2 DEF RequestStart
    <2>4. t \in bars
        BY <1>1, <1>7, <2>3 DEF InRange
    <2> QED BY <1>2, <1>7, <2>4
<1> DEFINE m == Min(b)
           earlier == {Max(a) : a \in {a \in Aggregated(width) : Max(a) < Max(b)}}
<1>8. m \in bars /\ m \in Nat \ {0} /\ BucketKey(m, width) = k /\ Max(b) \in bars
      /\ Max(b) \in Nat \ {0} /\ bars \subseteq Nat \ {0}
    BY <1>1, <1>2, <1>4
\* The groups before it are older than its first bar.
<1>9. ASSUME NEW a \in Aggregated(width), Max(a) < Max(b)
      PROVE  Max(a) \in bars /\ Max(a) < m
    <2>1. PICK j \in {BucketKey(t, width) : t \in bars} : a = {t \in bars : BucketKey(t, width) = j}
        BY DEF Aggregated
    <2>2. a # {} /\ a \subseteq 0..rangeEnd
        BY <1>1, <2>1
    <2>3. Max(a) \in a /\ \A t \in a : t <= Max(a)
        BY <1>1, <2>2, Extremes
    <2>4. Max(a) \in bars /\ Max(a) \in Nat \ {0} /\ BucketKey(Max(a), width) = j
        BY <1>8, <2>1, <2>3
    <2>5. ASSUME m <= Max(a) PROVE FALSE
        <3>1. BucketKey(m, width) <= j /\ j <= k /\ j \in Int /\ k \in Int
            BY <1>5, <1>8, <1>9, <2>4, <2>5, KeysInOrder
        <3>2. a = b
            BY <1>2, <1>8, <2>1, <3>1
        <3> QED BY <1>8, <1>9, <3>2
    <2> QED BY <1>8, <2>4, <2>5
\* If there is one, the bar before the first is its last.
<1>10. ASSUME earlier # {}
       PROVE  m - 1 \in earlier
    <2>1. PICK a \in Aggregated(width) : Max(a) < Max(b)
        BY <1>10
    <2>2. Max(a) \in bars /\ Max(a) < m
        BY <1>9, <2>1
    <2>3. m - 1 \in bars
        BY <1>1, <1>8, <2>2
    <2> DEFINE c == {t \in bars : BucketKey(t, width) = BucketKey(m - 1, width)}
    <2>4. c \in Aggregated(width)
        BY <2>3 DEF Aggregated
    <2>5. m - 1 \in c /\ c \subseteq 0..rangeEnd
        <3>1. c \subseteq bars /\ bars \subseteq 0..rangeEnd
            BY <1>1
        <3> QED BY <2>3, <3>1
    <2>6. BucketKey(m - 1, width) # k
        <3>1. m - 1 \notin b
            BY <1>4, <1>8
        <3> QED BY <1>2, <2>3, <3>1
    <2>7. Max(c) \in c /\ \A t \in c : t <= Max(c)
        <3> HIDE DEF c
        <3> QED BY <1>1, <2>5, Extremes
    <2>8. \A t \in c : t <= m - 1
        <3> SUFFICES ASSUME NEW t \in c, t > m - 1 PROVE FALSE
            BY <1>8
        <3>1. t \in Nat \ {0} /\ m - 1 \in Nat \ {0} /\ m <= t
            BY <1>8, <2>3
        <3>2. k <= BucketKey(t, width) /\ BucketKey(m - 1, width) <= k
            BY <1>8, <3>1, KeysInOrder
        <3>3. BucketKey(t, width) = BucketKey(m - 1, width)
            OBVIOUS
        <3>4. BucketKey(m - 1, width) \in Int /\ k \in Int
            BY <1>8, <3>1, KeysInOrder
        <3> QED BY <2>6, <3>2, <3>3, <3>4
    <2>9. Max(c) = m - 1
        <3> HIDE DEF c
        <3>1. Max(c) <= m - 1 /\ m - 1 <= Max(c)
            BY <2>5, <2>7, <2>8
        <3> QED BY <1>8, <2>5, <2>7, <3>1
    <2>10. Max(c) < Max(b)
        BY <1>4, <1>8, <2>9
    <2> QED BY <2>4, <2>9, <2>10
<1>11. CloseBefore(b, width) = m - 1
    <2>1. CASE earlier = {}
        BY <2>1 DEF CloseBefore
    <2>2. CASE earlier # {}
        <3>1. \A t \in earlier : t \in bars /\ t < m
            BY <1>9
        <3>2. m - 1 \in earlier /\ \A t \in earlier : m - 1 >= t
            BY <1>8, <1>10, <2>2, <3>1
        <3>3. \A x \in earlier : (\A t \in earlier : x >= t) => x = m - 1
            BY <1>8, <3>1, <3>2
        <3>4. Max(earlier) = m - 1
            <4> HIDE DEF earlier
            <4> QED BY <3>2, <3>3 DEF Max
        <3> QED BY <2>2, <3>4 DEF CloseBefore
    <2> QED BY <2>1, <2>2
<1> QED BY <1>5, <1>7, <1>11

\* The groups of three of what was read are whole.
LEMMA BarsWhole == RangeInv => WholeBars
BY GroupsAreWhole DEF WholeBars

\* fetch never gives a bar put together of only some of its minutes, nor one whose change is
\* computed from a close that is not that of the minute before.
THEOREM BarsAreWhole == RangeSpec => []WholeBars
BY BarsWhole, RangeInvariant, PTL

-----------------------------------------------------------------------------
(***************************************************************************)
(* The auction service's search, for every size of page and of day.        *)
(*                                                                         *)
(* A bar that comes during the search moves every earlier one to a greater *)
(* offset.  The pages therefore overlap: the day whose first bar is at     *)
(* less than the offset reached stays so until it is read (FirstBar), and  *)
(* the pages leave out none of the days that had begun when the call was   *)
(* made (FoundSoFar); the same of the pages of daily bars, among the days  *)
(* that are earlier than a date (DailyReadSoFar).  So the days read have   *)
(* no gap below a date, and the greatest earlier one is the day before.  A *)
(* date that has no earlier day at the end of the pages is older than all  *)
(* that the search reaches, and to leave it out leaves no gap either.      *)
(* With a day of a single minute a date could be found whose day before    *)
(* is beyond the limit of daily bars, and Enough would fail; a trading day *)
(* has 240 (AuctionAssumption).                                            *)
(***************************************************************************)

\* The first bar of day d is that of so many minutes ago.
FirstBar(d) == MinuteBars - 1 - (d - 1) * Minutes

GivenDays == {rows[i][1] : i \in DOMAIN rows}

\* The dates still to be looked at that have a day before.
Left == {d \in ToSet(dates) : Earlier(d) # {}}

\* The days that the search for dates is sure to find.
Reach == {d \in 2..firstDay : (today - d + 1) * Minutes <= MaxOffset}

Typed ==
  /\ step \in {"dates", "previous", "deals", "answered", "failed"}
  /\ days \in 1..MaxDays /\ offset \in Nat
  /\ today \in 1..LastDay /\ minute \in 1..Minutes /\ deals \subseteq 1..today /\ firstDay \in 1..today
  /\ found \subseteq 1..today /\ read \subseteq 1..today
  /\ dates \in Seq(Nat) /\ ToSet(dates) \subseteq found
  /\ rows \in Seq(Nat \X Nat) /\ Len(rows) + Len(dates) <= days

InOrder ==
  /\ \A i, j \in DOMAIN dates : i < j => dates[i] > dates[j]
  /\ \A i, j \in DOMAIN rows : i < j => rows[i][1] > rows[j][1]
  /\ \A i \in DOMAIN rows, j \in DOMAIN dates : rows[i][1] > dates[j]

NotYet ==
  /\ step = "dates" => dates = << >> /\ read = {}
  /\ step \in {"dates", "previous"} => rows = << >>
  /\ step = "answered" => dates = << >>

\* The pages of minute bars leave no day out,
FoundSoFar ==
  /\ \A e \in found : \A d \in e..firstDay : d \in found
  /\ step = "dates" => \A d \in 1..firstDay : FirstBar(d) < offset => d \in found
  /\ step = "previous" => Cardinality(found) >= days \/ Reach \subseteq found

\* the dates are the latest of those found,
DatesLatest ==
  step = "previous" =>
    /\ \A e \in ToSet(dates) : \A d \in found : d > e => d \in ToSet(dates)
    /\ Cardinality(ToSet(dates)) >= days \/ ToSet(dates) = found

\* and the pages of daily bars leave no day out either.
DailyReadSoFar ==
  /\ \A e \in read, date \in ToSet(dates) : \A d \in e..(date - 1) : d \in read
  /\ step = "previous" =>
       \A d \in 1..today : d + offset > today /\ (d <= firstDay \/ \E date \in ToSet(dates) : d < date)
                           => d \in read

RowsRight ==
  \A i \in DOMAIN rows : rows[i][2] = rows[i][1] - 1 /\ rows[i][2] \in read /\ rows[i][1] \in found

NoneLeftOut ==
  step \in {"deals", "answered"} =>
    \A d \in (2..firstDay) \cap deals : \A g \in GivenDays \cup Left : g < d => d \in GivenDays \cup ToSet(dates)

Enough ==
  step \in {"deals", "answered"} /\ 1..today \subseteq deals =>
    Cardinality(GivenDays \cup Left) >= days \/ Reach \subseteq GivenDays \cup Left

AuctionInv ==
  /\ Typed /\ InOrder /\ NotYet /\ FoundSoFar /\ DatesLatest /\ DailyReadSoFar /\ RowsRight /\ NoneLeftOut /\ Enough

-----------------------------------------------------------------------------
(* Days and bars.                                                          *)

\* The sizes of AuctionAssumption are natural numbers.
LEMMA Sizes ==
    /\ BarPage \in Nat /\ BarPage > 0 /\ MaxOffset \in Nat /\ MaxOffset > 0 /\ Minutes \in Nat /\ Minutes > 1
    /\ MaxDays \in Nat /\ LastDay \in Nat
BY AuctionAssumption

\* Multiplying by the length of a day keeps the order and distributes.
LEMMA TimesMinutes ==
    ASSUME NEW a \in Int, NEW b \in Int, a <= b
    PROVE  a * Minutes \in Int /\ b * Minutes \in Int /\ a * Minutes <= b * Minutes
           /\ (b - a) * Minutes = b * Minutes - a * Minutes
BY Sizes

\* A day of the history has a first minute bar, which is the only one in the first place of that day.
LEMMA BarsOfDays ==
    ASSUME today \in Nat \ {0}, minute \in 1..Minutes
    PROVE  /\ MinuteBars \in Nat /\ MinuteBars <= today * Minutes
           /\ \A d \in 1..today : FirstBar(d) \in Nat /\ DayOf(FirstBar(d)) = d /\ PlaceOf(FirstBar(d)) = 1
           /\ \A o \in Nat : o < MinuteBars /\ PlaceOf(o) = 1 =>
                /\ DayOf(o) \in 1..today /\ FirstBar(DayOf(o)) = o
<1>1. MinuteBars \in Nat /\ MinuteBars <= today * Minutes /\ MinuteBars = (today - 1) * Minutes + minute
    BY Sizes DEF MinuteBars
<1>2. ASSUME NEW d \in 1..today
      PROVE  FirstBar(d) \in Nat /\ DayOf(FirstBar(d)) = d /\ PlaceOf(FirstBar(d)) = 1
    <2> DEFINE p == (d - 1) * Minutes
               q == (today - 1) * Minutes
    <2>1. p <= q /\ p \in Int /\ q \in Int /\ p \div Minutes = d - 1 /\ p % Minutes = 0
        BY TimesMinutes, Sizes
    <2>2. MinuteBars = q + minute /\ FirstBar(d) = MinuteBars - 1 - p
        BY <1>1 DEF FirstBar
    <2> HIDE DEF p, q
    <2>3. FirstBar(d) \in Nat /\ MinuteBars - FirstBar(d) - 1 = p
        BY <1>1, <2>1, <2>2
    <2> QED BY <2>1, <2>3 DEF DayOf, PlaceOf
<1>3. ASSUME NEW o \in Nat, o < MinuteBars, PlaceOf(o) = 1
      PROVE  DayOf(o) \in 1..today /\ FirstBar(DayOf(o)) = o
    <2> DEFINE x == MinuteBars - o - 1
    <2>0. x \in Nat /\ x < MinuteBars /\ PlaceOf(o) = (x % Minutes) + 1
        BY <1>1, <1>3 DEF PlaceOf
    <2> HIDE DEF x
    <2>1. x \in Nat /\ x < today * Minutes /\ x % Minutes = 0
        <3>1. x % Minutes \in Int
            BY <2>0, Sizes
        <3>2. today * Minutes \in Int
            BY Sizes
        <3> QED BY <1>1, <1>3, <2>0, <3>1, <3>2
    <2>2. x \div Minutes \in Nat /\ x = (x \div Minutes) * Minutes
        BY <2>1, Sizes
    <2>3. x \div Minutes < today
        BY <2>1, <2>2, Sizes
    <2>4. DayOf(o) = (x \div Minutes) + 1
        BY DEF DayOf, x
    <2> QED BY <1>1, <2>2, <2>3, <2>4 DEF FirstBar, x
<1> QED BY <1>1, <1>2, <1>3

\* A page of minute bars has the days whose first bars are in it, and ends the list if it is short.
LEMMA PageOfMinutes ==
    ASSUME today \in Nat \ {0}, minute \in 1..Minutes, offset \in Nat
    PROVE  /\ {DayOf(o) : o \in {o \in MinutePage : PlaceOf(o) = 1}}
                = {d \in 1..today : FirstBar(d) \in offset..(offset + BarPage - 1)}
           /\ Cardinality(MinutePage) < BarPage => \A d \in 1..today : FirstBar(d) <= offset + BarPage - 1
<1>1. MinuteBars \in Nat
    BY BarsOfDays
<1>2. \A o \in Int : o \in MinutePage <=> o >= offset /\ o < offset + BarPage /\ o < MinuteBars
    BY <1>1, Sizes DEF MinutePage
<1>3. MinutePage \subseteq Nat
    BY <1>1, Sizes DEF MinutePage
<1>4. \A d \in 1..today : FirstBar(d) \in Nat /\ FirstBar(d) < MinuteBars
    <2>1. ASSUME NEW d \in 1..today PROVE FirstBar(d) < MinuteBars
        BY <1>1, Sizes DEF FirstBar
    <2> QED BY <2>1, BarsOfDays
<1>5. {DayOf(o) : o \in {o \in MinutePage : PlaceOf(o) = 1}}
        = {d \in 1..today : FirstBar(d) \in offset..(offset + BarPage - 1)}
    <2>1. ASSUME NEW o \in MinutePage, PlaceOf(o) = 1
          PROVE  DayOf(o) \in 1..today /\ FirstBar(DayOf(o)) \in offset..(offset + BarPage - 1)
        BY <1>2, <1>3, <2>1, BarsOfDays, Sizes
    <2>2. ASSUME NEW d \in 1..today, FirstBar(d) \in offset..(offset + BarPage - 1)
          PROVE  \E o \in MinutePage : PlaceOf(o) = 1 /\ DayOf(o) = d
        <3>1. FirstBar(d) \in MinutePage
            BY <1>2, <1>4, <2>2, Sizes
        <3> QED BY <3>1, BarsOfDays
    <2> QED BY <2>1, <2>2
<1>6. ASSUME Cardinality(MinutePage) < BarPage, NEW d \in 1..today
      PROVE  FirstBar(d) <= offset + BarPage - 1
    <2>1. CASE offset + BarPage < MinuteBars
        <3>1. MinutePage = offset..(offset + BarPage - 1)
            BY <1>1, <2>1, Sizes DEF MinutePage
        <3>2. Cardinality(MinutePage) = BarPage
            BY <3>1, FS_Interval, Sizes
        <3> QED BY <1>6, <3>2, Sizes
    <2>2. CASE ~(offset + BarPage < MinuteBars)
        BY <1>1, <1>4, <2>2, Sizes
    <2> QED BY <2>1, <2>2
<1> QED BY <1>5, <1>6

\* The same of a page of daily bars.
LEMMA PageOfDays ==
    ASSUME today \in Nat \ {0}, offset \in Nat
    PROVE  /\ DailyPage = {d \in 1..today : d + offset <= today /\ d + offset + BarPage > today}
           /\ Cardinality(DailyPage) < BarPage => \A d \in 1..today : d + offset + BarPage > today
<1>1. DailyPage = {d \in 1..today : d <= today - offset /\ d > today - (offset + BarPage)}
    BY Sizes DEF DailyPage
<1>2. ASSUME Cardinality(DailyPage) < BarPage, NEW d \in 1..today
      PROVE  d > today - (offset + BarPage)
    <2>1. CASE today - (offset + BarPage) >= 0
        <3>1. DailyPage = (today - offset - BarPage + 1)..(today - offset)
            BY <1>1, <2>1, Sizes
        <3>2. Cardinality(DailyPage) = BarPage
            BY <3>1, FS_Interval, Sizes
        <3> QED BY <1>2, <3>2, Sizes
    <2>2. CASE today - (offset + BarPage) < 0
        BY <2>2, Sizes
    <2> QED BY <2>1, <2>2, Sizes
<1>3. \A d \in 1..today : /\ d > today - (offset + BarPage) <=> d + offset + BarPage > today
                          /\ d <= today - offset <=> d + offset <= today
    BY Sizes
<1> QED BY <1>1, <1>2, <1>3

-----------------------------------------------------------------------------
(* The dates in order.                                                     *)

\* The latest n of the days S, newest first.
AreLatest(latest, S, n) ==
  /\ latest \in Seq(Nat) /\ ToSet(latest) \subseteq S /\ Len(latest) <= n
  /\ \A i, j \in DOMAIN latest : i < j => latest[i] > latest[j]
  /\ \A e \in ToSet(latest) : \A d \in S : d > e => d \in ToSet(latest)
  /\ Cardinality(ToSet(latest)) >= n \/ ToSet(latest) = S
  /\ S = {} => latest = << >>

\* The first so many of the days found, newest first, are the latest.
LEMMA LatestOnes ==
    ASSUME NEW S \in SUBSET Nat, IsFiniteSet(S), NEW all \in Descending(S), NEW n \in Nat \ {0},
           NEW latest, latest = SubSeq(all, 1, IF Len(all) > n THEN n ELSE Len(all))
    PROVE  AreLatest(latest, S, n)
<1> DEFINE size == Cardinality(S)
           m    == IF size > n THEN n ELSE size
<1>1. size \in Nat
    BY FS_CardinalityType
<1>2. /\ all \in [1..size -> S] /\ \A i, j \in 1..size : i # j => all[i] # all[j]
      /\ \A i, j \in 1..size : i < j => all[i] > all[j]
    BY DEF Descending, SetToSeqs
<1> HIDE DEF size
<1>3. all \in Seq(S) /\ Len(all) = size /\ all \in Seq(Nat)
    <2>1. all \in Seq(S)
        BY <1>1, <1>2
    <2>2. Len(all) = size
        BY <1>1, <1>2, <2>1, LenProperties
    <2>3. all \in [1..size -> Nat]
        BY <1>2
    <2> QED BY <1>1, <2>1, <2>2, <2>3
<1>4. m \in Nat /\ m <= size /\ m <= n /\ latest = SubSeq(all, 1, m) /\ (m = n \/ m = size)
    BY <1>1, <1>3
<1> HIDE DEF m
<1>5. /\ latest \in Seq(Nat) /\ Len(latest) = m /\ DOMAIN latest = 1..m
      /\ \A i \in 1..m : latest[i] = all[i]
    BY <1>1, <1>3, <1>4, SubSeqProperties, LenProperties
<1>6. /\ \A i \in 1..m : i \in 1..size /\ all[i] \in S /\ all[i] \in Nat /\ all[i] \in ToSet(latest)
      /\ \A x \in ToSet(latest) : \E i \in 1..m : x = all[i]
      /\ ToSet(latest) \subseteq S
    <2>1. \A i \in 1..m : i \in 1..size
        BY <1>1, <1>4
    <2>2. \A i \in 1..m : all[i] \in S /\ all[i] \in Nat
        BY <1>2, <2>1
    <2>3. ToSet(latest) = {latest[i] : i \in 1..m}
        BY <1>5 DEF ToSet
    <2> QED BY <1>5, <2>1, <2>2, <2>3
<1>7. \A d \in S : \E j \in 1..size : all[j] = d
    <2>1. all \in Injection(1..size, S)
        BY <1>2 DEF Injection, IsInjective
    <2>2. Cardinality(1..size) = size
        BY <1>1, FS_Interval
    <2>3. all \in Surjection(1..size, S)
        BY <2>1, <2>2, FS_Injection DEF size
    <2> QED BY <2>3 DEF Surjection
<1>8. ASSUME NEW i \in 1..m, NEW j \in 1..size, all[j] > all[i]
      PROVE  all[j] \in ToSet(latest)
    <2>1. j < i
        <3>1. all[i] \in Nat /\ i \in 1..size /\ all[j] \in Nat
            BY <1>2, <1>6
        <3>2. j # i
            BY <1>8, <3>1
        <3>3. ~(i < j)
            BY <1>2, <1>8, <3>1
        <3> QED BY <1>1, <1>4, <3>1, <3>2, <3>3
    <2> QED BY <1>1, <1>4, <1>6, <2>1
<1>9. Cardinality(ToSet(latest)) >= n \/ ToSet(latest) = S
    <2>1. CASE m = n
        <3>1. latest \in Injection(1..m, ToSet(latest))
            <4>1. latest \in [1..m -> ToSet(latest)]
                <5>1. latest \in [1..m -> Nat] /\ \A i \in 1..m : latest[i] \in ToSet(latest)
                    BY <1>5, <1>6, LenProperties
                <5> QED BY <5>1
            <4>2. \A i, j \in 1..m : latest[i] = latest[j] => i = j
                BY <1>1, <1>2, <1>4, <1>5
            <4> QED BY <4>1, <4>2, <1>5 DEF Injection, IsInjective
        <3>2. IsFiniteSet(ToSet(latest))
            BY <1>6, FS_Subset
        <3>3. Cardinality(1..m) <= Cardinality(ToSet(latest)) /\ Cardinality(1..m) = m
            BY <1>4, <3>1, <3>2, FS_Injection, FS_Interval
        <3> QED BY <2>1, <3>2, <3>3, FS_CardinalityType
    <2>2. CASE m = size
        <3>1. S \subseteq ToSet(latest)
            BY <1>6, <1>7, <2>2
        <3> QED BY <1>6, <3>1
    <2> QED BY <1>4, <2>1, <2>2
<1>10. \A i, j \in DOMAIN latest : i < j => latest[i] > latest[j]
    BY <1>1, <1>2, <1>4, <1>5
<1>11. S = {} => latest = << >>
    <2>1. S = {} => size = 0
        BY FS_EmptySet DEF size
    <2> QED BY <1>1, <1>4, <1>5, <2>1, EmptySeq
<1>12. \A e \in ToSet(latest) : \A d \in S : d > e => d \in ToSet(latest)
    BY <1>6, <1>7, <1>8, SMTT(30)
<1> QED BY <1>4, <1>5, <1>6, <1>9, <1>10, <1>11, <1>12 DEF AreLatest

-----------------------------------------------------------------------------
(* The steps.                                                              *)

\* The invariant holds before the first page.
LEMMA InitAuction == AuctionInit => AuctionInv
<1> SUFFICES ASSUME AuctionInit PROVE AuctionInv
    OBVIOUS
<1>1. dates = << >> /\ rows = << >> /\ found = {} /\ read = {} /\ step = "dates" /\ offset = 0
      /\ today \in 1..LastDay /\ minute \in 1..Minutes /\ firstDay = today /\ deals \subseteq 1..today
      /\ days \in 1..MaxDays
    BY DEF AuctionInit
<1>2. ToSet(dates) = {} /\ DOMAIN rows = {} /\ DOMAIN dates = {} /\ Len(rows) = 0 /\ Len(dates) = 0
      /\ dates \in Seq(Nat) /\ rows \in Seq(Nat \X Nat)
    BY <1>1 DEF ToSet
<1>3. Typed
    BY <1>1, <1>2, Sizes DEF Typed
<1>4. FoundSoFar
    <2>1. today \in Nat \ {0} /\ firstDay = today
        BY <1>1, Sizes
    <2>2. ASSUME NEW d \in 1..firstDay PROVE ~(FirstBar(d) < offset)
        BY <1>1, <2>1, BarsOfDays
    <2> QED BY <1>1, <2>2 DEF FoundSoFar
<1> QED BY <1>1, <1>2, <1>3, <1>4
        DEF AuctionInv, InOrder, NotYet, DatesLatest, DailyReadSoFar, RowsRight, NoneLeftOut, Enough

\* A new bar is later than everything that was read.
LEMMA NextBarStep ==
    ASSUME AuctionInv, NextBar
    PROVE  AuctionInv'
<1>1. /\ UNCHANGED <<step, days, offset, found, read, dates, rows, firstDay>>
      /\ \/ minute < Minutes /\ minute' = minute + 1 /\ UNCHANGED <<today, deals>>
         \/ minute = Minutes /\ today < LastDay /\ minute' = 1 /\ today' = today + 1
            /\ deals' \in {deals, deals \cup {today + 1}}
    BY DEF NextBar
<1>2. /\ today \in 1..LastDay /\ minute \in 1..Minutes /\ firstDay \in 1..today /\ deals \subseteq 1..today
      /\ offset \in Nat /\ found \subseteq 1..today /\ read \subseteq 1..today /\ ToSet(dates) \subseteq found
      /\ today \in Nat \ {0} /\ firstDay \in Nat \ {0} /\ minute \in Nat
    BY Sizes DEF AuctionInv, Typed
<1>3. /\ today' \in 1..LastDay /\ today' \in Nat \ {0} /\ today <= today' /\ minute' \in 1..Minutes
      /\ deals' \subseteq 1..today' /\ deals \subseteq deals' /\ deals' \cap (1..today) = deals
    <2>1. /\ today' \in 1..LastDay /\ today' \in Nat \ {0} /\ today <= today' /\ minute' \in 1..Minutes
        BY <1>1, <1>2, Sizes
    <2>2. deals' = deals \/ (deals' = deals \cup {today + 1} /\ today' = today + 1)
        BY <1>1
    <2>3. today + 1 \notin 1..today /\ 1..today \subseteq 1..today'
        BY <1>2, <2>1
    <2>4. deals \subseteq 1..today
        BY <1>2
    <2>5. deals' \subseteq 1..today'
        <3>1. CASE deals' = deals
            BY <2>3, <2>4, <3>1
        <3>2. CASE deals' = deals \cup {today + 1} /\ today' = today + 1
            <4>1. today' \in 1..today'
                BY <2>1
            <4> QED BY <2>3, <2>4, <3>2, <4>1
        <3> QED BY <2>2, <3>1, <3>2
    <2>6. deals \subseteq deals' /\ deals' \cap (1..today) = deals
        BY <2>2, <2>3, <2>4
    <2> QED BY <2>1, <2>5, <2>6
<1>4. MinuteBars <= MinuteBars' /\ MinuteBars \in Int /\ MinuteBars' \in Int
    <2>1. CASE minute < Minutes /\ minute' = minute + 1 /\ UNCHANGED today
        BY <1>2, <2>1, Sizes DEF MinuteBars
    <2>2. CASE minute = Minutes /\ minute' = 1 /\ today' = today + 1
        <3> DEFINE p == (today - 1) * Minutes
        <3>1. today * Minutes = p + Minutes /\ p \in Int
            BY <1>2, Sizes
        <3>2. MinuteBars = p + Minutes /\ MinuteBars' = p + Minutes + 1
            BY <1>2, <2>2, <3>1 DEF MinuteBars
        <3> HIDE DEF p
        <3> QED BY <3>1, <3>2, Sizes
    <2> QED BY <1>1, <2>1, <2>2
<1>5. Reach' \subseteq Reach
    <2> DEFINE minutesOf(t, d) == (t - d + 1) * Minutes
    <2>1. ASSUME NEW t \in Int, NEW u \in Int, NEW d \in Int, t <= u, minutesOf(u, d) <= MaxOffset
          PROVE  minutesOf(t, d) <= MaxOffset
        <3> DEFINE a == t - d + 1
                   b == u - d + 1
        <3>1. a \in Int /\ b \in Int /\ a <= b /\ b * Minutes <= MaxOffset
            BY <2>1
        <3> HIDE DEF a, b
        <3>2. a * Minutes <= MaxOffset
            BY <3>1, TimesMinutes, Sizes
        <3> QED BY <3>2 DEF a
    <2>2. /\ Reach = {d \in 2..firstDay : minutesOf(today, d) <= MaxOffset}
          /\ Reach' = {d \in 2..firstDay : minutesOf(today', d) <= MaxOffset}
        BY <1>1 DEF Reach
    <2> HIDE DEF minutesOf
    <2>3. ASSUME NEW d \in 2..firstDay, minutesOf(today', d) <= MaxOffset
          PROVE  minutesOf(today, d) <= MaxOffset
        BY <1>2, <1>3, <2>1, <2>3
    <2> QED BY <2>2, <2>3
<1>6. GivenDays' = GivenDays /\ Left' = Left /\ ToSet(dates)' = ToSet(dates)
    BY <1>1 DEF GivenDays, Left, Earlier, ToSet
<1>7. Typed'
    BY <1>1, <1>2, <1>3, <1>6 DEF AuctionInv, Typed
<1>8. InOrder' /\ NotYet' /\ RowsRight'
    BY <1>1 DEF AuctionInv, InOrder, NotYet, RowsRight
<1>9. FoundSoFar'
    <2>1. ASSUME NEW d \in 1..firstDay, FirstBar(d)' < offset
          PROVE  FirstBar(d) < offset
        <3>1. \A x, y, o, z \in Int : x <= y /\ y - 1 - z < o => x - 1 - z < o
            OBVIOUS
        <3>2. (d - 1) * Minutes \in Int
            BY <1>2, Sizes
        <3>3. FirstBar(d)' = MinuteBars' - 1 - (d - 1) * Minutes
            BY DEF FirstBar
        <3> QED BY <1>2, <1>4, <2>1, <3>1, <3>2, <3>3 DEF FirstBar
    <2> QED BY <1>1, <1>5, <2>1 DEF AuctionInv, FoundSoFar
<1>10. DatesLatest'
    BY <1>1, <1>6 DEF AuctionInv, DatesLatest
<1>11. DailyReadSoFar'
    <2>1. \A e \in read, date \in ToSet(dates) : \A d \in e..(date - 1) : d \in read
        BY DEF AuctionInv, DailyReadSoFar
    <2>2. ASSUME step = "previous", NEW d \in 1..today', d + offset > today',
                 d <= firstDay \/ \E date \in ToSet(dates) : d < date
          PROVE  d \in read
        <3>0. \A date \in ToSet(dates) : date \in 1..today
            BY <1>2
        <3>1. d \in 1..today /\ d + offset > today
            BY <1>2, <1>3, <2>2, <3>0
        <3> QED BY <2>2, <3>1 DEF AuctionInv, DailyReadSoFar
    <2> QED BY <1>1, <1>6, <2>1, <2>2 DEF DailyReadSoFar
<1>12. NoneLeftOut'
    <2>1. (2..firstDay) \cap deals' \subseteq (2..firstDay) \cap deals
        BY <1>2, <1>3
    <2> QED BY <1>1, <1>6, <2>1 DEF AuctionInv, NoneLeftOut
<1>13. Enough'
    <2>1. 1..today' \subseteq deals' => 1..today \subseteq deals
        BY <1>2, <1>3
    <2> QED BY <1>1, <1>5, <1>6, <2>1 DEF AuctionInv, Enough
<1> QED BY <1>7, <1>8, <1>9, <1>10, <1>11, <1>12, <1>13 DEF AuctionInv

\* A page of minute bars continues where the one before ended, or before it.
LEMMA DatesPageStep ==
    ASSUME AuctionInv, DatesPage
    PROVE  AuctionInv'
<1>1. /\ step = "dates" /\ offset < MaxOffset
      /\ found' = found \cup {DayOf(o) : o \in {o \in MinutePage : PlaceOf(o) = 1}}
      /\ offset' = IF Cardinality(MinutePage) < BarPage THEN MaxOffset ELSE offset + BarPage
      /\ UNCHANGED <<step, days, read, dates, rows, today, minute, deals, firstDay>>
    BY DEF DatesPage, Searching, NextPage, market
<1>2. /\ today \in 1..LastDay /\ minute \in 1..Minutes /\ firstDay \in 1..today /\ today \in Nat \ {0}
      /\ offset \in Nat /\ found \subseteq 1..today /\ dates = << >> /\ rows = << >> /\ read = {}
      /\ firstDay \in Nat
    BY <1>1, Sizes DEF AuctionInv, Typed, NotYet
<1>3. found' = found \cup {d \in 1..today : FirstBar(d) \in offset..(offset + BarPage - 1)}
    BY <1>1, <1>2, PageOfMinutes
<1>4. ToSet(dates) = {} /\ ToSet(dates)' = {} /\ DOMAIN rows = {}
    BY <1>1, <1>2 DEF ToSet
<1>5. Typed'
    <2>1. found' \subseteq 1..today
        BY <1>2, <1>3
    <2>2. offset' \in Nat
        BY <1>1, <1>2, Sizes
    <2> QED BY <1>1, <1>2, <1>4, <2>1, <2>2 DEF AuctionInv, Typed
<1>6. \A d \in 1..today : FirstBar(d) \in Nat
    BY <1>2, BarsOfDays
<1>7. \A d \in 1..firstDay : FirstBar(d) < offset => d \in found
    BY <1>1 DEF AuctionInv, FoundSoFar
<1>8. \A d \in 1..firstDay : FirstBar(d) <= offset + BarPage - 1 => d \in found'
    BY <1>2, <1>3, <1>6, <1>7, Sizes
<1>9. ASSUME NEW e \in found', NEW d \in e..firstDay
      PROVE  d \in found'
    <2>1. CASE e \in found
        BY <1>3, <1>9, <2>1 DEF AuctionInv, FoundSoFar
    <2>2. CASE e \in 1..today /\ FirstBar(e) \in offset..(offset + BarPage - 1)
        <3>1. d \in 1..firstDay /\ e - 1 \in Int /\ d - 1 \in Int /\ e - 1 <= d - 1
            BY <1>2, <1>9, <2>2
        <3> DEFINE p == (e - 1) * Minutes
                   q == (d - 1) * Minutes
        <3>2. p <= q /\ p \in Int /\ q \in Int
            BY <3>1, TimesMinutes
        <3>3. FirstBar(e) = MinuteBars - 1 - p /\ FirstBar(d) = MinuteBars - 1 - q /\ MinuteBars \in Nat
            BY <1>2, BarsOfDays DEF FirstBar
        <3> HIDE DEF p, q
        <3>4. FirstBar(d) <= FirstBar(e)
            BY <3>2, <3>3
        <3>5. FirstBar(d) <= offset + BarPage - 1
            BY <1>2, <2>2, <3>2, <3>3, <3>4, Sizes
        <3> QED BY <1>8, <3>1, <3>5
    <2> QED BY <1>3, <1>9, <2>1, <2>2
<1>10. ASSUME NEW d \in 1..firstDay, FirstBar(d) < offset'
       PROVE  d \in found'
    <2>1. d \in 1..today /\ FirstBar(d) \in Nat
        BY <1>2, <1>6
    <2>2. CASE Cardinality(MinutePage) < BarPage
        BY <1>2, <1>8, <2>1, <2>2, PageOfMinutes
    <2>3. CASE ~(Cardinality(MinutePage) < BarPage)
        <3>1. FirstBar(d) < offset + BarPage
            BY <1>1, <1>10, <2>3
        <3> QED BY <1>2, <1>8, <2>1, <3>1, Sizes
    <2> QED BY <2>2, <2>3
<1>11. FoundSoFar'
    <2>1. \A d \in 1..firstDay : FirstBar(d)' = FirstBar(d)
        BY <1>1 DEF MinuteBars, FirstBar
    <2> QED BY <1>1, <1>9, <1>10, <2>1 DEF FoundSoFar
<1>12. InOrder' /\ NotYet' /\ RowsRight' /\ DailyReadSoFar'
    BY <1>1, <1>2, <1>4 DEF AuctionInv, InOrder, NotYet, RowsRight, DailyReadSoFar
<1>13. DatesLatest' /\ NoneLeftOut' /\ Enough'
    BY <1>1 DEF DatesLatest, NoneLeftOut, Enough
<1> QED BY <1>5, <1>11, <1>12, <1>13 DEF AuctionInv

\* The days that the search reaches are at smaller offsets, in minutes and in days.
LEMMA ReachIsNear ==
    ASSUME today \in Nat \ {0}, minute \in 1..Minutes, firstDay \in 1..today, NEW d \in Reach
    PROVE  d \in 2..firstDay /\ FirstBar(d) < MaxOffset /\ d - 1 + MaxOffset > today
<1>1. d \in 2..firstDay /\ d \in Int /\ (today - d + 1) * Minutes <= MaxOffset
    BY DEF Reach
<1> DEFINE k == today - d + 1
           p == (d - 1) * Minutes
<1>2. MinuteBars \in Nat /\ MinuteBars <= today * Minutes
    BY BarsOfDays
<1>3. k \in Nat /\ k > 0 /\ k * Minutes <= MaxOffset /\ k * Minutes = today * Minutes - p
      /\ p \in Int /\ today * Minutes \in Int
    BY <1>1, Sizes
<1>4. FirstBar(d) = MinuteBars - 1 - p
    BY DEF FirstBar
<1>5. k < MaxOffset
    <2> HIDE DEF k, p
    <2>1. k < k * Minutes
        BY <1>3, Sizes
    <2> QED BY <1>3, <2>1, Sizes
<1>6. FirstBar(d) < MaxOffset
    <2> HIDE DEF k, p
    <2> QED BY <1>2, <1>3, <1>4, Sizes
<1> QED BY <1>1, <1>5, <1>6, Sizes

\* The dates found are finitely many.
LEMMA FoundIsFinite ==
    ASSUME Typed
    PROVE  IsFiniteSet(found) /\ Cardinality(found) \in Nat
<1>1. today \in Nat /\ found \subseteq 1..today
    BY Sizes DEF Typed
<1>2. IsFiniteSet(1..today)
    BY <1>1, FS_Interval
<1> QED BY <1>1, <1>2, FS_Subset, FS_CardinalityType

\* The dates taken are the latest of those found, and none that the search reaches is missing
\* but for their number.
LEMMA DatesFoundStep ==
    ASSUME AuctionInv, DatesFound
    PROVE  AuctionInv'
<1>0. IsFiniteSet(found) /\ Cardinality(found) \in Nat
    BY FoundIsFinite DEF AuctionInv
<1>1. /\ step = "dates" /\ (offset >= MaxOffset \/ Cardinality(found) >= days)
      /\ step' = IF found = {} THEN "answered" ELSE "previous"
      /\ offset' = 0 /\ UNCHANGED <<days, found, read, rows, today, minute, deals, firstDay>>
    BY <1>0, Sizes DEF DatesFound, Searching, market, AuctionInv, Typed
<1>2. /\ today \in Nat \ {0} /\ minute \in 1..Minutes /\ firstDay \in 1..today /\ found \subseteq 1..today
      /\ days \in Nat \ {0} /\ dates = << >> /\ rows = << >> /\ read = {} /\ offset \in Nat
    BY <1>1, Sizes DEF AuctionInv, Typed, NotYet
<1>3. PICK all \in Descending(found) : dates' = SubSeq(all, 1, IF Len(all) > days THEN days ELSE Len(all))
    BY DEF DatesFound
<1>4. /\ dates' \in Seq(Nat) /\ ToSet(dates') \subseteq found /\ Len(dates') <= days
      /\ \A i, j \in DOMAIN dates' : i < j => dates'[i] > dates'[j]
      /\ \A e \in ToSet(dates') : \A d \in found : d > e => d \in ToSet(dates')
      /\ Cardinality(ToSet(dates')) >= days \/ ToSet(dates') = found
      /\ found = {} => dates' = << >>
    <2>1. found \in SUBSET Nat
        BY <1>2
    <2>2. PICK latest : latest = dates'
        OBVIOUS
    <2>4. latest = SubSeq(all, 1, IF Len(all) > days THEN days ELSE Len(all)) /\ days \in Nat \ {0}
        BY <1>2, <1>3, <2>2
    <2>3. AreLatest(latest, found, days)
        BY <1>0, <2>1, <2>4, LatestOnes
    <2> QED BY <2>2, <2>3 DEF AreLatest
<1>5. ToSet(dates)' = ToSet(dates')
    BY DEF ToSet
<1>6. Typed'
    <2>1. Len(rows) = 0 /\ Len(dates') \in Nat
        BY <1>2, <1>4, LenProperties
    <2> QED BY <1>1, <1>2, <1>4, <1>5, <2>1 DEF AuctionInv, Typed
<1>7. DOMAIN rows = {}
    BY <1>2
<1>8. InOrder' /\ RowsRight' /\ NotYet'
    BY <1>1, <1>2, <1>4, <1>7 DEF InOrder, RowsRight, NotYet
<1>9. Cardinality(found) >= days \/ Reach \subseteq found
    <2>1. ASSUME offset >= MaxOffset, NEW d \in Reach PROVE d \in found
        <3>1. d \in 2..firstDay /\ FirstBar(d) < MaxOffset
            BY <1>2, ReachIsNear
        <3>2. d \in 1..firstDay /\ FirstBar(d) \in Nat
            BY <1>2, <3>1, BarsOfDays
        <3>3. FirstBar(d) < offset
            BY <1>2, <2>1, <3>1, <3>2, Sizes
        <3> QED BY <1>1, <3>2, <3>3 DEF AuctionInv, FoundSoFar
    <2> QED BY <1>1, <2>1
<1>10. Reach' = Reach
    BY <1>1 DEF Reach
<1>11. FoundSoFar'
    BY <1>1, <1>9, <1>10 DEF AuctionInv, FoundSoFar
<1>12. DatesLatest'
    BY <1>1, <1>4, <1>5 DEF DatesLatest
<1>13. DailyReadSoFar'
    <2>1. \A d \in 1..today : ~(d + 0 > today)
        BY <1>2
    <2> QED BY <1>1, <1>2, <2>1 DEF DailyReadSoFar
<1>14. NoneLeftOut' /\ Enough'
    <2>1. CASE found # {}
        BY <1>1, <2>1 DEF NoneLeftOut, Enough
    <2>2. CASE found = {}
        <3>1. GivenDays' = {} /\ Left' = {}
            BY <1>1, <1>4, <1>5, <1>7, <2>2 DEF GivenDays, Left
        <3>2. Reach' = {}
            <4>1. Cardinality(found) = 0
                BY <2>2, FS_EmptySet
            <4> QED BY <1>2, <1>9, <1>10, <2>2, <4>1
        <3> QED BY <3>1, <3>2 DEF NoneLeftOut, Enough
    <2> QED BY <2>1, <2>2
<1> QED BY <1>6, <1>8, <1>11, <1>12, <1>13, <1>14 DEF AuctionInv

\* A page of daily bars continues where the one before ended, or after it.
LEMMA PreviousPageStep ==
    ASSUME AuctionInv, PreviousPage
    PROVE  AuctionInv'
<1>1. /\ step = "previous" /\ read' = read \cup DailyPage
      /\ offset' = IF Cardinality(DailyPage) < BarPage THEN MaxOffset ELSE offset + BarPage
      /\ UNCHANGED <<step, days, found, dates, rows, today, minute, deals, firstDay>>
    BY DEF PreviousPage, NextPage, market
<1>2. /\ today \in Nat \ {0} /\ firstDay \in 1..today /\ found \subseteq 1..today /\ ToSet(dates) \subseteq 1..today
      /\ offset \in Nat /\ read \subseteq 1..today
    <2>1. /\ today \in Nat \ {0} /\ firstDay \in 1..today /\ found \subseteq 1..today
          /\ ToSet(dates) \subseteq found /\ offset \in Nat /\ read \subseteq 1..today
        BY Sizes DEF AuctionInv, Typed
    <2> QED BY <2>1
<1>3. /\ DailyPage = {d \in 1..today : d + offset <= today /\ d + offset + BarPage > today}
      /\ Cardinality(DailyPage) < BarPage => \A d \in 1..today : d + offset + BarPage > today
    BY <1>2, PageOfDays
<1>4. ToSet(dates)' = ToSet(dates) /\ Reach' = Reach /\ \A d : FirstBar(d)' = FirstBar(d)
    BY <1>1 DEF ToSet, Reach, FirstBar, MinuteBars
<1>5. Typed'
    <2>1. offset' \in Nat
        BY <1>1, <1>2, Sizes
    <2>2. read' \subseteq 1..today
        BY <1>1, <1>2, <1>3
    <2> QED BY <1>1, <1>4, <2>1, <2>2 DEF AuctionInv, Typed
<1>6. ASSUME NEW d \in 1..today, d + offset + BarPage > today,
             d <= firstDay \/ \E date \in ToSet(dates) : d < date
      PROVE  d \in read'
    <2>1. CASE d + offset <= today
        BY <1>1, <1>3, <1>6, <2>1
    <2>2. CASE ~(d + offset <= today)
        <3>1. d + offset > today
            BY <1>2, <2>2
        <3> QED BY <1>1, <1>6, <3>1 DEF AuctionInv, DailyReadSoFar
    <2> QED BY <2>1, <2>2
<1>7. DailyReadSoFar'
    <2>1. ASSUME NEW e \in read', NEW date \in ToSet(dates), NEW d \in e..(date - 1)
          PROVE  d \in read'
        <3>1. e \in 1..today /\ date \in 1..today /\ d \in 1..today /\ d < date /\ e <= d
            BY <1>1, <1>2, <1>3
        <3>2. CASE e \in read
            BY <1>1, <3>2 DEF AuctionInv, DailyReadSoFar
        <3>3. CASE e \in DailyPage
            <4>1. d + offset + BarPage > today
                BY <1>2, <1>3, <3>1, <3>3, Sizes
            <4> QED BY <1>6, <3>1, <4>1
        <3> QED BY <1>1, <3>2, <3>3
    <2>2. ASSUME NEW d \in 1..today, d + offset' > today
          PROVE  d + offset + BarPage > today
        <3>1. CASE Cardinality(DailyPage) < BarPage
            BY <1>3, <3>1
        <3>2. CASE ~(Cardinality(DailyPage) < BarPage)
            BY <1>1, <1>2, <2>2, <3>2, Sizes
        <3> QED BY <3>1, <3>2
    <2> QED BY <1>1, <1>4, <1>6, <2>1, <2>2 DEF DailyReadSoFar
<1>8. InOrder' /\ NotYet' /\ RowsRight' /\ FoundSoFar' /\ DatesLatest'
    BY <1>1, <1>4 DEF AuctionInv, InOrder, NotYet, RowsRight, FoundSoFar, DatesLatest
<1>9. NoneLeftOut' /\ Enough'
    BY <1>1 DEF NoneLeftOut, Enough
<1> QED BY <1>5, <1>7, <1>8, <1>9 DEF AuctionInv

\* If a date is left without a day before, the pages came to their limit, and every day within
\* reach is later than that date and has one.
LEMMA PreviousFoundStep ==
    ASSUME AuctionInv, PreviousFound
    PROVE  AuctionInv'
<1>1. /\ step = "previous" /\ step' = "deals" /\ (offset >= MaxOffset \/ AllHave)
      /\ UNCHANGED <<days, offset, found, read, dates, rows, today, minute, deals, firstDay>>
    BY DEF PreviousFound, market
<1>2. /\ today \in Nat \ {0} /\ minute \in 1..Minutes /\ firstDay \in 1..today /\ firstDay \in Nat
      /\ found \subseteq 1..today /\ ToSet(dates) \subseteq found /\ offset \in Nat /\ rows = << >>
    BY <1>1, Sizes DEF AuctionInv, Typed, NotYet
<1>3. /\ ToSet(dates)' = ToSet(dates) /\ Reach' = Reach /\ GivenDays' = {} /\ Left' = Left
    BY <1>1, <1>2 DEF ToSet, Reach, GivenDays, Left, Earlier
<1>4. ASSUME NEW g \in ToSet(dates), NEW d \in 2..firstDay, g < d
      PROVE  d \in ToSet(dates)
    <2>0. g \in found /\ g \in 1..today
        BY <1>2
    <2>1. g \in found /\ d \in g..firstDay /\ d > g
        BY <1>2, <1>4, <2>0
    <2>2. d \in found
        BY <2>1 DEF AuctionInv, FoundSoFar
    <2> QED BY <1>1, <2>1, <2>2 DEF AuctionInv, DatesLatest
<1>5. NoneLeftOut'
    BY <1>1, <1>3, <1>4 DEF NoneLeftOut, Left
<1>6. Cardinality(Left) >= days \/ Reach \subseteq Left
    <2>1. CASE \A x \in ToSet(dates) : Earlier(x) # {}
        <3>1. Left = ToSet(dates)
            BY <2>1 DEF Left
        <3> QED BY <1>1, <3>1 DEF AuctionInv, DatesLatest, FoundSoFar
    <2>2. ASSUME NEW x \in ToSet(dates), Earlier(x) = {}
          PROVE  Reach \subseteq Left
        <3>1. offset >= MaxOffset
            <4>1. ~AllHave
                BY <2>2 DEF AllHave, ToSet
            <4> QED BY <1>1, <4>1
        <3> SUFFICES ASSUME NEW r \in Reach PROVE r \in Left
            OBVIOUS
        <3>2. r \in 2..firstDay /\ r - 1 + MaxOffset > today
            BY <1>2, ReachIsNear
        <3>3. r - 1 \in 1..today /\ r - 1 <= firstDay /\ r - 1 + offset > today
            BY <1>2, <3>1, <3>2, Sizes
        <3>4. r - 1 \in read
            BY <1>1, <3>3 DEF AuctionInv, DailyReadSoFar
        <3>5. ~(r - 1 < x) /\ r - 1 < r
            BY <2>2, <3>2, <3>4 DEF Earlier
        <3>6. x < r
            <4>1. x \in 1..today
                BY <1>2
            <4>2. x \in Nat /\ r \in Nat
                BY <1>2, <3>2, <4>1
            <4> QED BY <3>5, <4>2
        <3>7. r \in ToSet(dates)
            BY <1>4, <3>2, <3>6
        <3> QED BY <3>4, <3>5, <3>7 DEF Left, Earlier
    <2> QED BY <2>1, <2>2
<1>7. Enough'
    <2>1. GivenDays' \cup Left' = Left
        BY <1>3
    <2> QED BY <1>1, <1>3, <1>6, <2>1 DEF Enough
<1>8. Typed' /\ InOrder' /\ NotYet' /\ RowsRight' /\ FoundSoFar' /\ DatesLatest' /\ DailyReadSoFar'
    BY <1>1, <1>3 DEF AuctionInv, Typed, InOrder, NotYet, RowsRight, FoundSoFar, DatesLatest, DailyReadSoFar
<1> QED BY <1>5, <1>7, <1>8 DEF AuctionInv
\* A day less than the date was read, so the day before was.
LEMMA PreviousIsNext ==
    ASSUME AuctionInv, NEW date \in ToSet(dates), Earlier(date) # {}
    PROVE  Previous(date) = date - 1 /\ date - 1 \in read /\ date - 1 \in Nat /\ date \in found
<1>1. date \in found /\ today \in Nat /\ found \subseteq 1..today /\ read \subseteq 1..today
    BY Sizes DEF AuctionInv, Typed
<1>2. date \in Nat /\ read \subseteq Nat \ {0}
    BY <1>1
<1>3. PICK e \in read : e < date
    BY DEF Earlier
<1>4. date - 1 \in e..(date - 1) /\ date - 1 \in Nat
    BY <1>2, <1>3
<1>5. date - 1 \in read
    BY <1>3, <1>4 DEF AuctionInv, DailyReadSoFar
<1>6. date - 1 \in Earlier(date) /\ \A d \in Earlier(date) : d \in Nat /\ d <= date - 1
    BY <1>2, <1>5 DEF Earlier
<1>7. \A p \in Earlier(date) : (\A d \in Earlier(date) : d <= p) <=> p = date - 1
    BY <1>4, <1>6
<1>8. Previous(date) = date - 1
    BY <1>6, <1>7 DEF Previous
<1> QED BY <1>1, <1>4, <1>5, <1>8

\* The first date of a descending list is later than the others, which are a descending list.
LEMMA HeadAndTail ==
    ASSUME NEW s \in Seq(Nat), s # << >>, \A i, j \in DOMAIN s : i < j => s[i] > s[j]
    PROVE  /\ Head(s) \in Nat /\ Head(s) \in ToSet(s) /\ Tail(s) \in Seq(Nat) /\ Len(Tail(s)) + 1 = Len(s)
           /\ ToSet(s) = {Head(s)} \cup ToSet(Tail(s))
           /\ \A i, j \in DOMAIN Tail(s) : i < j => Tail(s)[i] > Tail(s)[j]
           /\ \A j \in DOMAIN Tail(s) : Head(s) > Tail(s)[j] /\ Tail(s)[j] \in ToSet(Tail(s))
<1>1. /\ Head(s) = s[1] /\ Tail(s) \in Seq(Nat) /\ Len(Tail(s)) = Len(s) - 1 /\ Len(s) \in Nat /\ Len(s) > 0
      /\ \A i \in 1..Len(Tail(s)) : Tail(s)[i] = s[i + 1]
    BY HeadTailProperties, EmptySeq, LenProperties
<1>2. DOMAIN s = 1..Len(s) /\ DOMAIN Tail(s) = 1..(Len(s) - 1)
    BY <1>1, LenProperties
<1>3. \A i \in DOMAIN Tail(s) : i + 1 \in DOMAIN s /\ 1 < i + 1 /\ Tail(s)[i] = s[i + 1]
    BY <1>1, <1>2
<1>4. 1 \in DOMAIN s
    BY <1>1, <1>2
<1>5. ToSet(s) = {Head(s)} \cup ToSet(Tail(s))
    <2>1. ASSUME NEW i \in DOMAIN s, i # 1 PROVE i - 1 \in DOMAIN Tail(s) /\ (i - 1) + 1 = i
        BY <1>1, <1>2, <2>1
    <2>2. ASSUME NEW i \in DOMAIN s PROVE s[i] \in {Head(s)} \cup ToSet(Tail(s))
        BY <1>1, <1>3, <2>1 DEF ToSet
    <2>3. ToSet(Tail(s)) \subseteq ToSet(s) /\ Head(s) \in ToSet(s)
        BY <1>1, <1>3, <1>4 DEF ToSet
    <2> QED BY <2>2, <2>3 DEF ToSet
<1>6. \A i, j \in DOMAIN Tail(s) : i < j => Tail(s)[i] > Tail(s)[j]
    <2>1. \A i, j \in DOMAIN Tail(s) : i < j => i + 1 < j + 1
        BY <1>1, <1>2
    <2> QED BY <1>3, <2>1
<1>7. \A j \in DOMAIN Tail(s) : Head(s) > Tail(s)[j] /\ Tail(s)[j] \in ToSet(Tail(s))
    BY <1>1, <1>3, <1>4 DEF ToSet
<1>8. Head(s) \in Nat
    BY <1>1, <1>2, <1>4
<1> QED BY <1>1, <1>5, <1>6, <1>7, <1>8

\* A date is kept, unless it has no deal or is older than every daily bar: then no date
\* kept, or to be kept, is before it.
LEMMA DealsOfStep ==
    ASSUME AuctionInv, DealsOf
    PROVE  AuctionInv'
<1> DEFINE date == Head(dates)
           rest == Tail(dates)
<1>1. /\ step = "deals" /\ dates # << >> /\ dates' = rest
      /\ rows' = IF Kept(date) THEN Append(rows, <<date, Previous(date)>>) ELSE rows
      /\ UNCHANGED <<step, days, offset, found, read, today, minute, deals, firstDay>>
    BY DEF DealsOf, market
<1>2. /\ dates \in Seq(Nat) /\ rows \in Seq(Nat \X Nat) /\ Len(rows) + Len(dates) <= days /\ days \in Nat
      /\ today \in Nat /\ found \subseteq 1..today /\ ToSet(dates) \subseteq found
      /\ \A i, j \in DOMAIN dates : i < j => dates[i] > dates[j]
    BY Sizes DEF AuctionInv, Typed, InOrder
<1>3. /\ date \in Nat /\ date \in ToSet(dates) /\ rest \in Seq(Nat) /\ Len(rest) + 1 = Len(dates)
      /\ ToSet(dates) = {date} \cup ToSet(rest)
      /\ \A i, j \in DOMAIN rest : i < j => rest[i] > rest[j]
      /\ \A j \in DOMAIN rest : date > rest[j] /\ rest[j] \in ToSet(rest)
    BY <1>1, <1>2, HeadAndTail
<1>4. Earlier(date) # {} => Previous(date) = date - 1 /\ date - 1 \in read /\ date - 1 \in Nat
    BY <1>3, PreviousIsNext
<1>5. date \in found
    BY <1>2, <1>3
<1>6. \A i \in DOMAIN rows : rows[i][1] \in Nat /\ rows[i][1] > date
    <2>1. \A i \in DOMAIN rows : rows[i] \in Nat \X Nat
        BY <1>2, LenProperties
    <2>2. \A x \in ToSet(dates) : \E j \in DOMAIN dates : dates[j] = x
        BY DEF ToSet
    <2> QED BY <1>3, <2>1, <2>2 DEF AuctionInv, InOrder
<1> HIDE DEF date, rest
<1>7. \/ /\ Kept(date) /\ rows' = Append(rows, <<date, date - 1>>) /\ Earlier(date) # {}
         /\ date - 1 \in read /\ date - 1 \in Nat
      \/ ~Kept(date) /\ rows' = rows
    BY <1>1, <1>4 DEF Kept
<1>8. /\ rows' \in Seq(Nat \X Nat) /\ Len(rows') <= Len(rows) + 1
      /\ \A i \in DOMAIN rows' : \/ i \in DOMAIN rows /\ rows'[i] = rows[i]
                                 \/ Kept(date) /\ i = Len(rows) + 1 /\ rows'[i] = <<date, date - 1>>
      /\ DOMAIN rows = 1..Len(rows) /\ Len(rows) \in Nat
      /\ Kept(date) => Len(rows) + 1 \in DOMAIN rows' /\ rows'[Len(rows) + 1] = <<date, date - 1>>
      /\ \A i \in DOMAIN rows : i \in DOMAIN rows' /\ rows'[i] = rows[i]
    <2>1. DOMAIN rows = 1..Len(rows) /\ Len(rows) \in Nat
        BY <1>2, LenProperties
    <2>2. CASE ~Kept(date)
        BY <1>2, <1>7, <2>1, <2>2, SMTT(30)
    <2>3. CASE Kept(date)
        <3> DEFINE row == <<date, date - 1>>
        <3>1. row \in Nat \X Nat /\ rows' = Append(rows, row)
            BY <1>3, <1>7, <2>3
        <3> HIDE DEF row
        <3>2. /\ rows' \in Seq(Nat \X Nat) /\ Len(rows') = Len(rows) + 1
              /\ \A i \in 1..Len(rows) : rows'[i] = rows[i]
              /\ rows'[Len(rows) + 1] = row
            BY <1>2, <3>1, AppendProperties
        <3>3. DOMAIN rows' = 1..(Len(rows) + 1)
            BY <3>2, LenProperties
        <3> QED BY <2>1, <2>3, <3>2, <3>3, SMTT(30) DEF row
    <2> QED BY <2>2, <2>3
<1>9. ToSet(dates)' = ToSet(rest) /\ Reach' = Reach /\ \A d : Earlier(d)' = Earlier(d)
    BY <1>1 DEF ToSet, Reach, Earlier
<1>10. GivenDays' = IF Kept(date) THEN GivenDays \cup {date} ELSE GivenDays
    <2>1. GivenDays' = {rows'[i][1] : i \in DOMAIN rows'}
        BY DEF GivenDays
    <2> QED BY <1>7, <1>8, <2>1 DEF GivenDays
<1>11. Left = {d \in {date} : Earlier(d) # {}} \cup Left'
    BY <1>3, <1>9 DEF Left
<1>12. Typed'
    <2>1. Len(rows') + Len(dates') <= days
        <3>1. Len(rows) \in Nat /\ Len(rows') \in Nat /\ Len(dates) \in Nat /\ Len(rest) \in Nat
            BY <1>2, <1>3, <1>8, LenProperties
        <3> QED BY <1>1, <1>2, <1>3, <1>8, <3>1
    <2> QED BY <1>1, <1>3, <1>8, <1>9, <2>1 DEF AuctionInv, Typed
<1>13. InOrder'
    <2>1. \A i, j \in DOMAIN rows' : i < j => rows'[i][1] > rows'[j][1]
        <3>1. \A i, j \in DOMAIN rows : i < j => rows[i][1] > rows[j][1]
            BY DEF AuctionInv, InOrder
        <3>2. \A i \in DOMAIN rows : ~(Len(rows) + 1 < i)
            BY <1>8
        <3> SUFFICES ASSUME NEW i \in DOMAIN rows', NEW j \in DOMAIN rows', i < j
                     PROVE  rows'[i][1] > rows'[j][1]
            OBVIOUS
        <3>3. i \in DOMAIN rows /\ rows'[i] = rows[i]
            BY <1>8, <3>2, SMTT(30)
        <3>4. CASE j \in DOMAIN rows /\ rows'[j] = rows[j]
            BY <3>1, <3>3, <3>4
        <3>5. CASE rows'[j] = <<date, date - 1>>
            BY <1>6, <3>3, <3>5
        <3> QED BY <1>8, <3>4, <3>5
    <2>2. \A i \in DOMAIN rows', j \in DOMAIN rest : rows'[i][1] > rest[j]
        <3>1. \A i \in DOMAIN rows' : rows'[i][1] \in Nat /\ rows'[i][1] >= date
            BY <1>3, <1>6, <1>8
        <3>2. \A j \in DOMAIN rest : rest[j] \in Nat /\ date > rest[j]
            BY <1>3, LenProperties
        <3> QED BY <1>3, <3>1, <3>2
    <2> QED BY <1>1, <1>3, <2>1, <2>2 DEF InOrder
<1>14. RowsRight'
    <2> SUFFICES ASSUME NEW i \in DOMAIN rows'
                 PROVE  rows'[i][2] = rows'[i][1] - 1 /\ rows'[i][2] \in read /\ rows'[i][1] \in found
        BY <1>1 DEF RowsRight
    <2>1. CASE i \in DOMAIN rows /\ rows'[i] = rows[i]
        BY <2>1 DEF AuctionInv, RowsRight
    <2>2. CASE Kept(date) /\ rows'[i] = <<date, date - 1>>
        BY <1>5, <1>7, <2>2
    <2> QED BY <1>8, <2>1, <2>2
<1>15. NotYet' /\ FoundSoFar' /\ DatesLatest'
    BY <1>1, <1>9 DEF AuctionInv, NotYet, FoundSoFar, DatesLatest
<1>16. DailyReadSoFar'
    BY <1>1, <1>3, <1>9 DEF AuctionInv, DailyReadSoFar
<1>17. NoneLeftOut'
    <2> SUFFICES ASSUME NEW d \in (2..firstDay) \cap deals, NEW g \in GivenDays' \cup Left', g < d
                 PROVE  d \in GivenDays' \cup ToSet(rest)
        BY <1>1, <1>9 DEF NoneLeftOut
    <2>1. g \in GivenDays \cup Left
        <3>1. Kept(date) => date \in Left
            BY <1>3 DEF Kept, Left
        <3> QED BY <1>10, <1>11, <3>1
    <2>2. d \in GivenDays \cup ToSet(dates)
        BY <1>1, <2>1 DEF AuctionInv, NoneLeftOut
    <2>3. CASE d \in GivenDays \cup ToSet(rest)
        BY <1>10, <2>3
    <2>4. CASE d = date
        <3>1. CASE Kept(date)
            BY <1>10, <2>4, <3>1
        <3>2. CASE ~Kept(date)
            <4>1. Earlier(date) = {}
                BY <2>4, <3>2 DEF Kept
            <4>2. g \notin GivenDays
                BY <1>3, <1>6, <2>4 DEF GivenDays
            <4>3. g \in ToSet(rest) /\ Earlier(g) # {}
                BY <1>9, <1>10, <3>2, <4>2 DEF Left
            <4>4. PICK e \in read : e < g
                BY <4>3 DEF Earlier
            <4>5. e \in Nat /\ g \in Nat
                <5>1. g \in 1..today /\ read \subseteq 1..today
                    BY <1>2, <1>3, <4>3 DEF AuctionInv, Typed
                <5> QED BY <1>2, <5>1
            <4>6. e < date
                BY <1>3, <2>4, <4>4, <4>5
            <4> QED BY <4>1, <4>6 DEF Earlier
        <3> QED BY <3>1, <3>2
    <2> QED BY <1>3, <2>2, <2>3, <2>4
<1>18. Enough'
    <2> SUFFICES ASSUME 1..today \subseteq deals
                 PROVE  Cardinality(GivenDays' \cup Left') >= days \/ Reach \subseteq GivenDays' \cup Left'
        BY <1>1, <1>9 DEF Enough
    <2>1. date \in deals
        BY <1>2, <1>5
    <2>2. GivenDays' \cup Left' = GivenDays \cup Left
        BY <1>10, <1>11, <2>1 DEF Kept
    <2> QED BY <1>1, <2>2 DEF AuctionInv, Enough
<1> QED BY <1>12, <1>13, <1>14, <1>15, <1>16, <1>17, <1>18 DEF AuctionInv

\* The end of a call, with an answer or without, leaves everything but the step.
LEMMA EndsStep ==
    ASSUME AuctionInv, AllAnswered \/ Fails
    PROVE  AuctionInv'
<1>1. /\ UNCHANGED <<days, offset, found, read, dates, rows, today, minute, deals, firstDay>>
      /\ \/ step = "deals" /\ step' = "answered" /\ dates = << >>
         \/ step' = "failed"
    BY DEF AllAnswered, Fails, market
<1>2. /\ ToSet(dates)' = ToSet(dates) /\ Reach' = Reach /\ GivenDays' = GivenDays /\ Left' = Left
    BY <1>1 DEF ToSet, Reach, GivenDays, Left, Earlier
<1>3. Typed' /\ InOrder' /\ NotYet' /\ RowsRight'
    BY <1>1, <1>2 DEF AuctionInv, Typed, InOrder, NotYet, RowsRight
<1>4. FoundSoFar' /\ DatesLatest' /\ DailyReadSoFar'
    BY <1>1, <1>2 DEF AuctionInv, FoundSoFar, DatesLatest, DailyReadSoFar
<1>5. NoneLeftOut' /\ Enough'
    BY <1>1, <1>2 DEF AuctionInv, NoneLeftOut, Enough
<1> QED BY <1>3, <1>4, <1>5 DEF AuctionInv

\* The invariant is inductive.
LEMMA AuctionKeeps ==
    ASSUME AuctionInv, [AuctionNext]_auctionVars
    PROVE  AuctionInv'
<1>1. CASE DatesPage
    BY <1>1, DatesPageStep
<1>2. CASE DatesFound
    BY <1>2, DatesFoundStep
<1>3. CASE PreviousPage
    BY <1>3, PreviousPageStep
<1>4. CASE PreviousFound
    BY <1>4, PreviousFoundStep
<1>5. CASE DealsOf
    BY <1>5, DealsOfStep
<1>6. CASE AllAnswered \/ Fails
    BY <1>6, EndsStep
<1>7. CASE NextBar
    BY <1>7, NextBarStep
<1>8. CASE UNCHANGED auctionVars
    <2>1. UNCHANGED <<step, days, offset, found, read, dates, rows, today, minute, deals, firstDay>>
        BY <1>8 DEF auctionVars
    <2>2. GivenDays' = GivenDays /\ Left' = Left /\ Reach' = Reach /\ ToSet(dates)' = ToSet(dates)
          /\ \A d : FirstBar(d)' = FirstBar(d)
        BY <2>1 DEF GivenDays, Left, Reach, Earlier, FirstBar, MinuteBars, ToSet
    <2>3. Typed' /\ InOrder' /\ NotYet' /\ RowsRight'
        BY <2>1, <2>2 DEF AuctionInv, Typed, InOrder, NotYet, RowsRight
    <2>4. FoundSoFar' /\ DatesLatest' /\ DailyReadSoFar'
        BY <2>1, <2>2 DEF AuctionInv, FoundSoFar, DatesLatest, DailyReadSoFar
    <2>5. NoneLeftOut' /\ Enough'
        BY <2>1, <2>2 DEF AuctionInv, NoneLeftOut, Enough
    <2> QED BY <2>3, <2>4, <2>5 DEF AuctionInv
<1> QED BY <1>1, <1>2, <1>3, <1>4, <1>5, <1>6, <1>7, <1>8 DEF AuctionNext

-----------------------------------------------------------------------------
(* The theorems.                                                           *)

\* At every moment of a call the days found, the daily bars read, the dates left and the rows
\* answered are as AuctionInv says, whatever the sizes of the pages and however many bars come.
THEOREM AuctionInvariant == AuctionSpec => []AuctionInv
<1> QED BY InitAuction, AuctionKeeps, PTL DEF AuctionSpec

\* No more days are looked at than were asked for.
LEMMA AuctionTyped == AuctionInv => AuctionTypeOK
<1> SUFFICES ASSUME AuctionInv PROVE AuctionTypeOK
    OBVIOUS
<1>1. Len(rows) \in Nat /\ Len(dates) \in Nat /\ Len(rows) + Len(dates) <= days /\ days \in Nat
    BY LenProperties, Sizes DEF AuctionInv, Typed
<1>2. Len(dates) <= days /\ Len(rows) <= days
    BY <1>1
<1>3. found \subseteq 1..LastDay /\ read \subseteq 1..LastDay
    <2>1. found \subseteq 1..today /\ read \subseteq 1..today /\ today \in 1..LastDay
        BY DEF AuctionInv, Typed
    <2> QED BY <2>1, Sizes
<1> QED BY <1>2, <1>3 DEF AuctionInv, Typed, AuctionTypeOK

\* The call's variables keep their types, and no more days are looked at than were asked for.
THEOREM AuctionTypes == AuctionSpec => []AuctionTypeOK
BY AuctionTyped, AuctionInvariant, PTL

\* The rows answered have the turnover of the day before.
LEMMA TurnoverRight == AuctionInv => PreviousIsAdjacent
BY DEF AuctionInv, RowsRight, PreviousIsAdjacent

\* The turnover answered with a date (findPreviousAmounts) is that of the trading day before
\* it: the pages of daily bars leave no day out, though the market moves between them.
THEOREM TurnoverIsOfTheDayBefore == AuctionSpec => []PreviousIsAdjacent
BY TurnoverRight, AuctionInvariant, PTL

\* The rows answered are of the latest days.
LEMMA DaysLatest == AuctionInv => LatestDays
<1> SUFFICES ASSUME AuctionInv, step = "answered"
             PROVE  /\ \A i, j \in DOMAIN rows : i < j => rows[i][1] > rows[j][1]
                    /\ \A d \in (2..firstDay) \cap deals : (\E g \in GivenDays : g < d) => d \in GivenDays
                    /\ 1..today \subseteq deals =>
                         Cardinality(GivenDays) >= (IF days < Cardinality(Reach) THEN days ELSE Cardinality(Reach))
    BY DEF LatestDays, GivenDays, Reach
<1>1. dates = << >> /\ ToSet(dates) = {} /\ Left = {}
    BY DEF AuctionInv, NotYet, ToSet, Left
<1>2. IsFiniteSet(GivenDays) /\ Cardinality(GivenDays) \in Nat
    <2>1. GivenDays \subseteq found
        BY DEF AuctionInv, RowsRight, GivenDays
    <2>2. IsFiniteSet(found)
        BY FoundIsFinite DEF AuctionInv
    <2> QED BY <2>1, <2>2, FS_Subset, FS_CardinalityType
<1>3. IsFiniteSet(Reach) /\ Cardinality(Reach) \in Nat
    <2>1. Reach \subseteq 2..firstDay /\ firstDay \in Int
        BY Sizes DEF AuctionInv, Typed, Reach
    <2>2. IsFiniteSet(2..firstDay)
        BY <2>1, FS_Interval
    <2> QED BY <2>1, <2>2, FS_Subset, FS_CardinalityType
<1>4. \A i, j \in DOMAIN rows : i < j => rows[i][1] > rows[j][1]
    BY DEF AuctionInv, InOrder
<1>5. \A d \in (2..firstDay) \cap deals : (\E g \in GivenDays : g < d) => d \in GivenDays
    BY <1>1 DEF AuctionInv, NoneLeftOut
<1>6. ASSUME 1..today \subseteq deals
      PROVE  Cardinality(GivenDays) >= (IF days < Cardinality(Reach) THEN days ELSE Cardinality(Reach))
    <2>1. Cardinality(GivenDays) >= days \/ Reach \subseteq GivenDays
        <3>1. GivenDays \cup Left = GivenDays
            BY <1>1
        <3> QED BY <1>6, <3>1 DEF AuctionInv, Enough
    <2>2. Reach \subseteq GivenDays => Cardinality(Reach) <= Cardinality(GivenDays)
        BY <1>2, FS_Subset
    <2>3. days \in Nat
        BY Sizes DEF AuctionInv, Typed
    <2> QED BY <1>2, <1>3, <2>1, <2>2, <2>3
<1> QED BY <1>4, <1>5, <1>6

\* The answer has the latest days, none left out between them, and as many as asked for when
\* the search reaches them and every day had an auction's deal (findAuctionDates, fetchCode).
THEOREM DaysAreLatest == AuctionSpec => []LatestDays
BY DaysLatest, AuctionInvariant, PTL
=============================================================================
