-------------------------- MODULE MarketTailProofs --------------------------
(***************************************************************************)
(* TailSound and FewQueries for every page size, every cursor limit and    *)
(* every growth of the list, proved with TLAPS.                            *)
(*                                                                         *)
(* The argument: a remembered page length was right for some length the    *)
(* list has had since the search began (Remembered); the page before the   *)
(* candidates was once full and the last candidate was once not (Bounds).  *)
(* The result lies between the two lengths that say so.                    *)
(*                                                                         *)
(* For the number of queries: the doubling asks for one page per power of  *)
(* two, and the last of those pays for as many queries of the bisection    *)
(* (QueriesInv).                                                           *)
(***************************************************************************)
EXTENDS MarketTail, FiniteSetTheorems, NaturalsInduction, WellFoundedInduction, TLAPS

\* Every remembered length was the page's at some length since the beginning.
Remembered ==
    ~midnight => \A page \in 0..MaxPage :
        pages[page] # Unknown => \E n \in lenBefore..len : pages[page] = OnPage(n, page)

\* Where the search is, told by the pages it remembers.
Bounds ==
    /\ pc = "double" => low <= high /\ pages[low] = PageSize
    /\ pc = "bisect" => /\ left \in 1..right
                        /\ pages[left - 1] = PageSize
                        /\ pages[right] # Unknown /\ pages[right] < PageSize

TailInv == TypeOK /\ (~midnight => lenBefore <= len) /\ Remembered /\ Bounds /\ TailSound

-----------------------------------------------------------------------------

\* The pages are numbered from 0 to MaxPage.
LEMMA MaxPageType == MaxPage \in Nat
BY TailAssumption DEF MaxPage

\* What the length of a page says of the length of the list.
LEMMA OnPageFacts ==
    ASSUME NEW n \in Nat, NEW page \in Nat
    PROVE  /\ OnPage(n, page) \in 0..PageSize
           /\ page * PageSize \in Nat
           /\ (page + 1) * PageSize = page * PageSize + PageSize
           /\ OnPage(n, page) = PageSize => n >= (page + 1) * PageSize
           /\ OnPage(n, page) < PageSize => n < (page + 1) * PageSize
           /\ n >= page * PageSize /\ OnPage(n, page) < PageSize
                => n = page * PageSize + OnPage(n, page)
           /\ n <= page * PageSize => OnPage(n, page) = 0
<1> DEFINE a == page * PageSize
<1>1. PageSize \in Nat \ {0} /\ a \in Nat
    BY TailAssumption
<1>2. (page + 1) * PageSize = a + PageSize
    BY TailAssumption
<1>3. OnPage(n, page) = IF n <= a THEN 0 ELSE IF n >= a + PageSize THEN PageSize ELSE n - a
    BY <1>2 DEF OnPage
<1> HIDE DEF a
<1> QED BY <1>1, <1>2, <1>3 DEF a

\* The end of a page is within the end of the last one.
LEMMA PageEnds ==
    ASSUME NEW page \in 0..MaxPage
    PROVE  (page + 1) * PageSize <= (MaxPage + 1) * PageSize
<1>1. PageSize \in Nat /\ MaxPage \in Nat /\ page \in Nat
    BY MaxPageType, TailAssumption
<1>2. (MaxPage - page) * PageSize >= 0
    BY <1>1
<1>3. (MaxPage + 1) * PageSize = (page + 1) * PageSize + (MaxPage - page) * PageSize
    BY <1>1
<1> QED BY <1>1, <1>2, <1>3
\* The answer to a query was right at some length since the beginning, and
\* remembering it keeps what is remembered so.
LEMMA AskRemembers ==
    ASSUME TypeOK, (~midnight => lenBefore <= len), Remembered, NEW page \in 0..MaxPage
    PROVE  /\ Length(page) \in 0..PageSize
           /\ ~midnight => \E n \in lenBefore..len : Length(page) = OnPage(n, page)
           /\ Ask(page) /\ UNCHANGED external =>
                /\ pages' \in [0..MaxPage -> Unknown..PageSize]
                /\ pages'[page] = Length(page)
                /\ \A p \in 0..MaxPage : p # page => pages'[p] = pages[p]
                /\ \A p \in 0..MaxPage : pages[p] # Unknown => pages'[p] = pages[p]
                /\ Remembered'
<1>1. OnPage(len, page) \in 0..PageSize
    <2>1. len \in Nat /\ page \in Nat
        BY MaxPageType DEF TypeOK
    <2> QED BY <2>1, OnPageFacts
<1>2. Length(page) \in 0..PageSize
    <2>1. pages[page] \in Unknown..PageSize
        BY DEF TypeOK
    <2>2. CASE pages[page] = Unknown
        BY <1>1, <2>2 DEF Length
    <2>3. CASE pages[page] # Unknown
        BY <2>1, <2>3, TailAssumption DEF Length, Unknown
    <2> QED BY <2>2, <2>3
<1>3. ~midnight => \E n \in lenBefore..len : Length(page) = OnPage(n, page)
    <2> SUFFICES ASSUME ~midnight PROVE \E n \in lenBefore..len : Length(page) = OnPage(n, page)
        OBVIOUS
    <2>1. len \in lenBefore..len
        BY DEF TypeOK
    <2> QED BY <2>1 DEF Length, Remembered
<1>4. ASSUME Ask(page), UNCHANGED external
      PROVE  /\ pages' \in [0..MaxPage -> Unknown..PageSize]
             /\ pages'[page] = Length(page)
             /\ \A p \in 0..MaxPage : p # page => pages'[p] = pages[p]
             /\ \A p \in 0..MaxPage : pages[p] # Unknown => pages'[p] = pages[p]
             /\ Remembered'
    <2>0. pages' = [pages EXCEPT ![page] = Length(page)]
        BY <1>4 DEF Ask
    <2>1. Length(page) \in Unknown..PageSize
        BY <1>2, TailAssumption DEF Unknown
    <2>2. pages' \in [0..MaxPage -> Unknown..PageSize]
        BY <2>0, <2>1 DEF TypeOK
    <2>3. pages'[page] = Length(page) /\ \A p \in 0..MaxPage : p # page => pages'[p] = pages[p]
        BY <2>0 DEF TypeOK
    <2>4. \A p \in 0..MaxPage : pages[p] # Unknown => pages'[p] = pages[p]
        BY <2>3 DEF Length
    <2>5. Remembered'
        <3> SUFFICES ASSUME ~midnight', NEW p \in 0..MaxPage, pages'[p] # Unknown
                     PROVE  \E n \in lenBefore'..len' : pages'[p] = OnPage(n, p)
            BY MaxPageType DEF Remembered
        <3>1. midnight' = midnight /\ lenBefore' = lenBefore /\ len' = len
            BY <1>4 DEF external
        <3> QED BY <1>3, <2>3, <3>1 DEF Remembered
    <2> QED BY <2>2, <2>3, <2>4, <2>5
<1> QED BY <1>2, <1>3, <1>4

\* A search begins with nothing remembered.
LEMMA InitTail == Init => TailInv
<1> SUFFICES ASSUME Init PROVE TailInv
    OBVIOUS
<1>1. PageSize \in Nat \ {0} /\ MaxPage \in Nat /\ (MaxPage + 1) * PageSize \in Nat \ {0}
    <2>1. PageSize \in Nat \ {0} /\ MaxPage \in Nat
        BY TailAssumption, MaxPageType
    <2>2. MaxPage * PageSize \in Nat /\ (MaxPage + 1) * PageSize = MaxPage * PageSize + PageSize
        BY <2>1
    <2> QED BY <2>1, <2>2
<1>2. TypeOK
    <2>1. 0 \in 0..MaxPage /\ 0 \in 0..((MaxPage + 1) * PageSize - 1)
        BY <1>1
    <2>2. len \in Nat /\ lenBefore \in Nat /\ Unknown \in Unknown..PageSize
        BY <1>1, TailAssumption DEF Init, Unknown
    <2> QED BY <2>1, <2>2 DEF Init, TypeOK
<1> QED BY <1>1, <1>2, TailAssumption DEF Init, TailInv, Remembered, Bounds, TailSound

\* The first query.
LEMMA FirstPageStep ==
    ASSUME TailInv, FirstPage
    PROVE  TailInv'
<1>0. 0 \in 0..MaxPage /\ MaxPage \in Nat /\ PageSize \in Nat \ {0}
    BY MaxPageType, TailAssumption
<1>1. /\ Length(0) \in 0..PageSize
      /\ ~midnight => \E n \in lenBefore..len : Length(0) = OnPage(n, 0)
      /\ pages' \in [0..MaxPage -> Unknown..PageSize]
      /\ pages'[0] = Length(0)
      /\ Remembered'
    BY <1>0, AskRemembers DEF TailInv, FirstPage
<1>2. UNCHANGED <<len, lenBefore, midnight, left, right>> /\ (~midnight => lenBefore <= len)
    BY DEF FirstPage, external, TailInv
<1>3. CASE Length(0) < PageSize
    <2>1. pc' = "done" /\ tail' = Length(0) /\ UNCHANGED <<low, high>>
        BY <1>3, <1>0 DEF FirstPage, Finish
    <2>2. PageSize <= (MaxPage + 1) * PageSize
        <3>1. (0 + 1) * PageSize = PageSize
            BY <1>0
        <3> QED BY <1>0, <3>1, PageEnds
    <2>3. tail' \in 0..((MaxPage + 1) * PageSize - 1)
        <3>1. (MaxPage + 1) * PageSize \in Nat
            BY <1>0
        <3> QED BY <1>1, <1>3, <2>1, <2>2, <3>1, <1>0
    <2>4. TypeOK'
        BY <1>1, <1>2, <2>1, <2>3 DEF TailInv, TypeOK
    <2>5. ~midnight => tail' \in lenBefore..len
        <3> SUFFICES ASSUME ~midnight PROVE tail' \in lenBefore..len
            OBVIOUS
        <3>1. PICK n \in lenBefore..len : Length(0) = OnPage(n, 0)
            BY <1>1
        <3>2. n \in Nat /\ 0 \in Nat /\ 0 * PageSize = 0
            BY <1>0 DEF TailInv, TypeOK
        <3>3. n = OnPage(n, 0)
            <4>1. n >= 0 * PageSize /\ OnPage(n, 0) < PageSize
                BY <1>3, <3>1, <3>2
            <4>2. OnPage(n, 0) \in Nat /\ n = 0 * PageSize + OnPage(n, 0)
                BY <1>0, <3>2, <4>1, OnPageFacts
            <4> QED BY <3>2, <4>2
        <3> QED BY <2>1, <3>1, <3>3
    <2> QED BY <1>1, <1>2, <2>1, <2>4, <2>5 DEF TailInv, Bounds, TailSound
<1>4. CASE Length(0) = PageSize
    <2>1. /\ pc' = "double" /\ low' = 0 /\ high' \in 0..MaxPage /\ UNCHANGED tail
        BY <1>4, <1>0 DEF FirstPage
    <2>2. TypeOK'
        BY <1>0, <1>1, <1>2, <2>1 DEF TailInv, TypeOK
    <2> QED BY <1>1, <1>2, <1>4, <2>1, <2>2 DEF TailInv, Bounds, TailSound
<1> QED BY <1>3, <1>4 DEF FirstPage
\* Doubling: the page before the candidates is full, the last one is not.
LEMMA DoubleStep ==
    ASSUME TailInv, Double
    PROVE  TailInv'
<1>0. /\ MaxPage \in Nat /\ PageSize \in Nat \ {0}
      /\ low \in 0..MaxPage /\ high \in 0..MaxPage /\ len \in Nat
      /\ pc = "double" /\ low <= high /\ pages[low] = PageSize /\ pages[low] # Unknown
    BY MaxPageType, TailAssumption DEF TailInv, TypeOK, Bounds, Double, Unknown
<1>1. /\ Length(high) \in 0..PageSize
      /\ ~midnight => \E n \in lenBefore..len : Length(high) = OnPage(n, high)
      /\ pages' \in [0..MaxPage -> Unknown..PageSize]
      /\ pages'[high] = Length(high)
      /\ pages'[low] = PageSize
      /\ Remembered'
    BY <1>0, AskRemembers DEF TailInv, Double
<1>2. UNCHANGED <<len, lenBefore, midnight, tail>> /\ (~midnight => lenBefore <= len)
    BY DEF Double, external, TailInv
<1>3. CASE Length(high) < PageSize
    <2>1. pc' = "bisect" /\ left' = low + 1 /\ right' = high /\ UNCHANGED <<low, high>>
        BY <1>0, <1>3 DEF Double, FirstCandidate
    <2>2. low # high
        BY <1>0, <1>3 DEF Length
    <2>3. left' \in 1..right' /\ left' \in 0..MaxPage /\ left' - 1 = low
        BY <1>0, <2>1, <2>2
    <2>4. TypeOK'
        BY <1>0, <1>1, <1>2, <2>1, <2>3 DEF TailInv, TypeOK
    <2>5. Bounds'
        BY <1>0, <1>1, <1>3, <2>1, <2>3 DEF Bounds, Unknown
    <2> QED BY <1>1, <1>2, <2>1, <2>4, <2>5 DEF TailInv, TailSound
<1>4. CASE Length(high) = PageSize
    <2>1. UNCHANGED <<left, right>>
        BY <1>0, <1>4 DEF Double
    <2>2. CASE high = MaxPage
        <3>1. pc' = "overflow" /\ UNCHANGED <<low, high>>
            BY <1>0, <1>4, <2>2 DEF Double
        <3>2. ~midnight => len >= (MaxPage + 1) * PageSize
            <4> SUFFICES ASSUME ~midnight PROVE len >= (MaxPage + 1) * PageSize
                OBVIOUS
            <4>1. PICK n \in lenBefore..len : PageSize = OnPage(n, MaxPage)
                BY <1>1, <1>4, <2>2
            <4>2. n \in Nat /\ n <= len
                BY <4>1 DEF TailInv, TypeOK
            <4>3. n >= (MaxPage + 1) * PageSize
                BY <1>0, <4>1, <4>2, OnPageFacts
            <4>4. (MaxPage + 1) * PageSize \in Nat
                BY <1>0
            <4> QED BY <1>0, <4>2, <4>3, <4>4
        <3>3. TypeOK'
            BY <1>0, <1>1, <1>2, <2>1, <3>1 DEF TailInv, TypeOK
        <3> QED BY <1>1, <1>2, <3>1, <3>2, <3>3 DEF TailInv, Bounds, TailSound
    <2>3. CASE high # MaxPage
        <3>1. low' = high /\ high' = Next2(high) /\ pc' = "double"
            BY <1>0, <1>4, <2>3 DEF Double
        <3>2. high' \in 0..MaxPage /\ low' <= high'
            BY <1>0, <3>1 DEF Next2
        <3>3. TypeOK'
            BY <1>0, <1>1, <1>2, <2>1, <3>1, <3>2 DEF TailInv, TypeOK
        <3> QED BY <1>1, <1>2, <1>4, <3>1, <3>2, <3>3 DEF TailInv, Bounds, TailSound
    <2> QED BY <2>2, <2>3
<1> QED BY <1>0, <1>3, <1>4 DEF Double

\* Bisecting: the same of left - 1 and right.
LEMMA BisectStep ==
    ASSUME TailInv, Bisect
    PROVE  TailInv'
<1>0. /\ MaxPage \in Nat /\ PageSize \in Nat \ {0}
      /\ left \in 1..right /\ right \in 0..MaxPage /\ left < right
      /\ pc = "bisect" /\ pages[left - 1] = PageSize
      /\ pages[right] # Unknown /\ pages[right] < PageSize
    BY MaxPageType, TailAssumption DEF TailInv, TypeOK, Bounds, Bisect
<1>1. Middle \in left..(right - 1) /\ Middle \in 0..MaxPage /\ left - 1 \in 0..MaxPage
    BY <1>0 DEF Middle
<1>2. /\ Length(Middle) \in 0..PageSize
      /\ pages' \in [0..MaxPage -> Unknown..PageSize]
      /\ pages'[Middle] = Length(Middle)
      /\ pages'[left - 1] = PageSize
      /\ pages'[right] = pages[right]
      /\ Remembered'
    <2>1. Ask(Middle) /\ UNCHANGED external
        BY DEF Bisect
    <2>2. /\ Length(Middle) \in 0..PageSize
          /\ pages' \in [0..MaxPage -> Unknown..PageSize]
          /\ pages'[Middle] = Length(Middle)
          /\ \A p \in 0..MaxPage : pages[p] # Unknown => pages'[p] = pages[p]
          /\ Remembered'
        BY <1>1, <2>1, AskRemembers DEF TailInv
    <2>3. pages[left - 1] # Unknown
        BY <1>0 DEF Unknown
    <2> QED BY <1>0, <1>1, <2>2, <2>3
<1>3. /\ UNCHANGED <<len, lenBefore, midnight, pc, low, high, tail>>
      /\ ~midnight => lenBefore <= len
    BY DEF Bisect, external, TailInv
<1>4. CASE Length(Middle) = PageSize
    <2>1. left' = Middle + 1 /\ right' = right
        BY <1>0, <1>4 DEF Bisect, AfterFull
    <2>2. left' \in 1..right' /\ left' \in 0..MaxPage /\ left' - 1 = Middle
        BY <1>0, <1>1, <2>1
    <2>3. TypeOK'
        BY <1>0, <1>2, <1>3, <2>1, <2>2 DEF TailInv, TypeOK
    <2>4. Bounds'
        BY <1>0, <1>2, <1>3, <1>4, <2>1, <2>2 DEF Bounds
    <2> QED BY <1>0, <1>2, <1>3, <2>3, <2>4 DEF TailInv, TailSound
<1>5. CASE Length(Middle) # PageSize
    <2>1. left' = left /\ right' = Middle
        BY <1>0, <1>5 DEF Bisect
    <2>2. left' \in 1..right' /\ right' \in 0..MaxPage /\ left' \in 0..MaxPage
        BY <1>0, <1>1, <2>1
    <2>3. pages'[Middle] < PageSize /\ pages'[Middle] # Unknown
        BY <1>0, <1>2, <1>5 DEF Unknown
    <2>4. TypeOK'
        BY <1>0, <1>2, <1>3, <2>1, <2>2 DEF TailInv, TypeOK
    <2>5. Bounds'
        BY <1>0, <1>2, <1>3, <2>1, <2>2, <2>3 DEF Bounds
    <2> QED BY <1>0, <1>2, <1>3, <2>4, <2>5 DEF TailInv, TailSound
<1> QED BY <1>4, <1>5

\* The result: between the length that left the last candidate short and the
\* one that filled the page before it.
LEMMA LastPageStep ==
    ASSUME TailInv, LastPage
    PROVE  TailInv'
<1>0. /\ MaxPage \in Nat /\ PageSize \in Nat \ {0}
      /\ left = right /\ left \in 1..MaxPage
      /\ left - 1 \in 0..MaxPage /\ left \in 0..MaxPage /\ left \in Nat /\ left - 1 \in Nat
      /\ pages[left - 1] = PageSize /\ pages[left - 1] # Unknown
      /\ pages[left] # Unknown /\ pages[left] < PageSize
    BY MaxPageType, TailAssumption DEF TailInv, TypeOK, Bounds, LastPage, Unknown
<1>1. /\ Length(left) \in 0..PageSize /\ Length(left) = pages[left]
      /\ pages' \in [0..MaxPage -> Unknown..PageSize]
      /\ Remembered'
    BY <1>0, AskRemembers DEF TailInv, LastPage, Length
<1>2. /\ UNCHANGED <<len, lenBefore, midnight, low, high, left, right>>
      /\ pc' = "done" /\ tail' = left * PageSize + pages[left]
      /\ ~midnight => lenBefore <= len
    BY <1>1 DEF LastPage, Finish, external, TailInv
<1>3. tail' \in 0..((MaxPage + 1) * PageSize - 1)
    <2>1. (left + 1) * PageSize <= (MaxPage + 1) * PageSize
        BY <1>0, PageEnds
    <2>2. (left + 1) * PageSize = left * PageSize + PageSize /\ left * PageSize \in Nat
        BY <1>0
    <2>3. (MaxPage + 1) * PageSize \in Nat
        BY <1>0
    <2> DEFINE begin == left * PageSize
               end == (left + 1) * PageSize
               limit == (MaxPage + 1) * PageSize
    <2>4. /\ end <= limit /\ end = begin + PageSize /\ begin \in Nat /\ limit \in Nat
          /\ tail' = begin + pages[left]
        BY <1>2, <2>1, <2>2, <2>3
    <2> HIDE DEF begin, end, limit
    <2>5. tail' \in 0..(limit - 1)
        BY <1>0, <1>1, <2>4
    <2> QED BY <2>5 DEF limit
<1>4. TypeOK'
    BY <1>0, <1>1, <1>2, <1>3 DEF TailInv, TypeOK
<1>5. ASSUME ~midnight PROVE tail' \in lenBefore..len
    <2>1. PICK n \in lenBefore..len : pages[left] = OnPage(n, left)
        BY <1>0, <1>5 DEF TailInv, Remembered
    <2>2. PICK full \in lenBefore..len : PageSize = OnPage(full, left - 1)
        BY <1>0, <1>5 DEF TailInv, Remembered
    <2>3. n \in Nat /\ full \in Nat /\ lenBefore \in Nat /\ len \in Nat
        BY <2>1, <2>2 DEF TailInv, TypeOK
    <2>4. full >= left * PageSize
        <3>1. full >= (left - 1 + 1) * PageSize
            BY <1>0, <2>2, <2>3, OnPageFacts
        <3>2. left - 1 + 1 = left
            BY <1>0
        <3> QED BY <3>1, <3>2
    <2>5. left * PageSize \in Nat
        BY <1>0
    <2>6. CASE n >= left * PageSize
        <3>1. n = left * PageSize + pages[left]
            BY <1>0, <2>1, <2>3, <2>6, OnPageFacts
        <3> QED BY <1>2, <2>1, <3>1
    <2>7. CASE n < left * PageSize
        <3>1. pages[left] = 0
            BY <1>0, <2>1, <2>3, <2>5, <2>7, OnPageFacts
        <3> QED BY <1>2, <2>1, <2>2, <2>3, <2>4, <2>5, <2>7, <3>1
    <2> QED BY <2>3, <2>5, <2>6, <2>7
<1> QED BY <1>1, <1>2, <1>4, <1>5 DEF TailInv, Bounds, TailSound

\* A failed query, and the list's growth and renewal.
LEMMA OtherSteps ==
    ASSUME TailInv, QueryFails \/ Grow \/ Midnight \/ UNCHANGED vars
    PROVE  TailInv'
<1>1. CASE QueryFails
    BY <1>1 DEF QueryFails, external, TailInv, TypeOK, Remembered, Bounds, TailSound
<1>2. CASE Grow
    <2>1. len \in Nat /\ lenBefore \in Nat /\ len' = len + 1
        BY <1>2 DEF Grow, TailInv, TypeOK
    <2>2. TypeOK' /\ Bounds'
        BY <1>2, <2>1 DEF Grow, TailInv, TypeOK, Bounds
    <2>3. Remembered'
        <3>1. lenBefore' = lenBefore /\ pages' = pages /\ midnight' = midnight
            BY <1>2 DEF Grow
        <3>2. lenBefore..len \subseteq lenBefore'..len'
            BY <2>1, <3>1
        <3> QED BY <3>1, <3>2, MaxPageType DEF TailInv, Remembered
    <2>4. TailSound' /\ (~midnight' => lenBefore' <= len')
        <3>1. MaxPage \in Nat /\ PageSize \in Nat /\ (MaxPage + 1) * PageSize \in Nat
            BY MaxPageType, TailAssumption
        <3> QED BY <1>2, <2>1, <3>1 DEF Grow, TailInv, TypeOK, TailSound
    <2> QED BY <2>2, <2>3, <2>4 DEF TailInv
<1>3. CASE Midnight
    BY <1>3 DEF Midnight, TailInv, TypeOK, Remembered, Bounds, TailSound
<1>4. CASE UNCHANGED vars
    BY <1>4 DEF vars, external, TailInv, TypeOK, Remembered, Bounds, TailSound
<1> QED BY <1>1, <1>2, <1>3, <1>4

\* The inductive invariant holds of every search.
LEMMA TailInvariant == Spec => []TailInv
<1>1. TailInv /\ [Next]_vars => TailInv'
    BY FirstPageStep, DoubleStep, BisectStep, LastPageStep, OtherSteps DEF Next, Search
<1> QED BY InitTail, <1>1, PTL DEF Spec

\* The search is sound and its variables keep their types, however the list
\* grows while it is searched.
THEOREM TailCorrect == Spec => [](TypeOK /\ TailSound)
<1>1. TailInv => TypeOK /\ TailSound
    BY DEF TailInv
<1> QED BY TailInvariant, <1>1, PTL

-----------------------------------------------------------------------------
(* The number of queries *)

\* Some page asked for is not below 2^m.
Deep(m) == \E page \in Known : page >= PowerOfTwo[m]

\* The pages asked for, with i more to come, are no more than FewQueries allows.
Paid(i) ==
    \/ Cardinality(Known) + i <= 1
    \/ \E m \in 0..MaxPage : Cardinality(Known) + i <= 2 * m + 3 /\ Deep(m)

\* The doubling has asked for page 0 and the powers of two up to low; of a
\* bisection of fewer than 2^i pages, i queries are left.
QueriesInv ==
    /\ pc = "first" => Known = {}
    /\ pc = "double" =>
         \/ low = 0 /\ high = (IF MaxPage < 1 THEN MaxPage ELSE 1) /\ Known = {0}
         \/ \E m \in 0..MaxPage : /\ low = PowerOfTwo[m] /\ high = Next2(low)
                                  /\ Cardinality(Known) <= m + 2
    /\ pc = "bisect" => \E i \in 0..MaxPage : right - left < PowerOfTwo[i] /\ Paid(i)
    /\ Paid(0)

-----------------------------------------------------------------------------

\* Natural induction, for a set of numbers: there is no least number missing.
LEMMA SetInduction ==
    ASSUME NEW S, 0 \in S, \A n \in Nat : n \in S => n + 1 \in S
    PROVE  Nat \subseteq S
<1> DEFINE lt == {p \in Nat \X Nat : p[1] < p[2]}
           missing == Nat \ S
<1> SUFFICES ASSUME missing # {} PROVE FALSE
    OBVIOUS
<1>1. IsWellFoundedOn(lt, Nat)
    BY NatLessThanWellFounded DEF OpToRel
<1>2. PICK t \in missing : \A y \in missing : <<y, t>> \notin lt
    <2>1. missing \subseteq Nat
        OBVIOUS
    <2> HIDE DEF lt, missing
    <2> QED BY <1>1, <2>1, WFMin
<1>3. t \in Nat /\ t # 0
    OBVIOUS
<1>4. t - 1 \in Nat /\ (t - 1) + 1 = t /\ t - 1 < t
    BY <1>3
<1>5. t - 1 \in S
    <2>1. <<t - 1, t>> \in lt
        BY <1>3, <1>4
    <2> QED BY <1>2, <1>4, <2>1
<1> QED BY <1>4, <1>5, <1>2

\* PowerOfTwo is what it says: it begins with 1 and doubles.
LEMMA PowersDouble ==
    /\ PowerOfTwo[0] = 1
    /\ \A k \in 1..MaxPage : PowerOfTwo[k] = 2 * PowerOfTwo[k - 1]
<1> DEFINE Doubles(n, u) == u = [k \in 0..n |-> IF k = 0 THEN 1 ELSE 2 * u[k - 1]]
           S == {n \in Nat : \E u : Doubles(n, u)}
<1>0. MaxPage \in Nat
    BY MaxPageType
<1>1. 0 \in S
    <2> DEFINE one == [k \in 0..0 |-> 1]
    <2>1. one = [k \in 0..0 |-> IF k = 0 THEN 1 ELSE 2 * one[k - 1]]
        OBVIOUS
    <2> QED BY <2>1
<1>2. ASSUME NEW n \in Nat, n \in S PROVE n + 1 \in S
    <2>1. PICK u : Doubles(n, u)
        BY <1>2
    <2> DEFINE v == [k \in 0..(n + 1) |-> IF k = n + 1 THEN 2 * u[n] ELSE u[k]]
    <2>2. ASSUME NEW k \in 0..(n + 1)
          PROVE  v[k] = IF k = 0 THEN 1 ELSE 2 * v[k - 1]
        <3>1. CASE k = n + 1
            BY <3>1
        <3>2. CASE k # n + 1
            <4>1. k \in 0..n /\ v[k] = u[k]
                BY <3>2
            <4>2. u[k] = IF k = 0 THEN 1 ELSE 2 * u[k - 1]
                BY <2>1, <4>1
            <4>3. k # 0 => v[k - 1] = u[k - 1]
                BY <4>1
            <4> QED BY <4>1, <4>2, <4>3
        <3> QED BY <3>1, <3>2
    <2>3. Doubles(n + 1, v)
        BY <2>2
    <2> HIDE DEF Doubles
    <2> QED BY <2>3
<1>3. Nat \subseteq S
    <2> HIDE DEF S
    <2> QED BY <1>1, <1>2, SetInduction
<1>4. \E u : Doubles(MaxPage, u)
    BY <1>0, <1>3
<1>5. Doubles(MaxPage, PowerOfTwo)
    BY <1>4 DEF PowerOfTwo
<1>6. \A k \in 0..MaxPage : PowerOfTwo[k] = IF k = 0 THEN 1 ELSE 2 * PowerOfTwo[k - 1]
    BY <1>5
<1> QED BY <1>0, <1>6

\* The powers of two are natural numbers and grow.
LEMMA PowersGrow ==
    /\ \A k \in 0..MaxPage : PowerOfTwo[k] \in Nat /\ PowerOfTwo[k] >= k + 1
    /\ \A j, k \in 0..MaxPage : j <= k => PowerOfTwo[j] <= PowerOfTwo[k]
<1> DEFINE S == {n \in Nat : n <= MaxPage =>
                    /\ PowerOfTwo[n] \in Nat /\ PowerOfTwo[n] >= n + 1
                    /\ \A j \in 0..n : PowerOfTwo[j] \in Nat /\ PowerOfTwo[j] <= PowerOfTwo[n]}
<1>1. 0 \in S
    BY PowersDouble
<1>2. ASSUME NEW n \in Nat, n \in S PROVE n + 1 \in S
    <2> SUFFICES ASSUME n + 1 <= MaxPage
                 PROVE  /\ PowerOfTwo[n + 1] \in Nat /\ PowerOfTwo[n + 1] >= (n + 1) + 1
                        /\ \A j \in 0..(n + 1) :
                             PowerOfTwo[j] \in Nat /\ PowerOfTwo[j] <= PowerOfTwo[n + 1]
        OBVIOUS
    <2>1. /\ PowerOfTwo[n] \in Nat /\ PowerOfTwo[n] >= n + 1
          /\ \A j \in 0..n : PowerOfTwo[j] \in Nat /\ PowerOfTwo[j] <= PowerOfTwo[n]
        BY <1>2, MaxPageType
    <2>2. PowerOfTwo[n + 1] = 2 * PowerOfTwo[n]
        <3>1. n + 1 \in 1..MaxPage /\ (n + 1) - 1 = n
            BY MaxPageType
        <3> QED BY <3>1, PowersDouble
    <2> QED BY <2>1, <2>2
<1>3. Nat \subseteq S
    <2> HIDE DEF S
    <2> QED BY <1>1, <1>2, SetInduction
<1> QED BY <1>3, MaxPageType

\* What is asked for is remembered: at most one page more, and none if it was
\* known.
LEMMA AskKnown ==
    ASSUME TypeOK, NEW page \in 0..MaxPage, Ask(page), Length(page) # Unknown
    PROVE  /\ IsFiniteSet(Known) /\ Cardinality(Known) \in Nat
           /\ Known' = Known \cup {page} /\ page \in Known' /\ Known \subseteq Known'
           /\ Cardinality(Known') \in Nat /\ Cardinality(Known') <= Cardinality(Known) + 1
           /\ page \in Known => Cardinality(Known') = Cardinality(Known)
<1>0. MaxPage \in Nat
    BY MaxPageType
<1>1. IsFiniteSet(Known)
    <2>1. IsFiniteSet(0..MaxPage) /\ Known \subseteq 0..MaxPage
        BY <1>0, FS_Interval DEF Known
    <2> QED BY <2>1, FS_Subset
<1>2. Known' = Known \cup {page}
    <2>1. pages' = [pages EXCEPT ![page] = Length(page)]
        BY DEF Ask
    <2>2. pages'[page] # Unknown /\ \A p \in 0..MaxPage : p # page => pages'[p] = pages[p]
        BY <2>1 DEF TypeOK
    <2>3. \A p \in 0..MaxPage : pages'[p] # Unknown <=> (pages[p] # Unknown \/ p = page)
        BY <2>2
    <2> QED BY <2>3, <1>0 DEF Known
<1>3. /\ IsFiniteSet(Known')
      /\ Cardinality(Known') = IF page \in Known THEN Cardinality(Known) ELSE Cardinality(Known) + 1
    BY <1>1, <1>2, FS_AddElement
<1>4. Cardinality(Known) \in Nat
    BY <1>1, FS_CardinalityType
<1> QED BY <1>1, <1>2, <1>3, <1>4

\* A page asked for is not forgotten.
LEMMA DeepStays ==
    ASSUME Known \subseteq Known'
    PROVE  \A m : Deep(m) => Deep(m)'
BY DEF Deep

\* A query is paid for by one of those that were left.
LEMMA PaysOne ==
    ASSUME NEW i \in Nat, NEW more \in 0..1, Paid(i + more), Known \subseteq Known',
           Cardinality(Known) \in Nat, Cardinality(Known') \in Nat,
           Cardinality(Known') <= Cardinality(Known) + more
    PROVE  Paid(i)'
<1>0. MaxPage \in Nat
    BY MaxPageType
<1>1. CASE Cardinality(Known) + (i + more) <= 1
    <2>1. Cardinality(Known') + i <= 1
        BY <1>1
    <2> QED BY <2>1 DEF Paid
<1>2. ASSUME NEW m \in 0..MaxPage, Cardinality(Known) + (i + more) <= 2 * m + 3, Deep(m)
      PROVE  Paid(i)'
    <2>1. Deep(m)'
        BY <1>2, DeepStays
    <2>2. Cardinality(Known') + i <= 2 * m + 3
        BY <1>0, <1>2
    <2> QED BY <2>1, <2>2 DEF Paid
<1> QED BY <1>1, <1>2 DEF Paid

\* What is paid for is what FewQueries allows.
LEMMA PaidIsFew ==
    ASSUME Paid(0), TypeOK, Cardinality(Known) \in Nat
    PROVE  FewQueries
<1> SUFFICES ASSUME NEW k \in 0..MaxPage, \A page \in Known : page < PowerOfTwo[k]
             PROVE  Cardinality(Known) <= 2 * k + 1
    BY DEF FewQueries
<1>0. MaxPage \in Nat /\ k \in Nat
    BY MaxPageType
<1>1. CASE Cardinality(Known) + 0 <= 1
    BY <1>0, <1>1
<1>2. ASSUME NEW m \in 0..MaxPage, Cardinality(Known) + 0 <= 2 * m + 3, Deep(m)
      PROVE  Cardinality(Known) <= 2 * k + 1
    <2>1. PICK page \in Known : page >= PowerOfTwo[m]
        BY <1>2 DEF Deep
    <2>2. page \in Nat /\ page < PowerOfTwo[k]
        BY <1>0 DEF Known
    <2>3. PowerOfTwo[k] \in Nat /\ PowerOfTwo[m] \in Nat
        BY PowersGrow
    <2>4. ~(k <= m)
        BY <2>1, <2>2, <2>3, PowersGrow
    <2> QED BY <1>0, <1>2, <2>4
<1> QED BY <1>1, <1>2 DEF Paid

\* The first query: one page.
LEMMA FirstPageQueries ==
    ASSUME TailInv, QueriesInv, FirstPage
    PROVE  QueriesInv'
<1>0. /\ TypeOK /\ 0 \in 0..MaxPage /\ Ask(0) /\ Length(0) # Unknown /\ Known = {}
    BY MaxPageType, AskRemembers, TailAssumption DEF TailInv, FirstPage, QueriesInv, Unknown
<1>1. Known' = {0}
    BY <1>0, AskKnown
<1>2. Cardinality(Known') = 1
    BY <1>1, FS_Singleton
<1>3. Paid(0)'
    BY <1>2 DEF Paid
<1>4. CASE pc' = "done"
    BY <1>3, <1>4 DEF QueriesInv
<1>5. CASE pc' = "double" /\ low' = 0 /\ high' = IF MaxPage < 1 THEN MaxPage ELSE 1
    BY <1>1, <1>3, <1>5 DEF QueriesInv
<1> QED BY <1>4, <1>5 DEF FirstPage, Finish

\* A page of the doubling that is at least 2^m pays for m queries of the
\* bisection, besides those of the doubling.
LEMMA DoublingPays ==
    ASSUME NEW m \in 0..MaxPage, NEW i \in 0..m, NEW page \in Known',
           page >= PowerOfTwo[m], Cardinality(Known') \in Nat, Cardinality(Known') <= m + 3
    PROVE  Paid(i)'
<1>1. Deep(m)'
    BY DEF Deep
<1>2. Cardinality(Known') + i <= 2 * m + 3
    BY MaxPageType
<1> QED BY <1>1, <1>2 DEF Paid

\* Doubling: one page more for each power of two.
LEMMA DoubleQueries ==
    ASSUME TailInv, QueriesInv, Double
    PROVE  QueriesInv'
<1>0. /\ TypeOK /\ MaxPage \in Nat /\ PageSize \in Nat \ {0}
      /\ low \in 0..MaxPage /\ high \in 0..MaxPage
      /\ pc = "double" /\ low <= high /\ pages[low] = PageSize /\ Ask(high)
    BY MaxPageType, TailAssumption DEF TailInv, TypeOK, Bounds, Double
<1>1. Length(high) \in 0..PageSize /\ Length(high) # Unknown
    BY <1>0, AskRemembers DEF TailInv, Unknown
<1>2. /\ Cardinality(Known) \in Nat /\ Cardinality(Known') \in Nat
      /\ Known' = Known \cup {high} /\ high \in Known'
      /\ Cardinality(Known') <= Cardinality(Known) + 1
    BY <1>0, <1>1, AskKnown
<1>3. low = high => Length(high) = PageSize
    BY <1>0, TailAssumption DEF Length, Unknown
<1>4. /\ \A k \in 0..MaxPage : PowerOfTwo[k] \in Nat /\ PowerOfTwo[k] >= k + 1
      /\ PowerOfTwo[0] = 1
    BY PowersGrow, PowersDouble
\* Where the step leads.
<1>5. \/ /\ pc' = "bisect" /\ left' = low + 1 /\ right' = high /\ low < high
      \/ /\ pc' = "overflow"
      \/ /\ pc' = "double" /\ low' = high /\ high' = Next2(high) /\ high # MaxPage
    BY <1>0, <1>1, <1>3 DEF Double, FirstCandidate
<1>6. CASE low = 0 /\ high = (IF MaxPage < 1 THEN MaxPage ELSE 1) /\ Known = {0}
    <2>1. Cardinality(Known) = 1
        BY <1>6, FS_Singleton
    <2>2. CASE high = 0
        <3>1. Known' = {0}
            BY <1>2, <1>6, <2>2
        <3>2. Cardinality(Known') = 1
            BY <3>1, FS_Singleton
        <3>3. Paid(0)'
            BY <3>2 DEF Paid
        <3>4. pc' = "overflow"
            BY <1>0, <1>5, <1>6, <2>2
        <3> QED BY <3>3, <3>4 DEF QueriesInv
    <2>3. CASE high # 0
        <3>1. high = 1 /\ 1 <= MaxPage
            BY <1>0, <1>6, <2>3
        <3>2. Paid(0)'
            <4>1. /\ 0 \in 0..MaxPage /\ 0 \in 0..0 /\ high >= PowerOfTwo[0]
                  /\ Cardinality(Known') <= 0 + 3
                BY <1>0, <1>2, <1>4, <2>1, <3>1
            <4> QED BY <1>2, <2>1, <4>1, DoublingPays
        <3>3. CASE pc' = "bisect" /\ left' = low + 1 /\ right' = high
            <4>1. 0 \in 0..MaxPage /\ right' - left' < PowerOfTwo[0]
                BY <1>0, <1>4, <1>6, <3>1, <3>3
            <4> QED BY <3>2, <3>3, <4>1 DEF QueriesInv
        <3>4. CASE pc' = "double" /\ low' = high /\ high' = Next2(high)
            <4>1. /\ 0 \in 0..MaxPage /\ low' = PowerOfTwo[0] /\ high' = Next2(low')
                  /\ Cardinality(Known') <= 0 + 2
                BY <1>0, <1>2, <1>4, <2>1, <3>1, <3>4
            <4> QED BY <3>2, <3>4, <4>1 DEF QueriesInv
        <3>5. CASE pc' = "overflow"
            BY <3>2, <3>5 DEF QueriesInv
        <3> QED BY <1>5, <3>3, <3>4, <3>5
    <2> QED BY <2>2, <2>3
<1>7. ASSUME NEW m \in 0..MaxPage, low = PowerOfTwo[m], high = Next2(low), Cardinality(Known) <= m + 2
      PROVE  QueriesInv'
    <2>1. Cardinality(Known') <= m + 3 /\ high >= PowerOfTwo[m] /\ m \in Nat
        BY <1>0, <1>2, <1>7
    <2>2. 0 \in 0..m /\ m \in 0..m
        BY <2>1
    <2>3. Paid(0)' /\ Paid(m)'
        BY <1>2, <2>1, <2>2, DoublingPays
    <2>4. high <= 2 * low /\ (high # MaxPage => high = 2 * low)
        BY <1>0, <1>7 DEF Next2
    <2>5. CASE pc' = "bisect" /\ left' = low + 1 /\ right' = high
        <3>1. right' - left' < PowerOfTwo[m]
            BY <1>0, <1>7, <2>4, <2>5
        <3> QED BY <2>3, <2>5, <3>1 DEF QueriesInv
    <2>6. CASE pc' = "double" /\ low' = high /\ high' = Next2(high) /\ high # MaxPage
        <3>1. m + 1 \in 1..MaxPage /\ m + 1 \in 0..MaxPage /\ (m + 1) - 1 = m
            BY <1>0, <1>4, <1>7, <2>1, <2>6
        <3>2. PowerOfTwo[m + 1] = 2 * PowerOfTwo[m]
            BY <3>1, PowersDouble
        <3>3. /\ low' = PowerOfTwo[m + 1] /\ high' = Next2(low')
              /\ Cardinality(Known') <= (m + 1) + 2
            BY <1>0, <1>2, <1>7, <2>1, <2>4, <2>6, <3>2
        <3> QED BY <2>3, <2>6, <3>1, <3>3 DEF QueriesInv
    <2>7. CASE pc' = "overflow"
        BY <2>3, <2>7 DEF QueriesInv
    <2> QED BY <1>5, <2>5, <2>6, <2>7
<1> QED BY <1>0, <1>6, <1>7 DEF QueriesInv

\* Bisecting: of fewer than 2^i pages, fewer than half as many are left.
LEMMA BisectQueries ==
    ASSUME TailInv, QueriesInv, Bisect
    PROVE  QueriesInv'
<1>0. /\ TypeOK /\ MaxPage \in Nat /\ left \in Nat /\ right \in 0..MaxPage /\ left < right
      /\ pc = "bisect" /\ pc' = "bisect" /\ Ask(Middle)
    BY MaxPageType DEF TailInv, TypeOK, Bisect
<1>1. /\ Middle \in left..(right - 1) /\ Middle \in 0..MaxPage
      /\ Middle - left <= right - Middle /\ right - Middle <= Middle - left + 1
    BY <1>0 DEF Middle
<1>2. Length(Middle) # Unknown
    BY <1>0, <1>1, AskRemembers, TailAssumption DEF TailInv, Unknown
<1>3. /\ Cardinality(Known) \in Nat /\ Cardinality(Known') \in Nat
      /\ Known \subseteq Known' /\ Cardinality(Known') <= Cardinality(Known) + 1
    BY <1>0, <1>1, <1>2, AskKnown
<1>4. PICK i \in 0..MaxPage : right - left < PowerOfTwo[i] /\ Paid(i)
    BY <1>0 DEF QueriesInv
<1>5. i # 0
    BY <1>0, <1>4, PowersDouble
<1>6. i \in 1..MaxPage /\ i - 1 \in 0..MaxPage /\ i - 1 \in Nat /\ (i - 1) + 1 = i
    BY <1>0, <1>5
<1>7. PowerOfTwo[i] = 2 * PowerOfTwo[i - 1] /\ PowerOfTwo[i - 1] \in Nat
    BY <1>6, PowersDouble, PowersGrow
<1>8. right' - left' < PowerOfTwo[i - 1]
    <2>1. \/ left' = Middle + 1 /\ right' = right
          \/ left' = left /\ right' = Middle
        BY DEF Bisect, AfterFull
    <2> QED BY <1>0, <1>1, <1>4, <1>7, <2>1
<1>9. Paid(i - 1)'
    <2>1. 1 \in 0..1 /\ Paid((i - 1) + 1)
        BY <1>4, <1>6
    <2> QED BY <1>3, <1>6, <2>1, PaysOne
<1>10. Paid(0)'
    <2>1. \/ Cardinality(Known') + (i - 1) <= 1
          \/ \E m \in 0..MaxPage : Cardinality(Known') + (i - 1) <= 2 * m + 3 /\ Deep(m)'
        BY <1>9 DEF Paid
    <2>2. \/ Cardinality(Known') + 0 <= 1
          \/ \E m \in 0..MaxPage : Cardinality(Known') + 0 <= 2 * m + 3 /\ Deep(m)'
        BY <1>0, <1>3, <1>6, <2>1
    <2> QED BY <2>2 DEF Paid
<1> QED BY <1>0, <1>6, <1>8, <1>9, <1>10 DEF QueriesInv

\* The last page was asked for before; the other steps ask for none.
LEMMA OtherQueries ==
    ASSUME TailInv, QueriesInv, LastPage \/ QueryFails \/ Grow \/ Midnight \/ UNCHANGED vars
    PROVE  QueriesInv'
<1>1. CASE LastPage
    <2>1. /\ TypeOK /\ left = right /\ left \in 0..MaxPage /\ pages[left] # Unknown
          /\ Ask(left) /\ pc' = "done"
        BY <1>1, MaxPageType DEF TailInv, TypeOK, Bounds, LastPage, Finish
    <2>2. Length(left) # Unknown /\ left \in Known
        BY <2>1 DEF Length, Known
    <2>3. Known' = Known
        BY <2>1, <2>2, AskKnown
    <2>4. Paid(0)'
        BY <2>3 DEF QueriesInv, Paid, Deep
    <2> QED BY <2>1, <2>4 DEF QueriesInv
<1>2. CASE QueryFails
    <2>1. pc' = "failed" /\ Known' = Known
        BY <1>2 DEF QueryFails, Known
    <2>2. Paid(0)'
        BY <2>1 DEF QueriesInv, Paid, Deep
    <2> QED BY <2>1, <2>2 DEF QueriesInv
<1>3. CASE Grow \/ Midnight \/ UNCHANGED vars
    <2>1. UNCHANGED <<pc, pages, low, high, left, right>>
        BY <1>3 DEF Grow, Midnight, vars
    <2>2. Known' = Known
        BY <2>1 DEF Known
    <2>3. \A i : Paid(i)' <=> Paid(i)
        BY <2>2 DEF Paid, Deep
    <2> QED BY <2>1, <2>2, <2>3 DEF QueriesInv
<1> QED BY <1>1, <1>2, <1>3

\* A search asks for few pages, wherever the list ends and however it grows, is renewed
\* or fails to be read meanwhile.
THEOREM QueriesAreFew == Spec => []FewQueries
<1>1. Init => QueriesInv
    <2> SUFFICES ASSUME Init PROVE QueriesInv
        OBVIOUS
    <2>1. Known = {}
        BY DEF Init, Known
    <2>2. Cardinality(Known) = 0
        BY <2>1, FS_EmptySet
    <2>3. Paid(0)
        BY <2>2 DEF Paid
    <2> QED BY <2>1, <2>3 DEF Init, QueriesInv
<1>2. TailInv /\ QueriesInv /\ [Next]_vars => QueriesInv'
    BY FirstPageQueries, DoubleQueries, BisectQueries, OtherQueries DEF Next, Search
<1>3. TailInv /\ QueriesInv => FewQueries
    <2> SUFFICES ASSUME TailInv, QueriesInv PROVE FewQueries
        OBVIOUS
    <2>1. IsFiniteSet(0..MaxPage) /\ Known \subseteq 0..MaxPage
        BY MaxPageType, FS_Interval DEF Known
    <2>2. Cardinality(Known) \in Nat
        BY <2>1, FS_Subset, FS_CardinalityType
    <2> QED BY <2>2, PaidIsFew DEF TailInv, QueriesInv
<1> QED BY TailInvariant, <1>1, <1>2, <1>3, PTL DEF Spec
=============================================================================
