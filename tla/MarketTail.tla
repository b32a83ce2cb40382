----------------------------- MODULE MarketTail -----------------------------
(***************************************************************************)
(* findMarketTail (src/routes/unusual/handler.go): where a market's list   *)
(* of unusual events ends, found by doubling the page number and then      *)
(* bisecting, one server query at a time, while the list goes on growing   *)
(* and may start again at midnight.  A page is asked for at most once: its *)
(* length is remembered, and is an old one when it is used again.          *)
(*                                                                         *)
(* A step is one call of the closure queryPage with what the code does     *)
(* with the answer.  UnusualHub takes the whole search as one operation    *)
(* (its Tails); TailSound is what justifies that.                          *)
(***************************************************************************)
EXTENDS Integers, FiniteSets

CONSTANTS
    PageSize,   \* stockUnusualMonitorCount (600)
    MaxStart,   \* stockUnusualMaxStart (65535)
    MaxLen      \* bound: the length the list may grow to

ASSUME TailAssumption ==
    /\ PageSize \in Nat \ {0}
    /\ MaxStart \in Nat
    /\ MaxLen \in Nat

VARIABLES
    len,       \* external: the length of the list
    lenBefore, \* history: what it was when the search began
    midnight,  \* history: the list has started again since
    pc,        \* the part of the search the next query belongs to
    pages,     \* pageLengths
    low, high, \* lowPage, highPage
    left, right,
    tail       \* the result

external == <<len, lenBefore, midnight>>
vars == <<external, pc, pages, low, high, left, right, tail>>

MaxPage == MaxStart \div PageSize
Unknown == -1

\* How much of a list of n events is on a page.
OnPage(n, page) ==
    IF n <= page * PageSize THEN 0
    ELSE IF n >= (page + 1) * PageSize THEN PageSize
    ELSE n - page * PageSize

\* Mutant: the pages are asked for one after the other.
Next2_Linear(page) == IF page + 1 > MaxPage THEN MaxPage ELSE page + 1

\* The page after page while doubling.
Next2(page) == IF 2 * page > MaxPage THEN MaxPage ELSE 2 * page

\* queryPage: the remembered length, or the server's.
Length(page) == IF pages[page] # Unknown THEN pages[page] ELSE OnPage(len, page)
Ask(page) == pages' = [pages EXCEPT ![page] = Length(page)]

Finish(n) == pc' = "done" /\ tail' = n

FirstPage ==
    /\ pc = "first"
    /\ Ask(0)
    /\ \/ /\ Length(0) < PageSize
          /\ Finish(Length(0))
          /\ UNCHANGED <<low, high>>
       \/ /\ Length(0) = PageSize
          /\ pc' = "double"
          /\ low' = 0
          /\ high' = IF MaxPage < 1 THEN MaxPage ELSE 1
          /\ UNCHANGED tail
    /\ UNCHANGED <<external, left, right>>

\* Mutant: the bisection leaves out the page after the last full one.
FirstCandidate_Skips == low + 2

\* Where the bisection begins.
FirstCandidate == low + 1

Double ==
    /\ pc = "double"
    /\ Ask(high)
    /\ \/ /\ Length(high) < PageSize
          /\ pc' = "bisect"
          /\ left' = FirstCandidate
          /\ right' = high
          /\ UNCHANGED <<low, high>>
       \/ /\ Length(high) = PageSize
          /\ IF high = MaxPage
               THEN pc' = "overflow" /\ UNCHANGED <<low, high>>
               ELSE low' = high /\ high' = Next2(high) /\ UNCHANGED pc
          /\ UNCHANGED <<left, right>>
    /\ UNCHANGED <<external, tail>>

Middle == left + (right - left) \div 2

\* Mutant: a full page is not excluded.
AfterFull_Same(page) == page

\* The first page that may be the last one, page being full.
AfterFull(page) == page + 1

Bisect ==
    /\ pc = "bisect"
    /\ left < right
    /\ Ask(Middle)
    /\ \/ Length(Middle) = PageSize /\ left' = AfterFull(Middle) /\ UNCHANGED right
       \/ Length(Middle) # PageSize /\ right' = Middle /\ UNCHANGED left
    /\ UNCHANGED <<external, pc, low, high, tail>>

LastPage ==
    /\ pc = "bisect"
    /\ left >= right
    /\ Ask(left)
    /\ Finish(left * PageSize + Length(left))
    /\ UNCHANGED <<external, low, high, left, right>>

\* All attempts of a query that is needed fail.
QueryFails ==
    /\ \/ pc = "first"
       \/ pc = "double" /\ pages[high] = Unknown
       \/ pc = "bisect" /\ left < right /\ pages[Middle] = Unknown
       \/ pc = "bisect" /\ left >= right /\ pages[left] = Unknown
    /\ pc' = "failed"
    /\ UNCHANGED <<external, pages, low, high, left, right, tail>>

\* External: an event is published.
Grow ==
    /\ len < MaxLen
    /\ len' = len + 1
    /\ UNCHANGED <<lenBefore, midnight, pc, pages, low, high, left, right, tail>>

\* External: a new day begins; a search takes less than one.
Midnight ==
    /\ ~midnight
    /\ midnight' = TRUE
    /\ len' = 0
    /\ UNCHANGED <<lenBefore, pc, pages, low, high, left, right, tail>>

Init ==
    /\ len \in 0..MaxLen
    /\ lenBefore = len
    /\ midnight = FALSE
    /\ pc = "first"
    /\ pages = [page \in 0..MaxPage |-> Unknown]
    /\ low = 0 /\ high = 0 /\ left = 0 /\ right = 0
    /\ tail = 0

Search == FirstPage \/ Double \/ Bisect \/ LastPage \/ QueryFails

Next == Search \/ Grow \/ Midnight

Spec == Init /\ [][Next]_vars

FairSpec == Spec /\ WF_vars(Search)

-----------------------------------------------------------------------------
(* Properties                                                              *)

TypeOK ==
    /\ len \in Nat /\ lenBefore \in Nat /\ midnight \in BOOLEAN
    /\ pc \in {"first", "double", "bisect", "done", "overflow", "failed"}
    /\ pages \in [0..MaxPage -> Unknown..PageSize]
    /\ low \in 0..MaxPage /\ high \in 0..MaxPage
    /\ left \in 0..MaxPage /\ right \in 0..MaxPage
    /\ tail \in 0..((MaxPage + 1) * PageSize - 1)

\* What the search finds is a length the list had at some moment of the
\* search, though it is put together from page lengths of different moments:
\* no event published before it is taken for new, none published after it is
\* missed.  The list is reported too long only if it is.
TailSound ==
    ~midnight =>
        /\ pc = "done" => tail \in lenBefore..len
        /\ pc = "overflow" => len >= (MaxPage + 1) * PageSize

Known == {page \in 0..MaxPage : pages[page] # Unknown}

\* 2^k, as a function that proofs can unfold.
PowerOfTwo[k \in 0..MaxPage] == IF k = 0 THEN 1 ELSE 2 * PowerOfTwo[k - 1]

\* A search costs few queries, each of which is a connection of its own: with
\* the last page it had reason to ask for below 2^k, at most 2k + 1.
FewQueries ==
    \A k \in 0..MaxPage :
        (\A page \in Known : page < PowerOfTwo[k]) => Cardinality(Known) <= 2 * k + 1

\* Every search ends, whatever the list does meanwhile.
SearchEnds == <>(pc \in {"done", "overflow", "failed"})
=============================================================================
