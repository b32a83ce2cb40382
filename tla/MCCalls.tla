------------------------------ MODULE MCCalls ------------------------------
(***************************************************************************)
(* One instance for the calls that take several queries: a behaviour is    *)
(* one of a paged call, of quotations that fill the cache of decimal       *)
(* points, of a request to the auction service, or of a query for the bars *)
(* of an interval.  They share nothing; one state space holds the four     *)
(* side by side.                                                           *)
(***************************************************************************)
EXTENDS Paging, DecimalCache, AuctionDays, KlineRange

CONSTANTS m1, c1, c2, c3

VARIABLE kind   \* which of the four the behaviour is of

OneList == [m \in Market |-> <<c1, c2>>]
TwoBatches == {{<<m1, c2>>}, {<<m1, c1>>, <<m1, c3>>}}

callsVars == <<pagingVars, decimalVars, auctionVars, rangeVars, kind>>

NoPaging ==
  /\ call = [op |-> StockAll, start |-> 0, count |-> 0, until |-> 0]
  /\ pc = "error" /\ start = 0 /\ left = 0 /\ result = << >>
  /\ list = << >> /\ before = << >> /\ inserted = 0 /\ removed = 0

NoAuction ==
  /\ step = "failed" /\ days = 1 /\ offset = 0 /\ found = {} /\ read = {}
  /\ dates = << >> /\ rows = << >> /\ today = 1 /\ minute = 1 /\ deals = {} /\ firstDay = 1

NoRange ==
  /\ phase = "failed" /\ len = 0 /\ lenBefore = 0 /\ rangeStart = 1 /\ rangeEnd = 1
  /\ low = 0 /\ high = 1 /\ pageOffset = 0 /\ bars = {}

Init ==
  \/ kind = "paging" /\ PagingInit /\ DecimalInit /\ NoAuction /\ NoRange
  \/ kind = "decimal" /\ NoPaging /\ DecimalInit /\ NoAuction /\ NoRange
  \/ kind = "auction" /\ NoPaging /\ DecimalInit /\ AuctionInit /\ NoRange
  \/ kind = "range" /\ NoPaging /\ DecimalInit /\ NoAuction /\ RangeInit

PagingStep(A) == kind = "paging" /\ A /\ UNCHANGED <<decimalVars, auctionVars, rangeVars, kind>>
DecimalStep == kind = "decimal" /\ DecimalNext /\ UNCHANGED <<pagingVars, auctionVars, rangeVars, kind>>
AuctionStep == kind = "auction" /\ AuctionNext /\ UNCHANGED <<pagingVars, decimalVars, rangeVars, kind>>
RangeStep(A) == kind = "range" /\ A /\ UNCHANGED <<pagingVars, decimalVars, auctionVars, kind>>

Next == PagingStep(PagingNext) \/ DecimalStep \/ AuctionStep \/ RangeStep(RangeNext)

\* A request is answered, or runs into its deadline.
Spec ==
  /\ Init /\ [][Next]_callsVars
  /\ WF_pagingVars(PagingStep(Answered))
  /\ WF_rangeVars(RangeStep(Fetch))

TypeOK == PagingTypeOK /\ DecimalTypeOK /\ AuctionTypeOK /\ RangeTypeOK

\* Every paged call returns, if its offsets can be told to the server and a stock whose
\* bars are asked for has one; so does every query for an interval, though the history
\* grows meanwhile.
PagedCallReturns == (kind = "paging" => CallReturns) /\ (kind = "range" => QueryEnds)
=============================================================================
