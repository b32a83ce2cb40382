----------------------------- MODULE AuctionDays -----------------------------
(***************************************************************************)
(* The auction service answers, for a stock, the last so many days with a  *)
(* call auction, and for each the turnover of the day before.  It finds    *)
(* the days in pages of one-minute bars, the newest first, each day having *)
(* one bar of 09:31; it then reads pages of daily bars until every day     *)
(* found has an earlier one among them; and it looks in the deals of each  *)
(* day for the auction's.  Bars are added meanwhile, and offsets count     *)
(* from the newest.  Days are numbered; a minute bar is the pair of its    *)
(* day and its place in it, the first being that of 09:31.                 *)
(***************************************************************************)
EXTENDS Integers, FiniteSets, Sequences, SequencesExt

CONSTANTS BarPage,    \* klinePageSize, bars asked for at a time
          MaxOffset,  \* maxKLineOffset, where the search is given up
          Minutes,    \* bars of a trading day, more than one
          MaxDays,    \* the largest number of days that may be asked for
          LastDay     \* bound: the days of the stock are at most 1..LastDay

ASSUME AuctionAssumption ==
  /\ {BarPage, MaxOffset, Minutes, MaxDays, LastDay} \subseteq Nat \ {0}
  /\ Minutes > 1

VARIABLES step,     \* "dates", "previous", "deals", "answered" or "failed"
          days,     \* how many are asked for
          offset,   \* start
          found,    \* the dates found
          read,     \* the days whose daily bar has been read
          dates,    \* the dates still to be looked at, newest first
          rows,     \* the answer: pairs of a date and the day whose turnover is given
          today, minute,  \* the server's newest bar
          deals,    \* the days whose auction had deals
          firstDay  \* history: the newest day when the call was made

auctionVars == <<step, days, offset, found, read, dates, rows, today, minute, deals, firstDay>>
market == <<today, minute, deals, firstDay>>

-----------------------------------------------------------------------------
(* The server.                                                             *)

\* The o-th bar of a minute, counted from the newest; 0 is the newest.
MinuteBars == (today - 1) * Minutes + minute
DayOf(o) == ((MinuteBars - o - 1) \div Minutes) + 1
PlaceOf(o) == ((MinuteBars - o - 1) % Minutes) + 1
MinutePage == offset..(IF offset + BarPage < MinuteBars THEN offset + BarPage ELSE MinuteBars) - 1

\* The daily bars of a page; today has one as soon as it has a minute.
DailyPage == {d \in 1..today : today - d \in offset..(offset + BarPage - 1)}

NextBar ==
  /\ step \in {"dates", "previous", "deals"}
  /\ \/ minute < Minutes /\ minute' = minute + 1 /\ UNCHANGED <<today, deals>>
     \/ minute = Minutes /\ today < LastDay /\ minute' = 1 /\ today' = today + 1
        /\ deals' \in {deals, deals \cup {today + 1}}
  /\ UNCHANGED <<step, days, offset, found, read, dates, rows, firstDay>>

-----------------------------------------------------------------------------
(* findAuctionDates.                                                       *)

Searching == step = "dates" /\ offset < MaxOffset /\ Cardinality(found) < days

\* Mutant: every other page is left out.
NextPage_Twice == offset + BarPage + BarPage

NextPage == offset + BarPage

DatesPage ==
  /\ Searching
  /\ found' = found \cup {DayOf(o) : o \in {o \in MinutePage : PlaceOf(o) = 1}}
  /\ offset' = IF Cardinality(MinutePage) < BarPage THEN MaxOffset ELSE NextPage
  /\ UNCHANGED <<step, days, read, dates, rows, market>>

\* The sequences of all of S, newest first: there is one.
Descending(S) == {all \in SetToSeqs(S) : \A i, j \in DOMAIN all : i < j => all[i] > all[j]}

\* The latest of the dates.
DatesFound ==
  /\ step = "dates" /\ ~Searching
  /\ \E all \in Descending(found) : dates' = SubSeq(all, 1, IF Len(all) > days THEN days ELSE Len(all))
  /\ step' = IF found = {} THEN "answered" ELSE "previous"
  /\ offset' = 0
  /\ UNCHANGED <<days, found, read, rows, market>>

-----------------------------------------------------------------------------
(* findPreviousAmounts.                                                    *)

\* The daily bars read that are of earlier days.
Earlier(date) == {d \in read : d < date}
\* Mutant: the first day that is earlier.
Previous_First(date) == CHOOSE d \in Earlier(date) : \A e \in Earlier(date) : d <= e

\* The day before: the greatest of them.
Previous(date) == CHOOSE d \in Earlier(date) : \A e \in Earlier(date) : e <= d

\* Every date has an earlier day.
AllHave == \A i \in DOMAIN dates : Earlier(dates[i]) # {}

PreviousPage ==
  /\ step = "previous" /\ offset < MaxOffset /\ ~AllHave
  /\ read' = read \cup DailyPage
  /\ offset' = IF Cardinality(DailyPage) < BarPage THEN MaxOffset ELSE NextPage
  /\ UNCHANGED <<step, days, found, dates, rows, market>>

PreviousFound ==
  /\ step = "previous" /\ (offset >= MaxOffset \/ AllHave)
  /\ step' = "deals"
  /\ UNCHANGED <<days, offset, found, read, dates, rows, market>>

-----------------------------------------------------------------------------
(* fetchCode, one date after the other.                                    *)

\* A date without an auction's deal, or without a day before, is left out.
Kept(date) == date \in deals /\ Earlier(date) # {}

DealsOf ==
  /\ step = "deals" /\ dates # << >>
  /\ LET date == Head(dates)
     IN rows' = IF Kept(date) THEN Append(rows, <<date, Previous(date)>>) ELSE rows
  /\ dates' = Tail(dates)
  /\ UNCHANGED <<step, days, offset, found, read, market>>

AllAnswered ==
  /\ step = "deals" /\ dates = << >>
  /\ step' = "answered"
  /\ UNCHANGED <<days, offset, found, read, dates, rows, market>>

\* Any request may fail, and the answer is the error.
Fails ==
  /\ step \in {"dates", "previous", "deals"}
  /\ step' = "failed"
  /\ UNCHANGED <<days, offset, found, read, dates, rows, market>>
-----------------------------------------------------------------------------
AuctionInit ==
  /\ step = "dates" /\ days \in 1..MaxDays
  /\ offset = 0 /\ found = {} /\ read = {} /\ dates = << >> /\ rows = << >>
  /\ today \in 1..LastDay /\ minute \in 1..Minutes
  /\ deals \in SUBSET (1..today)
  /\ firstDay = today

AuctionNext == DatesPage \/ DatesFound \/ PreviousPage \/ PreviousFound \/ DealsOf \/ AllAnswered \/ Fails \/ NextBar
AuctionSpec == AuctionInit /\ [][AuctionNext]_auctionVars

-----------------------------------------------------------------------------
(* Properties.                                                             *)

AuctionTypeOK ==
  /\ step \in {"dates", "previous", "deals", "answered", "failed"}
  /\ found \subseteq 1..LastDay /\ read \subseteq 1..LastDay
  /\ days \in 1..MaxDays /\ Len(dates) <= days /\ Len(rows) <= days
  /\ today \in 1..LastDay /\ minute \in 1..Minutes /\ deals \subseteq 1..today

\* The turnover given with a date is that of the trading day before it, although the
\* days are read in pages that move, and an older day is enough to end the search.
PreviousIsAdjacent == \A i \in DOMAIN rows : rows[i][2] = rows[i][1] - 1

\* The answer is of the latest days: newest first, none of those that had begun when it
\* was asked for left out between them or before them, except for want of an auction's
\* deal; and so many as asked for, as far as the search reaches back and every day had one.
LatestDays ==
  step = "answered" =>
    LET given == {rows[i][1] : i \in DOMAIN rows}
        reach == {d \in 2..firstDay : (today - d + 1) * Minutes <= MaxOffset}
    IN /\ \A i, j \in DOMAIN rows : i < j => rows[i][1] > rows[j][1]
       /\ \A d \in (2..firstDay) \cap deals : (\E g \in given : g < d) => d \in given
       /\ 1..today \subseteq deals => Cardinality(given) >= (IF days < Cardinality(reach) THEN days ELSE Cardinality(reach))
=============================================================================
