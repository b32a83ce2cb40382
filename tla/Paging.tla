------------------------------- MODULE Paging -------------------------------
(***************************************************************************)
(* Calls of the client that read a list of the server page by page: the    *)
(* lists of securities and boards, bars, transactions, auctions, unusual   *)
(* events, files.  Each page is a request of its own, and the server's     *)
(* list may change between two of them.                                    *)
(*                                                                         *)
(* The loops differ in a few respects only, which are the fields of an     *)
(* operation:                                                              *)
(*   range    the loop variable counts modulo so much,                     *)
(*   wire     the request carries the offset modulo so much,               *)
(*   reach    an offset from here on is refused,                           *)
(*   limit    how much is read: everything ("none"), a number of entries   *)
(*            ("count"), or at least so many bytes ("size"),               *)
(*   stop     which page is the last: a "short" one or an "empty" one,     *)
(*   newest   the list is kept newest first; each page is in the order of  *)
(*            time, however, and it is put                                 *)
(*   front    in front of what was read before, or behind it,              *)
(*   bars     one bar more than asked for is requested, for the close      *)
(*            before the first; the oldest of each page is not returned.   *)
(***************************************************************************)
EXTENDS Integers, Sequences, SequencesExt

CONSTANTS Page,        \* entries asked for at a time
          Narrow,      \* the range of a 16-bit offset
          Wide,        \* the range of a 32-bit offset
          MaxLen,      \* bound: the server's list has at most so many entries
          MaxChanges,  \* bound: how often it changes during a call
          MaxRead      \* bound: a call that starts over again and again is followed so far

ASSUME PagingAssumption ==
  /\ {Page, Narrow, Wide, MaxLen} \subseteq Nat \ {0}
  /\ Page <= Narrow /\ Narrow < Wide /\ MaxLen < Wide
  /\ MaxChanges \in Nat /\ MaxRead \in Nat
  /\ MaxRead >= MaxLen + MaxChanges + Page

VARIABLES call,      \* the operation with its arguments
          pc,        \* "meta", "reading", "opening", or how the call ended
          start,     \* start, currentStart or downloaded
          left,      \* remaining; for a file what is known of its size, 0 if nothing
          result,    \* what has been read, in the order of the code's list
          list,      \* the server's list by offset
          before,    \* history: the list when the call was made
          inserted,  \* history: entries that were added since
          removed    \* history: entries that were removed since

pagingVars == <<call, pc, start, left, result, list, before, inserted, removed>>
locals == <<start, left, result>>
server == <<list, before, inserted, removed>>

Least(a, b) == IF a < b THEN a ELSE b

-----------------------------------------------------------------------------
(* The operations.                                                         *)

Plain == [range |-> Wide, wire |-> Wide, reach |-> Wide, limit |-> "none",
          stop |-> "short", newest |-> FALSE, front |-> FALSE, bars |-> FALSE]

NewestFirst == [Plain EXCEPT !.newest = TRUE, !.front = TRUE]

StockAll == Plain
StockFullKLine == [NewestFirst EXCEPT !.range = Narrow, !.wire = Narrow, !.bars = TRUE]
StockFullAuction == NewestFirst
StockFullTransaction == [NewestFirst EXCEPT !.range = Narrow, !.wire = Narrow]
StockHistoryFullTransaction == StockFullTransaction
StockHistoryFullTransactionWithTrans == StockFullTransaction

\* Up to count entries, the last page asked for being as small as needed.
Counted == [Plain EXCEPT !.limit = "count"]

MACBoardList == [Counted EXCEPT !.wire = Narrow]
MACBoardMembersWithSort == Counted
MACBoardMembersQuotesDynamicWithFilter == Counted
MACBoardMembersQuotesWithSort == Counted
MACTransactionsWithDate == Counted
MACAuction == Counted
MACMarketMonitor == [Counted EXCEPT !.reach = Narrow]
MACSymbolBars == [Counted EXCEPT !.newest = TRUE, !.bars = TRUE]

\* A file: chunks of fixed size until one is empty or the known size is reached.
File == [Plain EXCEPT !.limit = "size", !.stop = "empty"]

DownloadFullFile == File
ExDownloadFullFile == File
MACDownloadFullFile == File
getExTable == [File EXCEPT !.limit = "none"]

\* One of each kind: names above that are the same record are one element here.
Operation == {StockAll, StockFullKLine, StockFullAuction, StockFullTransaction, MACBoardList,
              MACMarketMonitor, MACSymbolBars, DownloadFullFile, getExTable}

\* StockFullKLine reads up to the bar its caller recognises; 0 is none.
Stops(o) == IF o = StockFullKLine THEN 0..MaxLen ELSE {0}

-----------------------------------------------------------------------------
(* One page.                                                               *)

op == call.op

Asked == IF op.limit = "count" THEN Least(Page, left) ELSE Page

\* The server's answer.
Answer(offset, count) == SubSeq(list, offset + 1, Least(offset + count, Len(list)))

\* What the client makes of it: of bars, one more is asked for, the oldest is left out,
\* and the count, which StockFullKLine looks at instead of the list, is one less, in 16
\* bits: less than none is the greatest number.
PageOf(offset) == IF op.bars /\ Answer(offset, Asked + 1) # << >>
                  THEN Front(Answer(offset, Asked + 1)) ELSE Answer(offset, Asked)
Told(offset) == IF op = StockFullKLine THEN (Len(Answer(offset, Asked + 1)) - 1) % Narrow ELSE Len(PageOf(offset))

\* Where the code stops within a page of bars, which it walks from the newest; 0: nowhere.
Match(page) == IF \E i \in DOMAIN page : page[i] = call.until
               THEN CHOOSE i \in DOMAIN page : page[i] = call.until ELSE 0

\* Mutant: the two directions are mixed up.
Joined_Swapped(page) == IF op.front THEN result \o Reverse(page) ELSE result \o page

InTime(page) == IF op.newest THEN Reverse(page) ELSE page
Joined(page) == IF op.front THEN InTime(page) \o result ELSE result \o InTime(page)

\* Mutant: an empty chunk does not end a file.
LastPage_Never(told) == op.stop # "empty" /\ told < Asked

LastPage(told) == IF op.stop = "empty" THEN told = 0 ELSE told < Asked

\* The code goes on by what it asked for, in a file by what it got.
Advance(page) == IF op.stop = "empty" THEN Len(page) ELSE Asked

\* Mutants: an offset beyond its type; pages that overlap.
Start_Unbounded(page) == start + Advance(page)
Start_Behind(page) == (start + Advance(page) - 1) % op.range

NextStart(page) == (start + Advance(page)) % op.range

LimitReached(page) ==
  \/ op.limit = "count" /\ left = Asked
  \/ op.limit = "size" /\ left # 0 /\ start + Len(page) >= left

-----------------------------------------------------------------------------
(* The call.                                                               *)

\* A page of bars that holds the bar looked for ends the call at that bar, as it is.
Found ==
  /\ pc = "reading" /\ start < op.reach
  /\ LET page == PageOf(start % op.wire)
     IN /\ Match(page) # 0
        /\ result' = Joined(SubSeq(page, 1, Match(page)))
        /\ pc' = "done"
  /\ UNCHANGED <<call, start, left, server>>

Finished == IF op = StockFullKLine THEN "opening" ELSE "done"

ReadPage ==
  /\ pc = "reading" /\ start < op.reach
  /\ Len(result) <= MaxRead
  /\ LET page == PageOf(start % op.wire)
     IN /\ Match(page) = 0
        /\ result' = Joined(page)
        /\ IF LastPage(Told(start % op.wire)) \/ LimitReached(page)
           THEN pc' = Finished /\ UNCHANGED <<start, left>>
           ELSE /\ start' = NextStart(page)
                /\ left' = IF op.limit = "count" THEN left - Asked ELSE left
                /\ UNCHANGED pc
  /\ UNCHANGED <<call, server>>

\* MACMarketMonitor has no offset for the next page.
TooFar ==
  /\ pc = "reading" /\ start >= op.reach
  /\ pc' = "error"
  /\ UNCHANGED <<call, locals, server>>

\* A query that fails ends the call; so does a page of
\* MACBoardMembersQuotesDynamicWithFilter whose bitmap is not that of the pages before.
QueryFails ==
  /\ pc = "reading"
  /\ pc' = "error"
  /\ UNCHANGED <<call, locals, server>>

\* The caller did not know the size of the file: it is asked for, in vain perhaps.
AskSize ==
  /\ pc = "meta"
  /\ left' \in {0, Len(list)}
  /\ pc' = "reading"
  /\ UNCHANGED <<call, start, result, server>>

\* The bars of a minute that have a bar of 09:30 put before them, which is made of
\* the day's first deal; it is known by the same number, negative.
FirstOfDay == {2, 5}

WithOpening(days) == FlattenSeq([i \in DOMAIN result |->
                       IF result[i] \in days THEN <<-result[i], result[i]>> ELSE <<result[i]>>])

\* Deals of a day may be there or not be had; nothing is added for all if the server's
\* date is not known.
AddOpenings ==
  /\ pc = "opening"
  /\ \E days \in SUBSET (FirstOfDay \cap ToSet(result)) : result' = WithOpening(days)
  /\ pc' = "done"
  /\ UNCHANGED <<call, start, left, server>>

\* The day's list of deals is had and is empty: its first element is used all the same.
NoDeals ==
  /\ pc = "opening" /\ FirstOfDay \cap ToSet(result) # {}
  /\ pc' = "panic"
  /\ UNCHANGED <<call, locals, server>>

-----------------------------------------------------------------------------
(* The server.                                                             *)

Open == pc \in {"meta", "reading"}
MayChange == Open /\ inserted + removed < MaxChanges
Known == ToSet(before) \cup ToSet(list)

\* A new bar, deal or event; in a list by code a new entry may be anywhere.
Insert ==
  /\ MayChange /\ Len(list) < MaxLen
  /\ \E i \in 1..(Len(list) + 1) :
       /\ op.newest => i = 1
       /\ op.limit = "size" => i = Len(list) + 1
       /\ list' = InsertAt(list, i, MaxLen + 1 + inserted)
  /\ inserted' = inserted + 1
  /\ UNCHANGED <<call, pc, locals, before, removed>>

Remove1 ==
  /\ MayChange /\ ~op.newest /\ op.limit # "size"
  /\ \E i \in DOMAIN list : list' = RemoveAt(list, i)
  /\ removed' = removed + 1
  /\ UNCHANGED <<call, pc, locals, before, inserted>>

-----------------------------------------------------------------------------
\* The list of a board begins where it begins, the others where the caller says.
Starts(o) == IF o.limit = "count" /\ o # MACBoardList THEN 0..MaxLen ELSE {0}
Counts(o) == IF o.limit = "none" THEN {0} ELSE IF o.limit = "size" THEN 0..MaxLen ELSE 1..MaxLen

PagingInit ==
  /\ \E o \in Operation, n \in 0..MaxLen :
       /\ call \in [op : {o}, start : Starts(o), count : Counts(o), until : Stops(o)]
       /\ list = IF o.newest THEN [i \in 1..n |-> n + 1 - i] ELSE [i \in 1..n |-> i]
  /\ pc = IF call.op.limit = "size" /\ call.count = 0 THEN "meta" ELSE "reading"
  /\ start = call.start /\ left = call.count
  /\ result = << >>
  /\ before = list /\ inserted = 0 /\ removed = 0

Answered == AskSize \/ Found \/ ReadPage \/ TooFar \/ AddOpenings
PagingNext == Answered \/ QueryFails \/ NoDeals \/ Insert \/ Remove1

PagingSpec == PagingInit /\ [][PagingNext]_pagingVars

\* A request is answered or runs into its deadline.
PagingFairSpec == PagingSpec /\ WF_pagingVars(Answered)

-----------------------------------------------------------------------------
(* Properties.                                                             *)

Returned == pc \in {"done", "error", "panic"}

PagingTypeOK ==
  /\ pc \in {"meta", "reading", "opening", "done", "error", "panic"}
  /\ start \in 0..(op.range - 1) /\ left \in 0..MaxLen
  /\ ToSet(list) \subseteq 1..(MaxLen + MaxChanges) /\ Len(list) <= MaxLen
  /\ inserted + removed <= MaxChanges

\* What the caller asked for, of the list as it was when the call was made: the very
\* first bar, with no close before it, is never returned.
Wanted ==
  LET known == IF op.bars /\ before # << >> THEN Front(before) ELSE before
      all == IF op.limit = "count" THEN SubSeq(known, call.start + 1, Least(call.start + call.count, Len(known)))
             ELSE known
      at == {i \in DOMAIN all : all[i] = call.until}
  IN IF call.until # 0 /\ at # {} THEN SubSeq(all, 1, CHOOSE i \in at : TRUE) ELSE all

\* Bars read by MACSymbolBars are in order within a page only, the newest page first.
ByPages(bars) == [i \in DOMAIN bars |->
                   LET first == ((i - 1) \div Page) * Page
                   IN bars[first + Least(first + Page, Len(bars)) + 1 - i]]

\* What the first i of these are, without the opening bars that were put in, and all of them.
KeptUpTo(bars) ==
  LET kept[i \in 0..Len(bars)] ==
        IF i = 0 THEN << >>
        ELSE IF bars[i] > 0 THEN Append(kept[i - 1], bars[i]) ELSE kept[i - 1]
  IN kept
Entries(bars) == KeptUpTo(bars)[Len(bars)]

\* Every offset the call needs can be told to the server: the last page is asked for
\* at the last multiple of the page that the list, or the count, still reaches.
Fits ==
  LET end == Len(before) + inserted
      needed == {o \in {call.start + k * Page : k \in 0..MaxLen} :
                   o <= end /\ (op.limit = "count" => o < call.start + call.count)}
  IN \A o \in needed : o < op.wire /\ o < op.range

\* What was read is the list as it was, in the order in which the call gives it; of a
\* file, as much as its size said.
AsItWas(entries) ==
  IF op.limit = "size"
  THEN IsPrefix(entries, before) /\ Len(entries) >= (IF left = 0 THEN Len(before) ELSE Least(left, Len(before)))
  ELSE entries = IF op.front THEN Reverse(Wanted) ELSE IF op.newest THEN ByPages(Wanted) ELSE Wanted

\* A list that stays as it is while its pages are read is returned as it is: no
\* entry missing, repeated or out of its place at the seam of two pages, and every
\* opening bar directly before its bar.
Exact ==
  (pc = "done" /\ inserted + removed = 0 /\ Fits) =>
    /\ \A i \in DOMAIN result : result[i] < 0 => i < Len(result) /\ result[i + 1] = -result[i]
    /\ AsItWas(Entries(result))

\* Entries read twice, and entries that were asked for, are still there and were not read.
Repeated(entries) == Len(entries) - Cardinality(ToSet(entries))
Missed(entries) == (ToSet(Wanted) \cap ToSet(list)) \ ToSet(entries)

\* A list that moves costs no more than it moved: at most one entry is read twice for
\* each that was added, and at most one missed for each that was removed, or, if only
\* so many were asked for, pushed out of reach by one that was added.
Drift ==
  (pc = "done" /\ Fits /\ op.limit # "size") =>
    /\ Repeated(Entries(result)) <= inserted
    /\ Cardinality(Missed(Entries(result))) <= removed + (IF op.limit = "count" THEN inserted ELSE 0)

\* Every call returns, if its offsets can be told to the server, and if a stock whose bars
\* are asked for has one: without any, the count of a page is never small.
CallReturns == ([]Fits /\ (op = StockFullKLine => before # << >>)) => <>Returned
=============================================================================
