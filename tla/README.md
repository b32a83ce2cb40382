# A verification development of gotdx

`gotdx` (module `github.com/bensema/gotdx`) is a Go client for the TDX quotation
servers with an HTTP service on top of it.  This directory holds TLA+ models of
its stateful parts, the TLC configurations that check them on small instances,
and proofs, checked by TLAPS, of their main invariants for every instance.

1. [The system](#the-system)  2. [Modules](#modules)  3. [Runs](#runs)
4. [Fairness](#fairness)  5. [Proofs](#proofs)  6. [Findings](#findings)
7. [What is abstracted](#what-is-abstracted)  8. [Not modelled](#not-modelled)  9. [Plan](#plan)

## The system

    HTTP client ──► routes/root.go ──► routes/unusual  (SSE hub)      ──► cmd/webviewer/mac_sse_client ─┐
                         │         ├─► routes/kline    (range query)  ──► failover between hosts ───────┤
                         │         ├─► routes/quotes   (batch quotes) ──► failover between hosts ───────┤
                         │         └─► routes/auction  (call auction) ──────────────────────────────────┤
                         └──► cmd/webviewer (query table) ──────────────────────────────────────────────┤
    Go program ─────────────────────────────────────────────────────────────────────────────────────────┤
                                                        gotdx.Client (one TCP connection, one mutex) ◄───┘
                                                              │ proto/* (frames)
                                                              ▼
                                                     TDX quotation servers

| Component | State | Operations | What is hard | What makes it correct |
|---|---|---|---|---|
| **Unusual-event hub** `routes/unusual/handler.go` | subscribers, reference counts and states per market, `running`, `wake`, one buffer per connection; all under one mutex | subscribe, unsubscribe, poll loop (active markets, poll, tail search, fan-out, error), write a message | the lock is released around every query: answers are applied to a registry that has moved; a loop that is started and ended by different goroutines; a wake channel of one token; slow consumers dropped inside an iteration; midnight | registry agrees with the subscribers; one loop; no lost wake-up; events in order, once, none skipped; one error notice per outage; every market polled |
| **Tail search** `findMarketTail`, same file | page lengths seen so far, search bounds | doubling, bisection, last page | the list grows during the search, remembered lengths are old; 16-bit cursor | the result is a length the list had meanwhile; few queries; termination |
| **Client** `client.go`, `client_helpers.go`, `client_unified.go`, `client_mac.go` | connection, options (current address), child clients, mutex | Connect, ConnectEx, ConnectMAC, requests, Disconnect | unlocked checks, dial and handshake failures, replies that come after a failure, children of another mode | every call gets its own reply; the address is the connection's; nothing leaks; the right kind of server; calls return |
| **K-line range query** `routes/kline/service.go` | search bounds, offset, bars collected | doubling, bisection, pages, grouping by three, selection of the interval | offsets are counted from the newest bar, which changes; the first bar of three minutes may begin before the interval | the interval's bars, all of them, whole and with the close of the minute before; limit reported only if exceeded; termination |
| **Failover** kline, quotes, SSE client | preferred host per route | ask hosts in turn, note the one that answers, second route for an index | concurrent requests share the preference, hosts change during a round | a request fails only if no host was usable throughout; an error is not turned into "no data" |
| **Paged calls and downloads** `client_unified.go`, `client_mac.go`, `client_extras.go`, `client_exquote.go` | offset, what is left, entries read | eighteen loops over pages, which differ in a few respects | 16-bit offsets that wrap, lists that shift between two pages, directions of joining, sizes that are unknown | a list at rest is returned as it is; a list that moves costs no more than it moved; the call returns |
| **Decimal-point cache** `client_unified.go` | two maps under a mutex | look up, load a market page by page, mark it as loaded | check, load and mark are critical sections of their own; loads fail half way | a missing decimal point means a failed load; a scale once given is never lost |
| **Auction service** `routes/auction/service.go` | none between requests | search for auction dates, previous days' turnover, deals per date | pages that move by a bar at any time, seams between them, days without deals | the latest days, each with the day directly before it |
| **Messages** `proto/` | none but a sequence number | BuildRequest and ParseResponse of 85 messages | lengths announced by hand; replies cut at any byte; length checks written one by one; buffers with spare capacity | announced is sent; a reply is read whole or refused; only messages known to trust the server overrun |
| Probing `hosts.go` | results under a mutex | parallel dials, sort | completion order | its outcome is an operator of `TdxClient`; the rest planned |
| Block, table and CSV files; bitmaps; `types/`; ICFQS client; root routes; web viewer; examples | none | parse, classify, one call per request | – | not modelled, see [What is abstracted](#what-is-abstracted) |

Interactions: HTTP goroutines call into the hub and the services at the same
time; the hub has one background goroutine, which calls `MACMarketMonitor` of
the SSE client, which makes a new `Client` per host it tries.  The K-line and
quotes services do the same.  Only library users share a `Client` between
requests, and only there do its child clients and reconnections matter.

`PROJECT.json` lists under `hazards` the places where this goes wrong if it
does, each with the properties that watch it.

## Modules

| Module | Models | Role |
|---|---|---|
| `UnusualHub` | the hub, one action per critical section of `handler.mu`, channel operation, clock reading or query | component |
| `UnusualFeed` | nothing of the code: the stream the hub promises | abstract specification |
| `UnusualHubFeed` | how the hub implements that stream | refinement mapping |
| `MCUnusualHub`, `MCUnusualFeed`, `MCUnusualReplay` | an instance of the hub; of the hub with the stream; with a history variable | model checking |
| `UnusualHubProofs` | theorems about `UnusualHub` and the refinement | proofs |
| `MarketTail`, `MarketTailProofs` | `findMarketTail`, one action per page query | component, proofs |
| `TdxClient`, `MCTdxClient`, `TdxClientProofs` | `Client` with children, goroutines that call it, sockets | component, instance, proofs |
| `KlineRange` | `queryRange` with `locateEndOffset`; the grouping and selection of `fetch` | component, instance of its own for `KlineEmpty` |
| `HostFailover`, `MCHostFailover`, `HostFailoverProofs` | `Service.Fetch`/`fetch`, `query` of quotes, `MACMarketMonitor` of the SSE client | component, instance, proofs |
| `Paging`, `PagingProofs` | the calls that read a list or a file page by page | component, proofs |
| `DecimalCache` | `loadDecimalPointMap` and what it calls, several goroutines | component |
| `AuctionDays` | `fetchCode`, `findAuctionDates`, `findPreviousAmounts` | component |
| `RoutesProofs` | theorems about `KlineRange` and `AuctionDays` | proofs |
| `MCCalls` | `Paging`, `DecimalCache`, `AuctionDays` and `KlineRange` side by side | instance |
| `CallsProofs` | theorems about `DecimalCache` and the composition `MCCalls` | proofs |
| `Layout` | the vocabulary of a message: fields, announced length, steps over the reply | component |
| `MainMessages`, `ExMessages`, `MacMessages` | one definition per message of `proto/` | data of `Messages` |
| `Messages`, `MessagesProofs` | building a request, a reply that is cut anywhere, and reading it | component, proofs |
| `MCMessages` | the table of all messages | instance |

**UnusualHub.**  `subscribers`, `marketRefs`, `states`, `running`, `wake` are the
handler's fields; an absent map key is 0 or `NoState`.  Per connection there are
the subscriber's `targets`, `failed` (failedMarkets), `messages`, and `pc`, where
its `ServeHTTP` goroutine is; `received` is history.  `loop[s]` holds the locals
of the goroutine that the subscription of `s` started; nothing in the model
prevents a second one, `SingleLoop` says that there is none.  `Subscribe` is the
critical section of `subscribe`; `StartLoop` and `NotifyPollLoop` are what it
does after unlocking.  `Disconnect` is the deferred `unsubscribe`.
`ActiveMarkets`, `Timer`, `WakeUp`, `PollMarket`, `ReadState`, `HandleBaseline`,
`QueryPage`, `HandlePollError`, `HandlePollItems`, `FanOutItem` and `PageDone` are
the loop.  Fan-out keeps the lock over several steps (`MuFree`), because readers
drain their buffers without it meanwhile and thereby decide who is dropped.

**UnusualFeed.**  One cursor per watched market; it is placed once and then moves
over the list event by event, handing each event to all who asked for its
stock, or dropping them.  It is what routes/README.md tells clients of the
stream, minus the mechanism: no reference counts, loop, locks, full buffers or
outages.  A connection is sent what it was given, in that order, and may be told
of trouble in between.  Midnight leaves a stale cursor, under which anything the
connection asked for may still be handed on, until the cursor is placed again.

**UnusualHubFeed.**  A connection is open while it is registered, what it was given
and not yet sent is its buffer, and the cursor is the state's date with
`nextStart`, or, during a fan-out, which has moved `nextStart` beforehand, with the
index of the first item left.  A market without a state, or with one that has no
baseline, has no cursor.

**MarketTail** justifies the one-step search of the hub: `Tails` in `UnusualHub`
is what `TailSound` says of its result.

**TdxClient.**  A socket carries the replies it still owes; a reply is told by the
request it answers.  A caller's `pc` says whether it looks at the connection
without the mutex (`check`), dials, shakes hands, or exchanges.  The mutex is
held from the first dial to the last, but the fields being set are visible to
unlocked readers, which is why dialling is several steps.

**KlineRange.**  Bars are told by their times 1, 2, ...; the bar at offset `o` of
`n` bars is `n - o`.  Each query is a step with what follows from its answer.
`Aggregated`, `Given` and `CloseBefore` are what `fetch` makes of the result: bars
are sets of minutes, so that a bar made of a part of its minutes is visible.

**HostFailover.**  One step per critical section of `service.mu` and per answer of
a host.  `steady` is history for the properties.

**Paging.**  An operation is a record of what tells the loops apart: the width of
the loop variable and of the offset on the wire, a limit in entries or bytes,
what ends the loop, the direction of joining, and whether one more bar is asked
for than returned.  The server's `list` is a sequence by offset; it may gain and
lose entries between two requests (`Insert`, `Remove1`).  `AddOpenings` is
`StockKLine930`.

**DecimalCache.**  One step per critical section and per page.  A goroutine's call
is a record with its `pc`, the keys it still looks up, the markets it has to load
and the page it holds.  `given` is history: keys whose decimal point a call has
already answered with.

**AuctionDays.**  Days are numbered, a minute bar is a day and a place in it.  Each
page is a step, `NextBar` adds the next minute or opens the next day in between.

**Layout, the message modules, Messages.**  `Reads(request, head, row)` says of a
message how its request is built - by hand with a written length, or with a
computed one - and which steps `ParseResponse` takes: how many bytes it asks for
before (`Checked`, `Guarded`, `Optional`) or not (`Raw`), how many it reads, whether
numbers of variable length are among them (`Numbers`, `CheckedNumbers`), and
whether they are taken by index or by slicing (`Firm`).  The values are left out.
In `Messages` a reply of up to `MaxCount` entries is cut at any byte or followed by
a byte that is nobody's, and is read step by step.  A reply that was inflated lies
in a buffer with spare capacity: slicing beyond its length then reads bytes that
no server sent (`ReadsBeyond`) where it would otherwise panic.  A step ends in one
of three ways: it looks and finds too little (`Lacks`), it takes what is not there
(`Overruns`, which is a panic unless it `FindsSpare` capacity), or it `Succeeds`, and
may then refuse what it read.

## Runs

| Run | Properties | Instance | Why it is enough |
|---|---|---|---|
| `HubRegistry` | RegistryConsistent, FailedConsistent, SingleLoop, NoLostWakeup, OneErrorPerOutage | three connections, two markets, buffer 1, no events | three are needed for one to leave while another falls behind and a third joins; two markets for one outage inside another; events do not touch the registry except through full buffers, which error messages fill as well |
| `HubDelivery` | TypeOK, InOrderNoDuplicates, ImplementsFeed | two connections, one market, two stocks, two events, two days, page 2, buffer 1 | a full page, a following page, an overflow on the first and on the second event, filtering; midnight in every state of a poll, with yesterday's cursor in use.  The constraint `OneStockAtMidnight` keeps days that end to subscriptions of one stock: filtering and midnight are explored one at a time |
| `HubLiveness` | BaselineOrError, EventsReached, LoopStops | two connections, page 1, cursor range 0..1, three events | several pages; the end of the cursor range, where polling fails for good |
| `MarketTail` | TailSound, FewQueries, SearchEnds | eleven pages of two events, up to 23 | doubling up to and across the last page, every bisection, growth by several pages, overflow |
| `TdxClient` | TypeOK, OwnReply, AddressIsCurrent, NothingLeaks, RightServer, CallsReturn | two callers, two calls each, two main hosts, one extended, one MAC, probing on | the second call meets what the first left behind; two hosts to fail over |
| `Calls` | TypeOK, Exact, Drift, PagedCallReturns (Paging); MissingMeansFailure, ScaleIsKept (DecimalCache); PreviousIsAdjacent, LatestDays (AuctionDays); Complete, WholeBars, TooManyIsTrue, SearchBrackets (KlineRange) | pages of 2; lists up to 6 entries with two changes, 16-bit offsets end at 5; two goroutines, three calls, lists of three codes; five days of three minutes, search up to 9 minutes; 10 bars, at most 4 per answer, offsets up to 8, search up to 6 | three pages and two seams with a change at each; offsets that end before and after the list does; a goroutine that loads while another looks up, twice; every interval, several doublings, each limit reached |
| `HostFailover` | TypeOK, SurvivesFailures, EmptyIsTrue, RequestsReturn | two requests, two stock hosts, one of each index kind, two changes | a round that begins at the second host; a host that recovers after it was asked while the other fails |
| `Messages` | TypeOK, AnnouncedIsSent, OnlyTrustingOverrun, WholeOrRefused | all messages, replies of 0 to 2 entries, numbers of 1 or 2 bytes, 0 to 9362 stocks | two entries: one that is whole before one that is cut; every cut; 9361 stocks of 7 bytes are the most that 16 bits announce |
| `HubReplay`, `ClientRightServer`, `KlineEmpty`, `BarsCount` | one each | – | counterexamples, see [Findings](#findings) |

What the less obvious properties say is in the comments above them.  Bounds that
do not come from the code: `MaxEvents`, `MaxDay`, `MaxLen`, `MaxChanges`,
`MaxCalls`, `Child`, `Socket` (at most so many children and open sockets at a
time), `Initially`, `MaxRead` (how far a call that starts over is followed),
`MaxListed`, `LastDay`, `MaxHistory`, `MaxCount`, `MaxWide`.  Capacities of the code are constants with smaller values:
`Buffer` (128), `PageSize` (600; 800, 100 or 699), `MaxStart` and `MaxOffset`
(65535), `MaxBars` (20000), `MaxSearch` (10000000), `Page`, `ListPage`,
`BarPage`, `RangePage`, `Narrow` and `Wide` (2^16 and 2^32; in `Messages` `Narrow` is
65536).  They are compared and added,
so that small values show what large ones do; the proofs hold for all values.

Deadlock is not checked anywhere: each connection is made once, each caller
makes a bounded number of calls and each search ends, so every instance stops.
That nothing stops earlier is what the liveness properties say.

## Fairness

* Hub: weak fairness of the goroutine that `go` starts, of the notification
  after the unlock, and of the poll loop.  Mutexes are held for a few steps only,
  and a query returns, with an answer or an error, after a timeout.  Nothing is
  assumed of connections: clients may read or not, leave or stay.
* Tail search, K-line query, paged calls: weak fairness of the search or loop
  itself, which is sequential and whose requests are answered or run into their
  deadline.  Not of failures, of new events, of new bars or of changes of a list.
* Client: strong fairness of each caller's steps.  A caller that waits for a Go
  mutex competes with others that take it again and again; the runtime's
  starvation mode gives it the mutex in the end.  Every dial and exchange has a
  deadline.
* Failover: weak fairness of each request; its queries end by their timeouts.

## Proofs

`UnusualHubProofs` proves, for any finite sets of connections and markets and
any capacities (`HubAssumption`),

    HubInv == TypeOK /\ RegistryConsistent /\ PcConsistent /\ SingleLoop /\ FailedConsistent /\ FreshIsSeen

and from it `TypeCorrect`, `RegistrySafe`, `OneLoop`, `FailuresAgree`, `WakeupsKept` and
`NoticePerOutage`; then, on top of it, `CursorsSafe`, `DeliveredInOrder` and
`HubImplementsFeed`.

* `TypeOK` is not inductive alone: counts stay natural numbers only because they
  count.  It is proved together with `RegistryConsistent`; the heart is
  `RemoveLockedRegistry`, which shows for any set of dropped subscribers that
  counts go down by the cardinality of those dropped and that exactly the
  markets left by their last watcher lose their state.
* `SingleLoop` needs to know that a connection whose goroutine has not yet
  started a loop has none (`PcConsistent`).
* `FailedConsistent` needs the registry: a market abandoned and watched again
  gets a fresh state, without an error, and nobody who noted an error is left.
* `NoLostWakeup` speaks of a sleeping loop only.  Its strengthening `FreshIsSeen`
  says where the announcement of a fresh market is at any other moment: in the
  token, in a notification not yet sent, or in the loop, which is at the top,
  has the market still to visit, or is visiting it.
* `NoticePerOutage` (OneErrorPerOutage) is an action property.  The only steps that
  append an error message are the subscription to a market in error, which is
  before the connection counts as registered, and `HandlePollError`, which tells
  those who had no failed market and adds one to each of them (`Notified`).
* `CursorsSafe` is about the loop between its critical sections.  The lock is
  released around every query, and meanwhile the last watcher may leave and a
  new one begin a fresh state.  `CursorInv` says what remains true of what the loop
  holds (`PollAt`): the items are consecutive events, of a day not before the loop's
  own date; an answer that `handlePollItems` accepts begins at the cursor, because
  it looks for the date and the cursor again; during a fan-out the cursor is at
  the end of the page and every event noted as seen is before its first item.
* `DeliveredInOrder` (InOrderNoDuplicates) adds what connections have in hand, sent or
  buffered: it is before the end of the list, before the cursor of every market
  they watch, and before the first item of the page that is being handed on
  (`OrderInv`).  The property alone is not inductive: it says nothing of where the
  next event comes from.
* `HubImplementsFeed` (ImplementsFeed) takes the hub step by step: an item that is
  fanned out is an `Offer`, or an `OfferStale` after midnight; a baseline is a `SetCursor`;
  an outage is a `Tell`; the rest of the loop is a stutter.  The point is that moving
  `nextStart` ahead of the items is not visible through the mapping, and that the
  page accepted begins where the cursor is (`CursorInv`), so that no event between is
  skipped.

The last three theorems are proved under `Fits`, that a day has no more events than
16-bit indices can number (`MaxStart` + 1 of them).  Beyond that the protocol
repeats indices and no offset reaches the events.  `FeedAssumption` is that the
model value for "no state" is not a cursor; TLC evaluates it in `HubDelivery`.

`MarketTailProofs` proves `TailCorrect`, `Spec => [](TypeOK /\ TailSound)`, for all
page sizes, ranges and lengths.  The invariant says of the doubling that the
low page was full when it was asked for, and of the bisection that the page
before `left` was full and that the page at `right` was not, at the moments they
were asked; since the list only grows, a page once full is full now, and a page
short at its moment bounds the length the list had then.  It also proves
`QueriesAreFew` (FewQueries).  Of the pages asked for, the doubling accounts for one
per power of two; the last power, 2^m, leaves fewer than 2^m candidates, and so
at most m queries of the bisection, while a page that is not below 2^m was asked
for (`QueriesInv`).  Powers of two are a recursive function, `PowerOfTwo`, because the
provers know nothing of `^`; that it doubles and grows is proved by induction
(`SetInduction`, from the fact that a set of numbers has a least one).

`TdxClientProofs` proves, for any goroutines, children, sockets, hosts and calls,

* `ClientTypes`, `RepliesOwn` (OwnReply) and `AddressesCurrent` (AddressIsCurrent) from
  `ClientInv`: a connection belongs to one client and is where that client says;
  while no exchange is under way it holds no reply that nobody has read
  (`NothingUnread`), because an exchange that fails closes it.  OwnReply alone is
  not inductive: nothing in it says what the next read would find;
* `ServersAreRight` (RightServer) under the condition `RightCalls`, that no call makes
  the main child of an extended or MAC client; the run `TdxClient` meets it
  (`UsualCalls`), and without it the run `ClientRightServer` shows the opposite.
  `RightInv` follows the options from the constructor through the children to the
  orders in which addresses are tried;
* `NoConnectionLost` (NothingLeaks): as long as there is one call at a time, an open
  socket is the connection of a client that the root has, or is about to
  disconnect (`LeakInv`).

`HostFailoverProofs` proves `FailoverTypes`, `FailuresSurvived` and `EmptyAnswersTrue`
for any number of hosts and requests.  A host that was asked and did not answer
was not usable at that moment, so that it is not one of those that were usable
all the time, which only get fewer (`AskedNotSteady`).  That a round meets every
host, whatever it began with, is arithmetic modulo their number (`RoundMeetsAll`).

`RoutesProofs` proves `SearchIsRight` (SearchBrackets), `AnswersComplete`
(Complete), `RefusalsTrue` (TooManyIsTrue) and `BarsAreWhole` (WholeBars) for every
page size, every limit and any growth of the history.  A bar that was later than
the end of the interval has one that is later still at its offset after each new
bar, so that the low end of the search stays too late; the bars already read
move to greater offsets, never to a page that is still to be read past
(`ReadSoFar`), so that nothing is missing between two of them (`NoHoles`).

It also proves `TurnoverIsOfTheDayBefore` (PreviousIsAdjacent) and `DaysAreLatest`
(LatestDays) of the auction service for every size of page and of day.  Pages overlap when
bars are added, so that the days read have no gap below a date, and the greatest
earlier one is the day before.  `AuctionAssumption` wants a day of more than one
minute (a trading day has 240): with a single one, a date within the limit of
minute bars could lie beyond the limit of daily bars.

`PagingProofs` proves `PagesExact` (Exact) and `PagesDrift` (Drift) for every operation,
any page, list and number of changes, and offsets of any width.  The invariant
`PagingInv` has, besides the types,

* `Placed`: a call whose offsets fit is at the start of a page, whole pages after
  where it began, and a count is used up by as much as the offset grew.  `Exact`
  says nothing of a call under way, so that this is where it starts from: the offset
  was neither cut to its type nor carried beyond the list;
* `PagesSoFar`: of a list that stays as it was, what has been read is the stretch from
  where the call began to where it is, in the order in which the call gives it, and
  the bar to stop at is not in it.  A page puts the next stretch to it, at whichever
  end and in whichever order (`JoinedInOrder`); the page that ends the call is the one
  that reaches the end of the list, the count, or the bar (`HasRead`);
* `OpeningsInPlace`: each opening bar is directly before its bar.  `AddOpenings` takes
  nothing from what was read, and `Entries` looks through what it puts in;
* `MovedSoFar`: of a list that moves, the entries read twice together with those that
  were read and lie ahead again are no more than were added - an entry added pushes
  at most one over the offset, and a page turns those ahead into those read twice -
  and the entries wanted that lie before the offset and were not read are no more
  than were removed.  `Drift` alone is not inductive, because it does not count what
  is still ahead.

`PagesDrift` is of `PagingSpec /\ HasBars`, that a stock whose bars are asked for has one
when the call is made; `PagesExact` needs no such condition.  Without a bar the count
of a page is never small, `StockFullKLine` goes on past the end of its 16-bit offset
(see `BarsCount` below) and starts over at offsets between its pages.  With the sizes of
the run `Drift` holds of such a call as well, but not in general: with `Page = 4`,
`Narrow = 5` and `MaxLen = MaxChanges = 7`, when seven bars come while the offset is 2,
the pages at 2, 1, 0 and 4 are read and eight entries are read twice, as TLC finds.
With the sizes of the code that takes more than 65536 new bars in one call.  The
condition is the one that `CallReturns` has, too.

`CallsProofs` proves `MissingExplained` (MissingMeansFailure) and `ScaleStays`
(ScaleIsKept) for any goroutines, markets and lists.  While a list is read, codes
move only towards its end: each of those listed from the beginning is cached, on
the page just read, or beyond it (`LoadSoFar`), so that a market that is marked as
loaded has them all (`MarkedIsWhole`).

`CallsProofs` also proves that what holds of the four components holds of their
composition, which is what the run `Calls` checks: `CallsTypes` (TypeOK of `MCCalls`),
`CallsSafe` and `CallsDrift`.  The state in which a component rests while a behaviour is of
another satisfies its invariant, and a step of one leaves the others alone
(`CallsInvariant`).

`MessagesProofs` proves `MessageTypes`, `OnlyTheTrustingOverrun` (OnlyTrustingOverrun) and
`AllOrRefused` (WholeOrRefused) for replies of any length, any number of entries and
numbers of any width.  The bytes passed are those of the steps taken (`MessageInv`)
and never more than a complete reply has.  The theorems hold of any messages that
meet `LayoutsAssumption`: what is left is taken by the last step, a length that is
looked for is not greater than what its step reads and passes, and a message
that is not in `Trusting` looks for all that it reads (`LooksFirst`).  TLC evaluates
this assumption over the layouts of all 85 messages in the runs `Messages` and
`BarsCount`, so that the theorems are about them.  The bytes of a list of steps
are a recursive function (`UpTo`); what it adds up to is proved by induction.  The
library's induction theorems take an operator, which the provers cannot
instantiate; `SetInduction` takes a set instead.

Only model-checked:

* all liveness, `WF` and `SF` (the prover has no rule for fairness or `ENABLED`): LoopStops,
  EventsReached, BaselineOrError, SearchEnds, CallsReturn, PagedCallReturns,
  RequestsReturn;
* `AnnouncedIsSent` of `Messages`: it holds because of the 85 layouts and of nothing else.
  Once they are given it is a computation, which TLC does; a theorem over any layouts
  would have to assume what it proves.

## Findings

* **A baseline for the wrong subscription** (`HubReplay`).  `handleBaseline` looks
  the market's state up again after the search but does not ask whether it is
  the state the search began for.  The last watcher leaves, events happen,
  another subscribes, and the old search gives the new state its old result:
  the new connection is sent events from before it connected, which
  routes/README.md:155 excludes.  `handlePollItems` does check (date, cursor).
* **A stock quotation asked of an extended-market server** (`ClientRightServer`).
  The constructor of an extended or MAC client overwrites `TCPAddress` and its
  pool; `quotationClient` and `Connect` make the main child from those options.
  The run `TdxClient` therefore checks the other requests (`UsualCalls`).
* **No bars without an error** (`KlineEmpty`).  A bar completed between the
  bisection and the last look at the bar found makes the search report that
  nothing was found; the answer is empty and counted as a success.

* **65535 bars in an empty reply** (`BarsCount`).  One bar more than asked for is
  requested, the oldest gives the first close and is left out, and `Count` is made
  one less, in 16 bits, even when the reply had no bars (get_security_bars.go:168,
  documented at :29 as the number of entries returned).  `StockFullKLine` compares
  `Count`, not the list, with what it asked for (client_unified.go:224): for a stock
  without bars it goes on asking.

Also visible in the models, without a document that says otherwise:

* two goroutines that use an unconnected client for the first time both connect
  and one connection is lost (client_unified.go:14 reads `conn` without the mutex),
  as does a second `Connect`; `NothingLeaks` is stated for careful use and says so;
* after a failover `opt.TCPAddress` is the address that answered; the configured
  one is not tried or probed again (client.go:142);
* calls whose offset has 16 bits start again from the newest entry when the list
  is longer (`Exact` and `CallReturns` are conditional on `Fits`);
* `StockKLine930` uses the first deal of a day without asking whether there is one
  (`NoDeals` ends in a panic);
* `MACSymbolBars` returns its pages newest first, each in the order of time
  (`ByPages`);
* a code listed after its market was loaded keeps the default scale for the life
  of the client, so that `MissingMeansFailure` speaks of the codes that were
  listed from the beginning;
* the doubling of the K-line search asks for an offset that the main index
  protocol does not carry, and ends in an error, although the interval may lie
  within reach (`OutOfRange`, service.go:404);
* 26 messages (`Unguarded` in `MCMessages`) take the length of a reply on trust:
  a short one is a panic, which nothing in the client recovers,
  or, after inflation, values from spare capacity;
* the unmatched volume of an auction entry is made positive before its sign is
  looked at (mac_auction.go:97), so that the flag is never -1.  Values are
  abstracted, no run shows it.

## What is abstracted

* A stock code, an address, a reply is a model value.  JSON, wording, logging and
  HTTP status codes are left out.  An event's key is its stock and its index:
  time and type are functions of the event.
* Queries of the hub commute with changes of the registry, which they do not
  read; a query is one step, and its three attempts over several hosts are one
  outcome.  The whole tail search is one step whose result is any the module
  `MarketTail` allows.  A search overtaken by midnight may return anything in
  range.
* Midnight changes the server's lists and the date in Shanghai at once.
* A connection object is used once; reconnecting is another connection.
* Retried short writes, broken frames and inflation errors are an exchange that
  fails and leaves its reply unread.  A reply that is read whole but not
  understood is an exchange without an answer.  Probing may find any set of
  hosts, in any order.  Disconnecting the root is one step for the fields and
  its own socket.
* MAC requests stand for `ConnectMAC` followed by a request.  The MAC-extended
  mode is treated by the code as the MAC mode with other addresses and is not
  instantiated.
* In `HostFailover` a host's condition stands for what `queryRange` and
  `validateLiveFreshness` make of its answer to the request at hand; the ordering
  and trimming of the bars is left out.  The service begins with preference 0.
* `KlineRange` has one bar per time; duplicates at the same time are what `seen`
  removes, and `result` is that set.  Sessions are multiples of three minutes, so
  that times can leave out the pauses; prices and volumes of an aggregated bar are
  functions of the set of minutes it is made of.
* `Paging`: an entry is a number; a page is what the server has at the offset at
  that moment, full unless the list ends.  The oldest bar of a page is asked for
  in addition and not returned, so that the very first bar of a history never is.
  The chunk of a file is as long as it says, as the code assumes.  A call that
  starts over again is followed until `MaxRead` entries are read.  Operations
  that are the same record (`StockFullTransaction` and its historical siblings,
  `DownloadFullFile` and `ExDownloadFullFile`, the MAC lists by count) are
  explored once.  `QueryFails` is every way a page ends the call with an error, the
  page of `MACBoardMembersQuotesDynamicWithFilter` with another bitmap than the pages
  before it (client_mac.go:382) among them.
* `Messages`: a reply has at most `MaxCount` entries, so that the 16-bit sum of
  `GetCompanyContent` (get_company_info.go:150), which does not hold a text of 65524
  bytes, is not met; the 16-bit size in the header keeps a whole reply below it.
* `DecimalCache`: a quotation is the set of keys asked for and the set that decimal
  points were found for; the scaling of prices is not modelled.
* `AuctionDays`: a page of minute or daily bars is as in `Paging`; the deals of a day
  are there or not; turnover is the day it is of.
* `Messages`: the value of a field is left out, except the number of entries, the
  bytes of a number, and whether a value may be refused (`Refusing`) or end the
  reply (`MayEnd`).  The optional parts of a reply that depend on its values are
  steps that may be short.  Dates are never refused by `decodeDateNum`, so the
  fallback of the bars' parser after a refused date is dead and left out.

## Not modelled

* **Values of fields** - prices, dates, volumes, GBK text - and the bitmaps of the
  MAC protocol (`mac_bitmap.go`, `field_alignment_helpers.go`): conversions without
  state, one entry at a time; a model would be the code again.
* **Block, table and CSV files** (`block.go`, the parsers in `client_extras.go`):
  parsing in memory of a file that is downloaded whole, without state.
* **Web viewer** (`cmd/webviewer/main.go`, `query.go`): `query.go` is a table of some
  hundred queries with their labels, arguments and the formatting of rows; each
  request makes a client of its own, makes one call and disconnects.
* **ICFQS client** (`icfqs.go`): one HTTP request per call, no state.
* **Root routes, access tokens, CORS**: a chain of handlers without state.
* **Constants, code helpers, examples.**
* **Probing**: only its outcome, see the plan.
* **Batching of quotes**: the service's state is its preferred host, which is
  `HostFailover`; the list of missing codes is a function of one reply.

## Plan

What is left, in this order.

1. Probing as a concurrent algorithm that implements `ConnectionOrders`.
2. The records of block files against the lengths in their headers, in the
   vocabulary of `Layout`.
