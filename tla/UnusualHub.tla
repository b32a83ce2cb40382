----------------------------- MODULE UnusualHub -----------------------------
(***************************************************************************)
(* The shared polling hub behind GET /api/stock/unusual/sse                *)
(* (src/routes/unusual/handler.go).                                        *)
(*                                                                         *)
(* Every connection registers a subscriber; all the subscribers of one     *)
(* market share a cursor into the market's list of unusual events; one     *)
(* background poll loop reads each watched market from its cursor and      *)
(* fans the new events out to bounded per-connection buffers.              *)
(*                                                                         *)
(* A step of this module is a critical section of handler.mu, an operation *)
(* on a channel, a reading of the clock, or a call to the quotation        *)
(* server.  The registry is therefore free to change between the moment    *)
(* the loop reads a market's state and the moment it uses the answer.      *)
(*                                                                         *)
(* The quotation server and the clock are external: a market's list only   *)
(* grows during a day and starts again, empty, at midnight.                *)
(***************************************************************************)
EXTENDS Integers, Sequences, FiniteSets

CONSTANTS
    Subscriber,   \* the connections that may be opened, each at most once
    Market,       \* the market numbers in use (uint8)
    Code,         \* the stock codes events are about
    TargetSets,   \* the sets of <<market, code>> a connection may ask for
    Buffer,       \* stockUnusualSubscriberBuffer (128)
    PageSize,     \* stockUnusualMonitorCount (600)
    MaxStart,     \* stockUnusualMaxStart (65535): the last cursor the protocol carries
    MaxEvents,    \* bound: events published per market and day
    MaxDay,       \* bound: days that pass
    NoState       \* the nil *stockUnusualMarketState

MarketState == [date : 0..MaxDay, initialized : BOOLEAN, inError : BOOLEAN,
                nextStart : Nat, seen : SUBSET (Code \X Nat)]

ASSUME HubAssumption ==
    /\ IsFiniteSet(Subscriber)
    /\ Market \subseteq Nat /\ IsFiniteSet(Market)
    /\ TargetSets \subseteq (SUBSET (Market \X Code)) \ {{}}
    /\ Buffer \in Nat \ {0} /\ PageSize \in Nat \ {0}
    /\ MaxStart \in Nat /\ MaxEvents \in Nat /\ MaxDay \in Nat \ {0}
    /\ NoState \notin MarketState

VARIABLES
    day,          \* external: the date in Shanghai
    feed,         \* external: feed[m], the codes of today's events of market m
    subscribers,  \* handler.subscribers
    marketRefs,   \* handler.marketRefs, 0 standing for an absent key
    states,       \* handler.states, NoState standing for an absent key
    running,      \* handler.running
    wake,         \* a token lies in handler.wake
    pc,           \* where the goroutine serving each connection is
    targets,      \* subscriber.targets
    failed,       \* subscriber.failedMarkets
    messages,     \* subscriber.messages, a channel of capacity Buffer
    received,     \* history: the events each connection has taken out of messages
    loop          \* the poll loop each subscription started, if it started one

external == <<day, feed>>
registry == <<subscribers, marketRefs, states>>
conns    == <<pc, targets, failed, messages, received>>
vars     == <<external, registry, running, wake, conns, loop>>

-----------------------------------------------------------------------------

MarketsOf(T) == {t[1] : t \in T}
Watches(s, m) == m \in MarketsOf(targets[s])

FreshState == [date |-> 0, initialized |-> FALSE, inError |-> FALSE,
               nextStart |-> 0, seen |-> {}]

Item    == [code : Code, index : 0..MaxStart, day : 1..MaxDay]
Message == [event : {"unusual"}, market : Market, item : Item] \cup [event : {"error"}]

ErrorMessage == [event |-> "error"]
UnusualMessage(m, it) == [event |-> "unusual", market |-> m, item |-> it]

NoLoop == [pc |-> "none", todo |-> {}, market |-> 0, today |-> 0,
           start |-> 0, items |-> <<>>, full |-> FALSE]

\* The locals of the loop between two markets.
BetweenMarkets(lp) == [NoLoop EXCEPT !.pc = "next", !.todo = lp.todo]

\* The loop holds handler.mu for as long as it fans a page out; every other
\* critical section is a single step.
MuFree == \A l \in Subscriber : loop[l].pc # "fanout"

Full(s) == Len(messages[s]) >= Buffer

-----------------------------------------------------------------------------
(* The registry: what removing a set of subscribers does to it             *)

\* Mutant: the counts are not released.
RefsWithout_Kept(gone) == marketRefs

RefsWithout(gone) ==
    [m \in Market |->
        marketRefs[m] - Cardinality({s \in gone : Watches(s, m)})]

\* removeSubscriberLocked of every member of gone: a market nobody watches any
\* more loses its state; that, or an empty registry, wakes the loop.
RemoveLocked(gone, st) ==
    LET left == {m \in Market : marketRefs[m] > 0 /\ RefsWithout(gone)[m] <= 0}
    IN /\ subscribers' = subscribers \ gone
       /\ marketRefs' = RefsWithout(gone)
       /\ states' = [m \in Market |-> IF m \in left THEN NoState ELSE st[m]]
       /\ wake' = \/ wake
                  \/ gone # {} /\ (left # {} \/ subscribers \ gone = {})

\* enqueueLocked to every member of audience: a full buffer costs the
\* subscriber its registration instead.  st is what the caller has written.
Broadcast(audience, message, st) ==
    /\ RemoveLocked({s \in audience : Full(s)}, st)
    /\ messages' = [s \in Subscriber |->
           IF s \in audience /\ ~Full(s) THEN Append(messages[s], message) ELSE messages[s]]

-----------------------------------------------------------------------------
(* A connection: ServeHTTP, subscribe, unsubscribe                         *)

\* Mutant: a new connection restarts the markets that are already watched.
NewMarkets_All(T) == MarketsOf(T)

\* The markets of T nobody watches yet: they get a new state.
NewMarkets(T) == {m \in MarketsOf(T) : marketRefs[m] = 0}

\* Mutant: a connection that joins during an outage does not note it.
FailedMarkets_None(T) == {}

\* The markets of T that are in an outage now.
FailedMarkets(T) ==
    {m \in MarketsOf(T) \ NewMarkets(T) : states[m] # NoState /\ states[m].inError}

\* Mutants: the loop is not told of a new market; a second loop is started
\* for it; no loop is ever started.
AfterSubscribe_NoNotify(T) == IF ~running THEN "starting" ELSE "streaming"
AfterSubscribe_Restart(T) ==
    IF ~running \/ NewMarkets(T) # {} THEN "starting" ELSE "streaming"
AfterSubscribe_NoStart(T) == IF NewMarkets(T) # {} THEN "notifying" ELSE "streaming"

\* What subscribe still has to do once it has released the lock.
AfterSubscribe(T) ==
    IF ~running THEN "starting" ELSE IF NewMarkets(T) # {} THEN "notifying" ELSE "streaming"

\* The critical section of subscribe.
Subscribe(s, T) ==
    LET fresh == NewMarkets(T)
        bad   == FailedMarkets(T)
    IN /\ pc[s] = "new"
       /\ MuFree
       /\ subscribers' = subscribers \cup {s}
       /\ states' = [m \in Market |-> IF m \in fresh THEN FreshState ELSE states[m]]
       /\ marketRefs' = [m \in Market |->
                           IF m \in MarketsOf(T) THEN marketRefs[m] + 1 ELSE marketRefs[m]]
       /\ targets' = [targets EXCEPT ![s] = T]
       /\ failed' = [failed EXCEPT ![s] = bad]
       /\ messages' = [messages EXCEPT ![s] = IF bad # {} THEN <<ErrorMessage>> ELSE <<>>]
       /\ running' = TRUE
       /\ pc' = [pc EXCEPT ![s] = AfterSubscribe(T)]
       /\ UNCHANGED <<external, wake, received, loop>>

\* go handler.runPollLoop(), after the lock has been released.
StartLoop(s) ==
    /\ pc[s] = "starting"
    /\ loop' = [loop EXCEPT ![s].pc = "top"]
    /\ pc' = [pc EXCEPT ![s] = "streaming"]
    /\ UNCHANGED <<external, registry, running, wake, targets, failed, messages, received>>

\* handler.notifyPollLoop(), a critical section of its own.
NotifyPollLoop(s) ==
    /\ pc[s] = "notifying"
    /\ MuFree
    /\ wake' = TRUE
    /\ pc' = [pc EXCEPT ![s] = "streaming"]
    /\ UNCHANGED <<external, registry, running, targets, failed, messages, received, loop>>

\* The select of ServeHTTP takes a message from the buffer; it needs no lock,
\* and may still do so after the subscriber has been removed.
SendNext(s) ==
    /\ pc[s] = "streaming"
    /\ messages[s] # <<>>
    /\ messages' = [messages EXCEPT ![s] = Tail(@)]
    /\ received' = IF Head(messages[s]) = ErrorMessage THEN received
                    ELSE [received EXCEPT ![s] = Append(@, Head(messages[s]))]
    /\ UNCHANGED <<external, registry, running, wake, pc, targets, failed, loop>>

\* Mutant: unsubscribing does not ask whether the subscriber is still there.
Registered_Always(s) == {s}

\* The check removeSubscriberLocked begins with.
Registered(s) == {s} \cap subscribers

\* The select returns: the client went away, a write failed, or done is
\* closed.  The deferred unsubscribe does nothing for a removed subscriber;
\* after it nothing refers to the subscriber or to what its buffer holds.
Disconnect(s) ==
    /\ pc[s] = "streaming"
    /\ MuFree
    /\ pc' = [pc EXCEPT ![s] = "closed"]
    /\ RemoveLocked(Registered(s), states)
    /\ targets' = [targets EXCEPT ![s] = {}]
    /\ failed' = [failed EXCEPT ![s] = {}]
    /\ messages' = [messages EXCEPT ![s] = <<>>]
    /\ UNCHANGED <<external, running, received, loop>>

-----------------------------------------------------------------------------
(* The poll loop l: runPollLoop, activeMarkets, pollMarket                 *)

\* Mutant: the loop polls on although nobody is left.
NobodyLeft_Ignored == FALSE

NobodyLeft == subscribers = {}

\* activeMarkets: an empty registry ends the loop and swallows the wake token.
ActiveMarkets(l) ==
    /\ loop[l].pc = "top"
    /\ MuFree
    /\ IF NobodyLeft
         THEN /\ running' = FALSE
              /\ wake' = FALSE
              /\ loop' = [loop EXCEPT ![l] = NoLoop]
         ELSE /\ loop' = [loop EXCEPT ![l].pc = "next",
                                      ![l].todo = {m \in Market : marketRefs[m] > 0}]
              /\ UNCHANGED <<running, wake>>
    /\ UNCHANGED <<external, registry, conns>>

Waiting(l) == loop[l].pc = "next" /\ loop[l].todo = {}

\* The poll interval elapses.
Timer(l) ==
    /\ Waiting(l)
    /\ loop' = [loop EXCEPT ![l].pc = "top"]
    /\ UNCHANGED <<external, registry, running, wake, conns>>

WakeUp(l) ==
    /\ Waiting(l)
    /\ wake
    /\ wake' = FALSE
    /\ loop' = [loop EXCEPT ![l].pc = "top"]
    /\ UNCHANGED <<external, registry, running, conns>>

\* The next market in ascending order; pollMarket begins by reading the clock.
PollMarket(l, m) ==
    /\ loop[l].pc = "next"
    /\ m \in loop[l].todo
    /\ \A n \in loop[l].todo : m <= n
    /\ loop' = [loop EXCEPT ![l].pc = "read", ![l].todo = @ \ {m},
                            ![l].market = m, ![l].today = day]
    /\ UNCHANGED <<external, registry, running, wake, conns>>

\* The first critical section of pollMarket.  A search for the tail starts
\* from the list as it is now.
ReadState(l) ==
    LET m  == loop[l].market
        st == states[m]
    IN /\ loop[l].pc = "read"
       /\ MuFree
       /\ loop' = [loop EXCEPT ![l] =
            IF st = NoState THEN BetweenMarkets(@)
            ELSE IF ~st.initialized \/ st.date # @.today
              THEN [@ EXCEPT !.pc = "tail", !.start = Len(feed[m])]
              ELSE [@ EXCEPT !.pc = "query", !.start = st.nextStart]]
       /\ UNCHANGED <<external, registry, running, wake, conns>>

\* Mutant: the search returns the start of the list.
Tails_Start(l) == {0}

\* What findMarketTail may return (module MarketTail): a length the list had
\* while the search ran, short of a full last page; nothing is known of a
\* search that midnight overtook.
Tails(l) ==
    {n \in IF day = loop[l].today THEN loop[l].start .. Len(feed[loop[l].market])
                                  ELSE 0..MaxEvents :
        n < (MaxStart \div PageSize + 1) * PageSize}

Recovered(m) == [s \in Subscriber |-> IF s \in subscribers THEN failed[s] \ {m} ELSE failed[s]]

\* findMarketTail succeeds, then handleBaseline: it looks the state up again
\* but does not ask whether it is the one the search was started for.
HandleBaseline(l) ==
    LET m  == loop[l].market
        st == states[m]
    IN /\ loop[l].pc = "tail"
       /\ MuFree
       /\ \E n \in Tails(l) :
            IF st = NoState THEN UNCHANGED <<states, failed>>
            ELSE /\ states' = [states EXCEPT ![m] =
                       [date |-> loop[l].today, initialized |-> TRUE, inError |-> FALSE,
                        nextStart |-> n, seen |-> {}]]
                 /\ failed' = IF st.inError THEN Recovered(m) ELSE failed
       /\ loop' = [loop EXCEPT ![l] = BetweenMarkets(@)]
       /\ UNCHANGED <<external, subscribers, marketRefs, running, wake,
                      pc, targets, messages, received>>

\* One page of the list at the time of the query, with 16-bit indices.
Page(m, start) ==
    LET n == Len(feed[m]) - start
    IN [k \in 1..(IF n <= 0 THEN 0 ELSE IF n < PageSize THEN n ELSE PageSize) |->
          [code |-> feed[m][start + k], index |-> (start + k - 1) % (MaxStart + 1), day |-> day]]

\* queryMarketMonitor gets an answer within its three attempts.
QueryPage(l) ==
    /\ loop[l].pc = "query"
    /\ loop[l].start <= MaxStart
    /\ LET items == Page(loop[l].market, loop[l].start)
       IN loop' = [loop EXCEPT ![l].pc = "handle", ![l].items = items,
                               ![l].full = (Len(items) >= PageSize)]
    /\ UNCHANGED <<external, registry, running, wake, conns>>

\* Mutant: everybody is told of every failing market.
Notified_All(watchers) == watchers

\* The watchers that had no failed market.
Notified(watchers) == {s \in watchers : failed[s] = {}}

\* All attempts of a query, or of a query of the tail search, fail (they must
\* when the cursor is past the protocol's range), then handlePollError: the
\* first failure of an outage is noted by the watchers and told to some.
HandlePollError(l) ==
    LET m  == loop[l].market
        st == states[m]
        watchers == {s \in subscribers : Watches(s, m)}
    IN /\ loop[l].pc \in {"tail", "query"}
       /\ MuFree
       /\ loop' = [loop EXCEPT ![l] = BetweenMarkets(@)]
       /\ IF st = NoState \/ st.inError
            THEN UNCHANGED <<registry, wake, failed, messages>>
            ELSE /\ failed' = [s \in Subscriber |->
                       IF s \in watchers THEN failed[s] \cup {m} ELSE failed[s]]
                 /\ Broadcast(Notified(watchers), ErrorMessage,
                              [states EXCEPT ![m].inError = TRUE])
       /\ UNCHANGED <<external, running, pc, targets, received>>

\* Mutants: the cursor steps over one item too many; it stays where it was.
NextStart_SkipsOne(start, items) == start + Len(items) + 1
NextStart_Stays(start, items) == start

\* nextStart after a page: past the items and past every index among them.
NextStart(start, items) ==
    LET ends == {start + Len(items)} \cup {items[k].index + 1 : k \in DOMAIN items}
    IN CHOOSE e \in ends : \A f \in ends : f <= e

\* handlePollItems up to the loop over the items: an answer for a state that
\* has moved on is thrown away, an answer in an outage ends the outage.
HandlePollItems(l) ==
    LET m  == loop[l].market
        st == states[m]
        current == /\ st # NoState
                   /\ st.initialized
                   /\ st.date = loop[l].today
                   /\ st.nextStart = loop[l].start
    IN /\ loop[l].pc = "handle"
       /\ MuFree
       /\ IF current
            THEN /\ states' = [states EXCEPT ![m] =
                       [@ EXCEPT !.inError = FALSE,
                                 !.nextStart = NextStart(loop[l].start, loop[l].items)]]
                 /\ failed' = IF st.inError THEN Recovered(m) ELSE failed
                 /\ loop' = [loop EXCEPT ![l].pc = "fanout"]
            ELSE /\ loop' = [loop EXCEPT ![l] = BetweenMarkets(@)]
                 /\ UNCHANGED <<states, failed>>
       /\ UNCHANGED <<external, subscribers, marketRefs, running, wake,
                      pc, targets, messages, received>>

\* One turn of the loop over the items, the lock held throughout: an item not
\* seen before goes to every subscriber that asked for its stock.
FanOutItem(l) ==
    LET m   == loop[l].market
        it  == Head(loop[l].items)
        key == <<it.code, it.index>>
        st  == states[m]
    IN /\ loop[l].pc = "fanout"
       /\ loop[l].items # <<>>
       /\ loop' = [loop EXCEPT ![l].items = Tail(@)]
       /\ IF st # NoState /\ key \in st.seen
            THEN UNCHANGED <<registry, wake, messages>>
            ELSE Broadcast({s \in subscribers : <<m, it.code>> \in targets[s]},
                           UnusualMessage(m, it),
                           IF st = NoState THEN states
                           ELSE [states EXCEPT ![m].seen = @ \cup {key}])
       /\ UNCHANGED <<external, running, pc, targets, failed, received>>

\* The lock is released; a full page is followed by the next one at once.
PageDone(l) ==
    /\ loop[l].pc = "fanout"
    /\ loop[l].items = <<>>
    /\ loop' = [loop EXCEPT ![l] =
         IF @.full THEN [@ EXCEPT !.pc = "query", !.start = loop[l].start + PageSize,
                                  !.full = FALSE]
                   ELSE BetweenMarkets(@)]
    /\ UNCHANGED <<external, registry, running, wake, conns>>

-----------------------------------------------------------------------------
(* The quotation server and the clock                                      *)

Publish(m, c) ==
    /\ Len(feed[m]) < MaxEvents
    /\ feed' = [feed EXCEPT ![m] = Append(@, c)]
    /\ UNCHANGED <<day, registry, running, wake, conns, loop>>

Midnight ==
    /\ day < MaxDay
    /\ day' = day + 1
    /\ feed' = [m \in Market |-> <<>>]
    /\ UNCHANGED <<registry, running, wake, conns, loop>>

-----------------------------------------------------------------------------

Init ==
    /\ day = 1
    /\ feed = [m \in Market |-> <<>>]
    /\ subscribers = {}
    /\ marketRefs = [m \in Market |-> 0]
    /\ states = [m \in Market |-> NoState]
    /\ running = FALSE
    /\ wake = FALSE
    /\ pc = [s \in Subscriber |-> "new"]
    /\ targets = [s \in Subscriber |-> {}]
    /\ failed = [s \in Subscriber |-> {}]
    /\ messages = [s \in Subscriber |-> <<>>]
    /\ received = [s \in Subscriber |-> <<>>]
    /\ loop = [l \in Subscriber |-> NoLoop]

Connection(s) ==
    \/ \E T \in TargetSets : Subscribe(s, T)
    \/ StartLoop(s)
    \/ NotifyPollLoop(s)
    \/ SendNext(s)
    \/ Disconnect(s)

PollLoop(l) ==
    \/ ActiveMarkets(l)
    \/ Timer(l)
    \/ WakeUp(l)
    \/ \E m \in Market : PollMarket(l, m)
    \/ ReadState(l)
    \/ HandleBaseline(l)
    \/ QueryPage(l)
    \/ HandlePollError(l)
    \/ HandlePollItems(l)
    \/ FanOutItem(l)
    \/ PageDone(l)

Environment ==
    \/ \E m \in Market, c \in Code : Publish(m, c)
    \/ Midnight

Next ==
    \/ \E s \in Subscriber : Connection(s)
    \/ \E l \in Subscriber : PollLoop(l)
    \/ Environment

Spec == Init /\ [][Next]_vars

\* What the Go scheduler gives: a goroutine that can take a step takes one,
\* and a call to the server returns, with an answer or an error.
Fairness ==
    /\ \A s \in Subscriber : WF_vars(StartLoop(s)) /\ WF_vars(NotifyPollLoop(s))
    /\ \A l \in Subscriber : WF_vars(PollLoop(l))

FairSpec == Spec /\ Fairness

-----------------------------------------------------------------------------
(* Properties                                                              *)

LoopLocals(pcs, markets) ==
    [pc : pcs, todo : SUBSET Market, market : markets, today : 0..MaxDay,
     start : Nat, items : Seq(Item), full : BOOLEAN]

\* The loop is at a market of the registry once it has begun to poll it.
LoopState == LoopLocals({"none", "top", "next"}, Nat)
             \cup LoopLocals({"read", "tail", "query", "handle", "fanout"}, Market)

TypeOK ==
    /\ day \in 1..MaxDay
    /\ feed \in [Market -> Seq(Code)]
    /\ subscribers \subseteq Subscriber
    /\ marketRefs \in [Market -> Nat]
    /\ states \in [Market -> MarketState \cup {NoState}]
    /\ running \in BOOLEAN
    /\ wake \in BOOLEAN
    /\ pc \in [Subscriber -> {"new", "starting", "notifying", "streaming", "closed"}]
    /\ targets \in [Subscriber -> SUBSET (Market \X Code)]
    /\ failed \in [Subscriber -> SUBSET Market]
    /\ messages \in [Subscriber -> Seq(Message)]
    /\ received \in [Subscriber -> Seq(Message)]
    /\ loop \in [Subscriber -> LoopState]

Watchers(m) == {s \in subscribers : Watches(s, m)}

\* The reference counts and the market states, which subscribe and
\* removeSubscriberLocked keep in two maps, agree with the set of subscribers:
\* a market is counted once per watcher and has a state exactly while watched.
RegistryConsistent ==
    \A m \in Market :
        /\ marketRefs[m] = Cardinality(Watchers(m))
        /\ states[m] # NoState <=> Watchers(m) # {}

\* Each subscriber's own note of failed markets, on which it depends whether
\* it is told of a failure, agrees with the inError flags shared by all,
\* whatever the order of failures, recoveries, joins and drops.
FailedConsistent ==
    \A s \in subscribers :
        failed[s] = {m \in MarketsOf(targets[s]) : states[m] # NoState /\ states[m].inError}

Loops == {l \in Subscriber : loop[l].pc # "none"} \cup {s \in Subscriber : pc[s] = "starting"}

\* subscribe, which decides under the lock and starts the goroutine after it,
\* and activeMarkets, which ends it, never leave two loops polling at once, nor
\* a flag without a loop, nor a subscriber without one.
SingleLoop ==
    /\ running <=> Loops # {}
    /\ \A k, l \in Loops : k = l
    /\ subscribers # {} => running

\* Watched, and neither polled nor known to have failed since it was added.
Fresh(m) == states[m] # NoState /\ ~states[m].initialized /\ ~states[m].inError

\* A market that was just added is not left to the poll timer: if the loop
\* sleeps, a token is in wake or the connection's notification is on its way,
\* whatever the loop was doing, and for whom, when the market was added.
NoLostWakeup ==
    \A m \in Market :
        Fresh(m) /\ (\E l \in Subscriber : Waiting(l))
            => wake \/ \E s \in Subscriber : pc[s] = "notifying"

\* An event of market m in today's list.
OfToday(x, m) == x.event = "unusual" /\ x.market = m /\ x.item.day = day

\* What a connection receives of a market in a day is in order and without
\* duplicates, across pages, outages, recoveries and other connections.
InOrderNoDuplicates ==
    \A s \in Subscriber, m \in Market :
        LET given == received[s] \o messages[s]
        IN \A i, j \in DOMAIN given :
             i < j /\ OfToday(given[i], m) /\ OfToday(given[j], m)
                 => given[i].item.index < given[j].item.index

\* An error event is sent exactly when a registered connection goes from no
\* failed market to some: one notice per outage, none lost, none repeated.
OneErrorPerOutage ==
    [][\A s \in subscribers \cap subscribers' :
         (failed[s] = {} /\ failed'[s] # {})
           <=> messages'[s] = Append(messages[s], ErrorMessage)]_vars

\* Every watched market is eventually polled: it gets its baseline, is marked
\* failed, or loses its last watcher.
BaselineOrError ==
    \A m \in Market :
        (states[m] # NoState /\ ~states[m].initialized)
            ~> (states[m] = NoState \/ states[m].initialized \/ states[m].inError)

\* Every event of the day that the cursor has not passed is eventually passed,
\* unless the market is marked failed, abandoned, or the day ends.
EventsReached ==
    \A m \in Market : \A n \in 1..MaxEvents, d \in 1..MaxDay :
        (day = d /\ Len(feed[m]) >= n /\ states[m] # NoState /\ states[m].initialized)
            ~> \/ day # d
               \/ states[m] = NoState
               \/ states[m].inError
               \/ states[m].nextStart >= n

\* When the last connection has gone the loop ends, unless another one comes.
LoopStops == (subscribers = {}) ~> (subscribers # {} \/ ~running)
=============================================================================
