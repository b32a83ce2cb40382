---------------------------- MODULE UnusualFeed ----------------------------
(***************************************************************************)
(* What the unusual-event stream promises its connections, without the     *)
(* hub: no reference counts, poll loop, locks, full buffers or outages.    *)
(*                                                                         *)
(* Each market that is watched has one cursor into today's list.  It is    *)
(* set once, somewhere in the list, and from then on moves over the list   *)
(* one event at a time; the event it moves over goes to every open         *)
(* connection that asked for its stock, or the connection is closed.       *)
(* A connection is sent what it was given in the order it was given it,    *)
(* and may be told between two events that there is trouble.               *)
(* After midnight nothing is promised until the cursor is set again.       *)
(***************************************************************************)
EXTENDS Integers, Sequences

CONSTANTS
    Subscriber, Market, Code,
    Index,     \* the positions a cursor can have
    NoCursor,  \* the cursor of a market that is not watched, or not yet placed
    Notice     \* that there is trouble

VARIABLES
    day,      \* the date
    feed,     \* feed[m], the codes of today's events of market m, oldest first
    open,     \* the connections being served
    targets,  \* the stocks, <<market, code>>, each of them asked for
    cursor,   \* cursor[m], or NoCursor: the date it was set for and the next index
    given,    \* what each connection was given and has not been sent
    sent      \* the events each connection has been sent

vars == <<day, feed, open, targets, cursor, given, sent>>

Watchers(m) == {s \in open : \E c \in Code : <<m, c>> \in targets[s]}

\* Every connection in some is given x.
GivenTo(some, x) ==
    [s \in Subscriber |-> IF s \in some THEN Append(given[s], x) ELSE given[s]]

Init ==
    /\ day = 1
    /\ feed = [m \in Market |-> <<>>]
    /\ open = {}
    /\ targets = [s \in Subscriber |-> {}]
    /\ cursor = [m \in Market |-> NoCursor]
    /\ given = [s \in Subscriber |-> <<>>]
    /\ sent = [s \in Subscriber |-> <<>>]

Publish(m, c) ==
    /\ feed' = [feed EXCEPT ![m] = Append(@, c)]
    /\ UNCHANGED <<day, open, targets, cursor, given, sent>>

Midnight ==
    /\ day' = day + 1
    /\ feed' = [m \in Market |-> <<>>]
    /\ UNCHANGED <<open, targets, cursor, given, sent>>

\* A connection starts at the cursors as they are, with nothing given but a notice.
Open(s, T) ==
    /\ s \notin open /\ targets[s] = {} /\ sent[s] = <<>>
    /\ open' = open \cup {s}
    /\ targets' = [targets EXCEPT ![s] = T]
    /\ \E q \in {<<>>, <<Notice>>} : given' = [given EXCEPT ![s] = q]
    /\ UNCHANGED <<day, feed, cursor, sent>>

\* The first of what a connection was given is sent.
Send(s) ==
    /\ given[s] # <<>>
    /\ given' = [given EXCEPT ![s] = Tail(@)]
    /\ sent' = IF Head(given[s]) = Notice THEN sent
               ELSE [sent EXCEPT ![s] = Append(@, Head(given[s]))]
    /\ UNCHANGED <<day, feed, open, targets, cursor>>

\* The cursors once only the connections in rest are served: a market nobody
\* watches has none.
CursorsOf(rest, cur) ==
    [m \in Market |-> IF \E s \in rest, c \in Code : <<m, c>> \in targets[s]
                      THEN cur[m] ELSE NoCursor]

\* A connection ends, and what it was given but had not yet been sent is lost.
Close(s) ==
    /\ targets[s] # {}
    /\ open' = open \ {s}
    /\ cursor' = CursorsOf(open \ {s}, cursor)
    /\ targets' = [targets EXCEPT ![s] = {}]
    /\ given' = [given EXCEPT ![s] = <<>>]
    /\ UNCHANGED <<day, feed, sent>>

\* Some are told that there is trouble; those that are too slow stop being served.
Tell(told, slow) ==
    /\ told \subseteq open /\ slow \subseteq open /\ told \cap slow = {}
    /\ open' = open \ slow
    /\ cursor' = CursorsOf(open \ slow, cursor)
    /\ given' = GivenTo(told, Notice)
    /\ UNCHANGED <<day, feed, targets, sent>>

\* The cursor of a watched market is set for a date, today's inside the list.
SetCursor(m) ==
    /\ Watchers(m) # {}
    /\ \/ cursor[m] = NoCursor
       \/ cursor[m] # NoCursor /\ cursor[m].date < day
    /\ \E d \in 1..day, n \in Index :
         /\ d = day => n <= Len(feed[m])
         /\ cursor' = [cursor EXCEPT ![m] = [date |-> d, next |-> n]]
    /\ UNCHANGED <<day, feed, open, targets, given, sent>>

\* The event ev goes to the connections that asked for it, all but some slow ones, which
\* are dropped, and the cursor moves on to n.
Handed(m, ev, n) ==
    LET asked == {s \in open : <<m, ev.code>> \in targets[s]}
    IN \E slow \in SUBSET asked :
         /\ open' = open \ slow
         /\ cursor' = CursorsOf(open \ slow, [cursor EXCEPT ![m].next = n])
         /\ given' = GivenTo(asked \ slow, [event |-> "unusual", market |-> m, item |-> ev])
         /\ UNCHANGED <<day, feed, targets, sent>>

\* The event under the cursor.
Offer(m) ==
    /\ cursor[m] # NoCursor
    /\ cursor[m].date = day
    /\ cursor[m].next < Len(feed[m])
    /\ LET n == cursor[m].next
       IN Handed(m, [code |-> feed[m][n + 1], index |-> n, day |-> day], n + 1)

\* Under yesterday's cursor anything may still be handed on, of this market
\* and about stocks that were asked for.
OfferStale(m) ==
    /\ cursor[m] # NoCursor
    /\ cursor[m].date < day
    /\ \E c \in Code, i \in Index, d \in 1..day, n \in Index :
         Handed(m, [code |-> c, index |-> i, day |-> d], n)

Next ==
    \/ \E m \in Market, c \in Code : Publish(m, c)
    \/ Midnight
    \/ \E s \in Subscriber : \E T \in SUBSET (Market \X Code) : Open(s, T)
    \/ \E s \in Subscriber : Send(s) \/ Close(s)
    \/ \E told, slow \in SUBSET Subscriber : Tell(told, slow)
    \/ \E m \in Market : SetCursor(m) \/ Offer(m) \/ OfferStale(m)

Spec == Init /\ [][Next]_vars
=============================================================================
