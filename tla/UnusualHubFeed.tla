--------------------------- MODULE UnusualHubFeed ---------------------------
(***************************************************************************)
(* How the hub implements the stream it promises: UnusualHub refines       *)
(* UnusualFeed under the mapping below.                                    *)
(***************************************************************************)
EXTENDS UnusualHub

\* No cursor is mistaken for the absence of one.
ASSUME FeedAssumption == NoState \notin [date : 0..MaxDay, next : 0..MaxEvents]

\* A fan-out advances nextStart before it hands the items on: to the watchers
\* the cursor is at the first item left.
Cursor(m) ==
    LET fanning == {l \in Subscriber : /\ loop[l].pc = "fanout" /\ loop[l].market = m
                                       /\ loop[l].items # <<>>}
    IN IF fanning = {} THEN states[m].nextStart
       ELSE Head(loop[CHOOSE l \in fanning : TRUE].items).index

FeedCursor ==
    [m \in Market |->
        IF states[m] = NoState THEN NoState
        ELSE IF ~states[m].initialized THEN NoState
        ELSE [date |-> states[m].date, next |-> Cursor(m)]]

Feed == INSTANCE UnusualFeed WITH
            Index <- 0..MaxEvents, NoCursor <- NoState, Notice <- ErrorMessage,
            open <- subscribers, cursor <- FeedCursor, given <- messages, sent <- received

\* Every step of the hub is one of the stream or leaves it alone: no event is skipped,
\* repeated or given to somebody who did not ask for it, whatever connections come, fall
\* behind or leave between two pages, and none is taken from before the cursor was set.
ImplementsFeed == Feed!Spec
=============================================================================
