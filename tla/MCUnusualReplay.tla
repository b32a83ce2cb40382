-------------------------- MODULE MCUnusualReplay ---------------------------
(***************************************************************************)
(* UnusualHub with a history variable: the date and the length of each     *)
(* market's list when a connection's subscription gave the market its      *)
(* state, so that what it is sent can be told from what came before it.    *)
(***************************************************************************)
EXTENDS MCUnusualHub

VARIABLE openedAt

NotOpened == [date |-> 0, len |-> [m \in Market |-> 0]]

ReplayInit == Init /\ openedAt = [s \in Subscriber |-> NotOpened]

ReplayNext ==
    /\ Next
    /\ openedAt' =
         [s \in Subscriber |->
            IF pc[s] = "new" /\ pc'[s] # "new"
              THEN [date |-> day,
                    len |-> [m \in Market |-> IF marketRefs[m] = 0 THEN Len(feed[m]) ELSE 0]]
              ELSE openedAt[s]]

ReplaySpec == ReplayInit /\ [][ReplayNext]_<<vars, openedAt>>

\* routes/README.md: the first successful poll only takes today's tail as a
\* baseline, events from before the connection are not replayed.  Stated for
\* the connection whose subscription made its markets watched, so that the
\* first poll is its own: nothing it is given happened before it subscribed.
NoReplayBeforeConnect ==
    \A s \in Subscriber, m \in Market :
        openedAt[s].date = day =>
            LET given == received[s] \o messages[s]
            IN \A i \in DOMAIN given : OfToday(given[i], m) => given[i].item.index >= openedAt[s].len[m]
=============================================================================
