-------------------------- MODULE UnusualHubProofs --------------------------
(***************************************************************************)
(* Theorems about UnusualHub for every set of connections, markets and     *)
(* stocks and every capacity, proved with TLAPS.                           *)
(*                                                                         *)
(* The argument: TypeOK and RegistryConsistent are proved together,        *)
(* because the counts stay natural numbers only while they count the       *)
(* subscribers (lemma RemoveLockedRegistry); the other invariants rest on  *)
(* those two and on PcConsistent.  CursorInv, what the loop knows of a     *)
(* market between two critical sections, rests on all of them; OrderInv,   *)
(* which relates the cursors to what connections have in hand, rests on    *)
(* CursorInv, and so does the refinement of UnusualFeed.                   *)
(***************************************************************************)
EXTENDS UnusualHubFeed, FiniteSetTheorems, SequenceTheorems, TLAPS

\* A registered subscriber is past its subscription and not yet back from
\* ServeHTTP, a connection that may still start a loop has not started it, and
\* a loop that does not run has no markets to visit.
PcConsistent ==
    \A s \in Subscriber :
        /\ s \in subscribers => pc[s] \notin {"new", "closed"}
        /\ pc[s] \in {"new", "starting"} => loop[s].pc = "none"
        /\ loop[s].pc = "none" => loop[s].todo = {}

\* Why no wake-up is lost: a fresh market is, at any moment, announced by a
\* token or a pending notification, or before the loop in its present round.
FreshIsSeen ==
    \A m \in Market : Fresh(m) =>
        \/ wake
        \/ \E s \in Subscriber : pc[s] \in {"notifying", "starting"}
        \/ \E l \in Subscriber :
             \/ loop[l].pc = "top"
             \/ m \in loop[l].todo
             \/ loop[l].market = m /\ loop[l].pc \in {"read", "tail"}

RegistryInv == TypeOK /\ RegistryConsistent
HubInv == RegistryInv /\ PcConsistent /\ SingleLoop /\ FailedConsistent /\ FreshIsSeen

-----------------------------------------------------------------------------
(* Lemmas about the operators *)

\* A cursor only grows: NextStart is a natural number at least as large as
\* the end of the page.
LEMMA NextStartType ==
    ASSUME NEW start \in Nat, NEW items \in Seq(Item)
    PROVE  NextStart(start, items) \in Nat /\ NextStart(start, items) >= start + Len(items)
<1> DEFINE ends == {start + Len(items)} \cup {items[k].index + 1 : k \in DOMAIN items}
           bound == start + Len(items) + MaxStart + 1
           below == {bound - e : e \in ends}
           lt == {p \in Nat \X Nat : p[1] < p[2]}
<1>1. Len(items) \in Nat /\ MaxStart \in Nat
    BY HubAssumption, LenProperties
<1>2. \A e \in ends : e \in Nat /\ e <= bound
    <2>1. \A k \in DOMAIN items : items[k] \in Item
        BY LenProperties, ElementOfSeq
    <2> QED BY <2>1, <1>1 DEF Item
<1>3. below \subseteq Nat /\ below # {}
    BY <1>1, <1>2
<1>4. PICK x \in below : \A y \in below : ~(y < x)
    <2>1. IsWellFoundedOn(lt, Nat)
        BY NatLessThanWellFounded DEF OpToRel
    <2>2. \E x \in below : \A y \in below : <<y, x>> \notin lt
        <3> HIDE DEF below, lt
        <3> QED BY <1>3, <2>1, WFMin
    <2> QED BY <2>2, <1>3
<1>5. \E e \in ends : \A f \in ends : f <= e
    <2>1. PICK e \in ends : x = bound - e
        BY DEF below
    <2>2. \A f \in ends : f <= e
        <3>1. TAKE f \in ends
        <3>2. bound - f \in below
            OBVIOUS
        <3> HIDE DEF ends, below, bound
        <3>3. e \in Nat /\ f \in Nat /\ bound \in Int /\ ~(bound - f < bound - e)
            BY <1>1, <1>2, <1>4, <2>1, <3>2 DEF bound
        <3> QED BY <3>3
    <2> QED BY <2>2
<1> DEFINE e == CHOOSE e \in ends : \A f \in ends : f <= e
<1>6. e \in ends /\ \A f \in ends : f <= e
    <2> HIDE DEF ends
    <2> QED BY <1>5
<1>7. NextStart(start, items) = e
    BY DEF NextStart
<1> QED BY <1>1, <1>2, <1>6, <1>7

\* A page is a sequence of items.
LEMMA PageType ==
    ASSUME TypeOK, NEW m \in Market, NEW start \in Nat
    PROVE  Page(m, start) \in Seq(Item)
<1> DEFINE n == Len(feed[m]) - start
           count == IF n <= 0 THEN 0 ELSE IF n < PageSize THEN n ELSE PageSize
           at(k) == [code |-> feed[m][start + k],
                     index |-> (start + k - 1) % (MaxStart + 1), day |-> day]
<1>1. feed[m] \in Seq(Code) /\ Len(feed[m]) \in Nat /\ day \in 1..MaxDay
    BY LenProperties DEF TypeOK
<1>2. PageSize \in Nat /\ MaxStart \in Nat
    BY HubAssumption
<1>3. count \in Nat /\ \A k \in 1..count : start + k \in 1..Len(feed[m])
    BY <1>1, <1>2
<1>4. \A k \in 1..count : at(k) \in Item
    <2> TAKE k \in 1..count
    <2>1. feed[m][start + k] \in Code
        BY <1>1, <1>3, ElementOfSeq
    <2>2. (start + k - 1) % (MaxStart + 1) \in 0..MaxStart
        BY <1>2, <1>3
    <2> QED BY <2>1, <2>2, <1>1 DEF Item
<1>5. [k \in 1..count |-> at(k)] \in Seq(Item)
    <2> HIDE DEF count, at
    <2> QED BY <1>3, <1>4, IsASeq
<1> QED BY <1>5 DEF Page

\* Counting watchers is compatible with removing subscribers: the counts
\* RemoveLocked leaves behind are those of the remaining watchers, they are
\* natural numbers, and the states it keeps are those of watched markets.
LEMMA RemoveLockedRegistry ==
    ASSUME TypeOK, RegistryConsistent, NEW gone, gone \subseteq subscribers,
           NEW st \in [Market -> MarketState \cup {NoState}],
           \A m \in Market : st[m] # NoState <=> states[m] # NoState,
           RemoveLocked(gone, st),
           \A s \in subscribers \ gone : targets'[s] = targets[s]
    PROVE  /\ subscribers' = subscribers \ gone
           /\ marketRefs' \in [Market -> Nat]
           /\ states' \in [Market -> MarketState \cup {NoState}]
           /\ wake' \in BOOLEAN /\ (wake => wake')
           /\ \A m \in Market : /\ marketRefs'[m] = Cardinality(Watchers(m)')
                                /\ states'[m] # NoState <=> Watchers(m)' # {}
                                /\ states'[m] # NoState => states'[m] = st[m]
<1> DEFINE G(m) == {s \in gone : Watches(s, m)}
<1>1. subscribers' = subscribers \ gone /\ wake' \in BOOLEAN /\ (wake => wake')
    BY DEF RemoveLocked, TypeOK
<1>2. ASSUME NEW m \in Market
      PROVE  /\ RefsWithout(gone)[m] = Cardinality(Watchers(m)')
             /\ RefsWithout(gone)[m] \in Nat
             /\ IsFiniteSet(Watchers(m)')
    <2>1. IsFiniteSet(Watchers(m))
        BY FS_Subset, HubAssumption DEF TypeOK, Watchers
    <2>2. Watchers(m)' = Watchers(m) \ G(m)
        BY <1>1 DEF Watchers, Watches
    <2>3. Watchers(m) \cap G(m) = G(m)
        BY DEF Watchers
    <2>4. /\ IsFiniteSet(Watchers(m)')
          /\ Cardinality(Watchers(m)') = Cardinality(Watchers(m)) - Cardinality(G(m))
        <3> HIDE DEF G
        <3>1. /\ IsFiniteSet(Watchers(m) \ G(m))
              /\ Cardinality(Watchers(m) \ G(m))
                   = Cardinality(Watchers(m)) - Cardinality(Watchers(m) \cap G(m))
            BY <2>1, FS_Difference
        <3> QED BY <2>2, <2>3, <3>1
    <2>5. RefsWithout(gone)[m] = Cardinality(Watchers(m)) - Cardinality(G(m))
        BY DEF RefsWithout, RegistryConsistent
    <2> QED BY <2>4, <2>5, FS_CardinalityType
<1>3. marketRefs' = RefsWithout(gone)
    BY DEF RemoveLocked
<1>4. marketRefs' \in [Market -> Nat]
    BY <1>2, <1>3 DEF RefsWithout
<1>5. ASSUME NEW m \in Market
      PROVE  /\ states'[m] # NoState <=> Watchers(m)' # {}
             /\ states'[m] # NoState => states'[m] = st[m]
    <2> DEFINE left == {k \in Market : marketRefs[k] > 0 /\ RefsWithout(gone)[k] <= 0}
    <2>1. states'[m] = IF m \in left THEN NoState ELSE st[m]
        BY DEF RemoveLocked
    <2>2. Watchers(m)' = {} <=> RefsWithout(gone)[m] = 0
        BY <1>2, FS_EmptySet
    <2>3. /\ Watchers(m) = {} <=> marketRefs[m] = 0
          /\ marketRefs[m] \in Nat
        <3>1. IsFiniteSet(Watchers(m))
            BY FS_Subset, HubAssumption DEF TypeOK, Watchers
        <3> QED BY <3>1, FS_EmptySet DEF RegistryConsistent, TypeOK
    <2>4. Watchers(m)' \subseteq Watchers(m)
        BY <1>1 DEF Watchers, Watches
    <2>5. m \in left <=> (Watchers(m) # {} /\ Watchers(m)' = {})
        BY <2>2, <2>3, <1>2
    <2>6. states[m] # NoState <=> Watchers(m) # {}
        BY DEF RegistryConsistent
    <2> HIDE DEF left
    <2> QED BY <2>1, <2>4, <2>5, <2>6
<1>6. states' \in [Market -> MarketState \cup {NoState}]
    BY DEF RemoveLocked
<1> QED BY <1>1, <1>2, <1>3, <1>4, <1>5, <1>6

\* A broadcast to registered subscribers, whoever it drops for a full buffer,
\* keeps the registry consistent and the buffers well typed.
LEMMA BroadcastRegistry ==
    ASSUME TypeOK, RegistryConsistent, NEW audience, audience \subseteq subscribers,
           NEW message \in Message,
           NEW st \in [Market -> MarketState \cup {NoState}],
           \A m \in Market : st[m] # NoState <=> states[m] # NoState,
           Broadcast(audience, message, st),
           targets' = targets
    PROVE  /\ subscribers' \subseteq subscribers
           /\ messages' \in [Subscriber -> Seq(Message)]
           /\ marketRefs' \in [Market -> Nat]
           /\ states' \in [Market -> MarketState \cup {NoState}]
           /\ wake' \in BOOLEAN /\ (wake => wake')
           /\ \A m \in Market : /\ marketRefs'[m] = Cardinality(Watchers(m)')
                                /\ states'[m] # NoState <=> Watchers(m)' # {}
                                /\ states'[m] # NoState => states'[m] = st[m]
<1> DEFINE slow == {s \in audience : Full(s)}
<1>1. slow \subseteq subscribers /\ RemoveLocked(slow, st)
    BY DEF Broadcast
<1>2. messages' \in [Subscriber -> Seq(Message)]
    BY AppendProperties DEF Broadcast, TypeOK
<1>3. \A s \in subscribers \ slow : targets'[s] = targets[s]
    OBVIOUS
<1>4. subscribers' \subseteq subscribers
    BY <1>1 DEF RemoveLocked
<1> HIDE DEF slow
<1> QED BY <1>1, <1>2, <1>3, <1>4, RemoveLockedRegistry

-----------------------------------------------------------------------------
(* Type correctness and the registry *)

\* The two kinds of event are messages.
LEMMA MessageTypes ==
    /\ ErrorMessage \in Message
    /\ \A m \in Market, it \in Item : UnusualMessage(m, it) \in Message
BY DEF ErrorMessage, UnusualMessage, Message

\* The states of a loop that has not started, and of one between two markets.
LEMMA LoopTypes ==
    /\ NoLoop \in LoopState
    /\ NoLoop.pc = "none" /\ NoLoop.todo = {}
    /\ \A lp \in LoopState : /\ BetweenMarkets(lp) \in LoopState
                             /\ BetweenMarkets(lp).pc = "next"
                             /\ BetweenMarkets(lp).todo = lp.todo
<1>1. 0 \in 0..MaxDay /\ <<>> \in Seq(Item) /\ Market \subseteq Nat
    BY HubAssumption, EmptySeq
<1> HIDE DEF Item
<1>2. NoLoop \in LoopState /\ NoLoop.pc = "none" /\ NoLoop.todo = {}
    BY <1>1 DEF NoLoop, LoopState, LoopLocals
<1> QED BY <1>1, <1>2 DEF BetweenMarkets, LoopState, LoopLocals

\* A loop without items may go anywhere between markets; at a market of the
\* registry it may go to any point of pollMarket.
LEMMA LoopMoves ==
    ASSUME NEW lp \in LoopState
    PROVE  /\ lp.market \in Nat /\ lp.start \in Nat /\ lp.items \in Seq(Item)
           /\ lp.todo \subseteq Market /\ lp.today \in 0..MaxDay
           /\ lp.pc \in {"read", "tail", "query", "handle", "fanout"} => lp.market \in Market
           /\ \A q \in {"none", "top", "next"}, R \in SUBSET Market :
                /\ [lp EXCEPT !.pc = q] \in LoopState
                /\ [lp EXCEPT !.pc = q, !.todo = R] \in LoopState
           /\ lp.market \in Market =>
                \A q \in {"read", "tail", "query", "handle", "fanout"}, n \in Nat,
                   items \in Seq(Item), full \in BOOLEAN :
                  /\ [lp EXCEPT !.pc = q] \in LoopState
                  /\ [lp EXCEPT !.pc = q, !.start = n] \in LoopState
                  /\ [lp EXCEPT !.pc = q, !.start = n, !.full = full] \in LoopState
                  /\ [lp EXCEPT !.pc = q, !.items = items, !.full = full] \in LoopState
           /\ \A items \in Seq(Item) : [lp EXCEPT !.items = items] \in LoopState
<1>1. Market \subseteq Nat
    BY HubAssumption
<1>2. /\ lp.market \in Nat /\ lp.start \in Nat /\ lp.items \in Seq(Item)
      /\ lp.todo \subseteq Market /\ lp.today \in 0..MaxDay
      /\ lp.pc \in {"read", "tail", "query", "handle", "fanout"} => lp.market \in Market
    BY <1>1 DEF LoopState, LoopLocals
<1>3. ASSUME NEW q \in {"none", "top", "next"}, NEW R \in SUBSET Market
      PROVE  /\ [lp EXCEPT !.pc = q] \in LoopState
             /\ [lp EXCEPT !.pc = q, !.todo = R] \in LoopState
    BY <1>1, <1>3 DEF LoopState, LoopLocals
<1>4. ASSUME lp.market \in Market, NEW q \in {"read", "tail", "query", "handle", "fanout"},
             NEW n \in Nat, NEW items \in Seq(Item), NEW full \in BOOLEAN
      PROVE  /\ [lp EXCEPT !.pc = q] \in LoopState
             /\ [lp EXCEPT !.pc = q, !.start = n] \in LoopState
             /\ [lp EXCEPT !.pc = q, !.start = n, !.full = full] \in LoopState
             /\ [lp EXCEPT !.pc = q, !.items = items, !.full = full] \in LoopState
    <2> HIDE DEF Item
    <2>1. [lp EXCEPT !.pc = q] \in LoopState
        BY <1>4 DEF LoopState, LoopLocals
    <2>2. [lp EXCEPT !.pc = q, !.start = n] \in LoopState
        BY <1>4 DEF LoopState, LoopLocals
    <2>3. [lp EXCEPT !.pc = q, !.start = n, !.full = full] \in LoopState
        BY <1>4 DEF LoopState, LoopLocals
    <2>4. [lp EXCEPT !.pc = q, !.items = items, !.full = full] \in LoopState
        BY <1>4 DEF LoopState, LoopLocals
    <2> QED BY <2>1, <2>2, <2>3, <2>4
<1>5. ASSUME NEW items \in Seq(Item)
      PROVE  [lp EXCEPT !.items = items] \in LoopState
    BY <1>5 DEF LoopState, LoopLocals
<1> QED BY <1>2, <1>3, <1>4, <1>5

\* The state subscribe gives a market is one, and is not the absent one.
LEMMA StateTypes ==
    /\ FreshState \in MarketState
    /\ FreshState # NoState
    /\ FreshState.initialized = FALSE /\ FreshState.inError = FALSE
    /\ NoState \notin MarketState
<1>1. 0 \in 0..MaxDay
    BY HubAssumption
<1>2. FreshState \in MarketState
    BY <1>1 DEF FreshState, MarketState
<1>3. NoState \notin MarketState
    BY HubAssumption
<1>4. FreshState.initialized = FALSE /\ FreshState.inError = FALSE
    BY DEF FreshState
<1> QED BY <1>2, <1>3, <1>4

\* The initial state has the right types and an empty registry.
LEMMA InitRegistry == Init => RegistryInv
<1> SUFFICES ASSUME Init PROVE RegistryInv
    OBVIOUS
<1>1. TypeOK
    <2>1. day \in 1..MaxDay /\ <<>> \in Seq(Code) /\ <<>> \in Seq(Message)
        BY HubAssumption, EmptySeq DEF Init
    <2>2. loop \in [Subscriber -> LoopState]
        BY LoopTypes DEF Init
    <2> QED BY <2>1, <2>2 DEF Init, TypeOK
<1>2. RegistryConsistent
    BY FS_EmptySet DEF Init, RegistryConsistent, Watchers
<1> QED BY <1>1, <1>2 DEF RegistryInv

\* What connections do keeps the registry invariant.
LEMMA ConnectionRegistry ==
    ASSUME RegistryInv, PcConsistent, NEW s \in Subscriber, Connection(s)
    PROVE  RegistryInv'
<1> USE DEF RegistryInv
<1> USE StateTypes
<1>1. ASSUME NEW T \in TargetSets, Subscribe(s, T)
      PROVE  RegistryInv'
    <2>1. s \notin subscribers /\ subscribers' = subscribers \cup {s}
        BY <1>1 DEF Subscribe, PcConsistent
    <2>2. MarketsOf(T) \subseteq Market /\ T \in SUBSET (Market \X Code)
        BY HubAssumption DEF MarketsOf
    <2>3. \A m \in Market : Watchers(m)' = IF m \in MarketsOf(T) THEN Watchers(m) \cup {s}
                                                                 ELSE Watchers(m)
        BY <1>1, <2>1 DEF Subscribe, Watchers, Watches, TypeOK
    <2>4. \A m \in Market : IsFiniteSet(Watchers(m)) /\ s \notin Watchers(m)
        BY <2>1, HubAssumption, FS_Subset DEF Watchers, TypeOK
    <2>5. RegistryConsistent'
        <3> SUFFICES ASSUME NEW m \in Market
                     PROVE  /\ marketRefs'[m] = Cardinality(Watchers(m)')
                            /\ states'[m] # NoState <=> Watchers(m)' # {}
            BY DEF RegistryConsistent
        <3>1. /\ marketRefs[m] = Cardinality(Watchers(m)) /\ marketRefs[m] \in Nat
              /\ states[m] # NoState <=> Watchers(m) # {}
            BY DEF RegistryConsistent, TypeOK
        <3>2. CASE m \in MarketsOf(T)
            <4>1. marketRefs'[m] = marketRefs[m] + 1
                BY <1>1, <3>2 DEF Subscribe
            <4>2. Cardinality(Watchers(m) \cup {s}) = Cardinality(Watchers(m)) + 1
                BY <2>4, FS_AddElement
            <4>3. states'[m] # NoState
                BY <1>1, <3>1, <3>2, <2>4, FS_EmptySet DEF Subscribe, NewMarkets
            <4> QED BY <2>3, <3>1, <3>2, <4>1, <4>2, <4>3
        <3>3. CASE m \notin MarketsOf(T)
            BY <1>1, <2>3, <3>1, <3>3 DEF Subscribe, NewMarkets
        <3> QED BY <3>2, <3>3
    <2>6. TypeOK'
        <3>1. messages' \in [Subscriber -> Seq(Message)]
            BY <1>1, MessageTypes DEF Subscribe, TypeOK
        <3>2. /\ marketRefs' \in [Market -> Nat]
              /\ states' \in [Market -> MarketState \cup {NoState}]
            BY <1>1 DEF Subscribe, TypeOK
        <3>3. failed' \in [Subscriber -> SUBSET Market]
            BY <1>1, <2>2 DEF Subscribe, TypeOK, FailedMarkets
        <3>4. /\ targets' \in [Subscriber -> SUBSET (Market \X Code)]
              /\ pc' \in [Subscriber -> {"new", "starting", "notifying", "streaming", "closed"}]
            BY <1>1, <2>2 DEF Subscribe, TypeOK, AfterSubscribe
        <3> QED BY <1>1, <2>1, <3>1, <3>2, <3>3, <3>4 DEF Subscribe, TypeOK, external
    <2> QED BY <2>5, <2>6
<1>2. ASSUME StartLoop(s) PROVE RegistryInv'
    <2>1. TypeOK'
        <3>1. loop' = [loop EXCEPT ![s] = [loop[s] EXCEPT !.pc = "top"]]
            BY <1>2 DEF StartLoop
        <3>2. [loop[s] EXCEPT !.pc = "top"] \in LoopState
            BY LoopMoves DEF TypeOK
        <3>3. loop' \in [Subscriber -> LoopState]
            BY <3>1, <3>2 DEF TypeOK
        <3> QED BY <1>2, <3>3 DEF StartLoop, TypeOK, external, registry
    <2>2. RegistryConsistent'
        BY <1>2 DEF StartLoop, registry, RegistryConsistent, Watchers, Watches
    <2> QED BY <2>1, <2>2
<1>3. ASSUME NotifyPollLoop(s) PROVE RegistryInv'
    <2>1. TypeOK'
        BY <1>3 DEF NotifyPollLoop, TypeOK, external, registry
    <2>2. RegistryConsistent'
        BY <1>3 DEF NotifyPollLoop, registry, RegistryConsistent, Watchers, Watches
    <2> QED BY <2>1, <2>2
<1>4. ASSUME SendNext(s) PROVE RegistryInv'
    <2>1. messages' \in [Subscriber -> Seq(Message)]
        BY <1>4, HeadTailProperties DEF SendNext, TypeOK
    <2>2. Head(messages[s]) \in Message
        BY <1>4, HeadTailProperties DEF SendNext, TypeOK
    <2>3. received' \in [Subscriber -> Seq(Message)]
        BY <1>4, <2>2, AppendProperties DEF SendNext, TypeOK
    <2>4. TypeOK'
        BY <1>4, <2>1, <2>3 DEF SendNext, TypeOK, external, registry
    <2>5. RegistryConsistent'
        BY <1>4 DEF SendNext, registry, RegistryConsistent, Watchers, Watches
    <2> QED BY <2>4, <2>5
<1>5. ASSUME Disconnect(s) PROVE RegistryInv'
    <2>1. RemoveLocked(Registered(s), states) /\ Registered(s) \subseteq subscribers
        BY <1>5 DEF Disconnect, Registered
    <2>2. \A t \in subscribers \ Registered(s) : targets'[t] = targets[t]
        BY <1>5 DEF Disconnect, Registered, TypeOK
    <2>3. states \in [Market -> MarketState \cup {NoState}]
        BY DEF TypeOK
    <2>4. /\ subscribers' = subscribers \ Registered(s)
          /\ marketRefs' \in [Market -> Nat]
          /\ states' \in [Market -> MarketState \cup {NoState}]
          /\ wake' \in BOOLEAN
          /\ RegistryConsistent'
        BY <2>1, <2>2, <2>3, RemoveLockedRegistry DEF RegistryConsistent
    <2>5. TypeOK'
        BY <1>5, <2>4 DEF Disconnect, TypeOK, external
    <2> QED BY <2>4, <2>5
<1> QED BY <1>1, <1>2, <1>3, <1>4, <1>5 DEF Connection

\* A step that leaves the registry alone keeps it consistent.
LEMMA RegistryUnchanged ==
    ASSUME RegistryConsistent, UNCHANGED <<subscribers, marketRefs, targets>>,
           \A m \in Market : states'[m] # NoState <=> states[m] # NoState
    PROVE  RegistryConsistent'
BY DEF RegistryConsistent, Watchers, Watches

\* What the poll loop does keeps the registry invariant.
LEMMA LoopRegistry ==
    ASSUME RegistryInv, NEW l \in Subscriber, PollLoop(l)
    PROVE  RegistryInv'
<1> USE DEF RegistryInv
<1> DEFINE m == loop[l].market
           st == states[m]
<1>0. /\ loop[l] \in LoopState /\ m \in Nat /\ loop \in [Subscriber -> LoopState]
      /\ BetweenMarkets(loop[l]) \in LoopState /\ NoLoop \in LoopState
    BY LoopTypes, LoopMoves DEF TypeOK
<1>t. ASSUME NEW lp \in LoopState, loop' = [loop EXCEPT ![l] = lp]
      PROVE  loop' \in [Subscriber -> LoopState]
    BY <1>0, <1>t
<1>1. ASSUME ActiveMarkets(l) PROVE RegistryInv'
    <2> DEFINE next == [loop[l] EXCEPT !.pc = "next", !.todo = {k \in Market : marketRefs[k] > 0}]
    <2>1. next \in LoopState
        BY <1>0, LoopMoves
    <2>2. loop' = [loop EXCEPT ![l] = NoLoop] \/ loop' = [loop EXCEPT ![l] = next]
        BY <1>1, <1>0 DEF ActiveMarkets, LoopState, LoopLocals
    <2>3. loop' \in [Subscriber -> LoopState]
        BY <2>1, <2>2, <1>t, <1>0
    <2>4. TypeOK'
        BY <1>1, <2>3 DEF ActiveMarkets, TypeOK, external, registry, conns
    <2>5. RegistryConsistent'
        BY <1>1, RegistryUnchanged DEF ActiveMarkets, registry, conns
    <2> QED BY <2>4, <2>5
<1>2. ASSUME Timer(l) \/ WakeUp(l) PROVE RegistryInv'
    <2> DEFINE top == [loop[l] EXCEPT !.pc = "top"]
    <2>1. top \in LoopState
        BY <1>0, LoopMoves
    <2>2. loop' = [loop EXCEPT ![l] = top]
        BY <1>2, <1>0 DEF Timer, WakeUp
    <2>3. loop' \in [Subscriber -> LoopState]
        BY <2>1, <2>2, <1>t
    <2>4. TypeOK'
        BY <1>2, <2>3 DEF Timer, WakeUp, TypeOK, external, registry, conns
    <2>5. RegistryConsistent'
        BY <1>2, RegistryUnchanged DEF Timer, WakeUp, registry, conns
    <2> QED BY <2>4, <2>5
<1>3. ASSUME NEW k \in Market, PollMarket(l, k) PROVE RegistryInv'
    <2> DEFINE read == [loop[l] EXCEPT !.pc = "read", !.todo = @ \ {k},
                                       !.market = k, !.today = day]
    <2>1. read \in LoopState
        <3>1. k \in Nat /\ day \in 0..MaxDay
            BY HubAssumption DEF TypeOK
        <3> QED BY <1>0, <3>1 DEF LoopState, LoopLocals
    <2>2. loop' = [loop EXCEPT ![l] = read]
        BY <1>3, <1>0 DEF PollMarket, LoopState, LoopLocals
    <2>3. loop' \in [Subscriber -> LoopState]
        BY <2>1, <2>2, <1>t
    <2>4. TypeOK'
        BY <1>3, <2>3 DEF PollMarket, TypeOK, external, registry, conns
    <2>5. RegistryConsistent'
        BY <1>3, RegistryUnchanged DEF PollMarket, registry, conns
    <2> QED BY <2>4, <2>5
<1>4. ASSUME ReadState(l) PROVE RegistryInv'
    <2> DEFINE tail == [loop[l] EXCEPT !.pc = "tail", !.start = Len(feed[m])]
               query == [loop[l] EXCEPT !.pc = "query", !.start = st.nextStart]
    <2>1. m \in Market
        BY <1>4, <1>0, LoopMoves DEF ReadState
    <2>2. tail \in LoopState
        <3>1. Len(feed[m]) \in Nat
            BY <2>1, LenProperties DEF TypeOK
        <3> QED BY <1>0, <2>1, <3>1, LoopMoves
    <2>3. st # NoState => query \in LoopState
        <3>1. st # NoState => st.nextStart \in Nat
            BY <2>1 DEF TypeOK, MarketState
        <3> QED BY <1>0, <2>1, <3>1, LoopMoves
    <2>4. \/ loop' = [loop EXCEPT ![l] = BetweenMarkets(loop[l])]
          \/ loop' = [loop EXCEPT ![l] = tail]
          \/ st # NoState /\ loop' = [loop EXCEPT ![l] = query]
        BY <1>4, <1>0 DEF ReadState
    <2>5. loop' \in [Subscriber -> LoopState]
        <3> HIDE DEF tail, query
        <3> QED BY <2>2, <2>3, <2>4, <1>t, <1>0
    <2>6. TypeOK'
        BY <1>4, <2>5 DEF ReadState, TypeOK, external, registry, conns
    <2>7. RegistryConsistent'
        BY <1>4, RegistryUnchanged DEF ReadState, registry, conns
    <2> QED BY <2>6, <2>7
<1>5. ASSUME HandleBaseline(l) PROVE RegistryInv'
    <2>1. PICK n \in Tails(l) :
            IF st = NoState THEN UNCHANGED <<states, failed>>
            ELSE /\ states' = [states EXCEPT ![m] =
                       [date |-> loop[l].today, initialized |-> TRUE, inError |-> FALSE,
                        nextStart |-> n, seen |-> {}]]
                 /\ failed' = IF st.inError THEN Recovered(m) ELSE failed
        BY <1>5 DEF HandleBaseline
    <2>2. m \in Market /\ loop[l].today \in 0..MaxDay /\ n \in Nat
        <3>1. m \in Market /\ loop[l].today \in 0..MaxDay /\ loop[l].start \in Nat
            BY <1>5, <1>0, LoopMoves DEF HandleBaseline
        <3> QED BY <3>1, LenProperties, HubAssumption DEF Tails, TypeOK
    <2>3. /\ states' \in [Market -> MarketState \cup {NoState}]
          /\ \A k \in Market : states'[k] # NoState <=> states[k] # NoState
        <3> DEFINE new == [date |-> loop[l].today, initialized |-> TRUE, inError |-> FALSE,
                           nextStart |-> n, seen |-> {}]
        <3>1. new \in MarketState
            BY <2>2 DEF MarketState
        <3>2. UNCHANGED states \/ (st # NoState /\ states' = [states EXCEPT ![m] = new])
            BY <2>1
        <3> HIDE DEF new
        <3> QED BY <2>2, <3>1, <3>2, StateTypes DEF TypeOK
    <2>4. failed' \in [Subscriber -> SUBSET Market]
        <3>1. UNCHANGED failed \/ failed' = Recovered(m)
            BY <2>1
        <3>2. Recovered(m) \in [Subscriber -> SUBSET Market]
            BY DEF TypeOK, Recovered
        <3> QED BY <3>1, <3>2 DEF TypeOK
    <2>5. loop' \in [Subscriber -> LoopState]
        BY <1>5, <1>0, <1>t DEF HandleBaseline
    <2>6. TypeOK'
        BY <1>5, <2>3, <2>4, <2>5 DEF HandleBaseline, TypeOK, external
    <2>7. RegistryConsistent'
        BY <1>5, <2>3, RegistryUnchanged DEF HandleBaseline
    <2> QED BY <2>6, <2>7
<1>6. ASSUME QueryPage(l) PROVE RegistryInv'
    <2> DEFINE items == Page(m, loop[l].start)
               lp == [loop[l] EXCEPT !.pc = "handle", !.items = items,
                                     !.full = (Len(items) >= PageSize)]
    <2>1. m \in Market /\ loop[l].start \in Nat
        BY <1>6, <1>0, LoopMoves DEF QueryPage
    <2>2. items \in Seq(Item) /\ (Len(items) >= PageSize) \in BOOLEAN
        BY <2>1, PageType
    <2>3. loop' = [loop EXCEPT ![l] = lp]
        <3> HIDE DEF items
        <3>1. loop' = [loop EXCEPT ![l].pc = "handle", ![l].items = items,
                                   ![l].full = (Len(items) >= PageSize)]
            BY <1>6 DEF QueryPage, items
        <3> QED BY <3>1, <1>0 DEF LoopState, LoopLocals
    <2>4. lp \in LoopState
        <3> HIDE DEF items
        <3> QED BY <1>0, <2>1, <2>2, LoopMoves
    <2>5. loop' \in [Subscriber -> LoopState]
        <3> HIDE DEF lp
        <3> QED BY <2>3, <2>4, <1>t
    <2>6. TypeOK'
        BY <1>6, <2>5 DEF QueryPage, TypeOK, external, registry, conns
    <2>7. RegistryConsistent'
        BY <1>6, RegistryUnchanged DEF QueryPage, registry, conns
    <2> QED BY <2>6, <2>7
<1>7. ASSUME HandlePollError(l) PROVE RegistryInv'
    <2>1. m \in Market
        BY <1>7, <1>0, LoopMoves DEF HandlePollError
    <2>2. loop' \in [Subscriber -> LoopState]
        BY <1>7, <1>0, <1>t DEF HandlePollError
    <2>3. CASE st = NoState \/ st.inError
        <3>1. UNCHANGED <<registry, wake, failed, messages>>
            BY <1>7, <2>3 DEF HandlePollError
        <3>2. TypeOK'
            BY <1>7, <2>2, <3>1 DEF HandlePollError, TypeOK, external, registry
        <3>3. RegistryConsistent'
            BY <1>7, <3>1, RegistryUnchanged DEF HandlePollError, registry
        <3> QED BY <3>2, <3>3
    <2>4. CASE ~(st = NoState \/ st.inError)
        <3> DEFINE watchers == {s \in subscribers : Watches(s, m)}
                   noted == [s \in Subscriber |->
                               IF s \in watchers THEN failed[s] \cup {m} ELSE failed[s]]
                   marked == [states EXCEPT ![m].inError = TRUE]
        <3>1. failed' = noted /\ Broadcast(Notified(watchers), ErrorMessage, marked)
            BY <1>7, <2>4 DEF HandlePollError
        <3>2. noted \in [Subscriber -> SUBSET Market]
            BY <2>1 DEF TypeOK
        <3>3. /\ marked \in [Market -> MarketState \cup {NoState}]
              /\ \A k \in Market : marked[k] # NoState <=> states[k] # NoState
            <4>1. st \in MarketState
                BY <2>1, <2>4 DEF TypeOK
            <4>2. [st EXCEPT !.inError = TRUE] \in MarketState
                BY <4>1 DEF MarketState
            <4>3. marked = [states EXCEPT ![m] = [st EXCEPT !.inError = TRUE]]
                OBVIOUS
            <4> HIDE DEF marked
            <4> QED BY <2>1, <2>4, <4>2, <4>3, StateTypes DEF TypeOK
        <3>4. Notified(watchers) \subseteq subscribers
            BY DEF Notified
        <3>5. targets' = targets
            BY <1>7 DEF HandlePollError
        <3>6. /\ subscribers' \subseteq subscribers
              /\ messages' \in [Subscriber -> Seq(Message)]
              /\ marketRefs' \in [Market -> Nat]
              /\ states' \in [Market -> MarketState \cup {NoState}]
              /\ wake' \in BOOLEAN
              /\ RegistryConsistent'
            <4> HIDE DEF marked, noted, watchers
            <4> QED BY <3>1, <3>3, <3>4, <3>5, MessageTypes, BroadcastRegistry DEF RegistryConsistent
        <3>7. TypeOK'
            <4> HIDE DEF marked, noted, watchers
            <4> QED BY <1>7, <2>2, <3>1, <3>2, <3>6 DEF HandlePollError, TypeOK, external
        <3> QED BY <3>6, <3>7
    <2> QED BY <2>3, <2>4
<1>8. ASSUME HandlePollItems(l) PROVE RegistryInv'
    <2>1. m \in Market /\ loop[l].start \in Nat /\ loop[l].items \in Seq(Item)
        BY <1>8, <1>0, LoopMoves DEF HandlePollItems
    <2>2. loop' \in [Subscriber -> LoopState]
        <3>1. [loop[l] EXCEPT !.pc = "fanout"] \in LoopState
            BY <2>1, <1>0, LoopMoves
        <3>2. \/ loop' = [loop EXCEPT ![l] = [loop[l] EXCEPT !.pc = "fanout"]]
              \/ loop' = [loop EXCEPT ![l] = BetweenMarkets(loop[l])]
            BY <1>8, <1>0 DEF HandlePollItems
        <3> QED BY <3>1, <3>2, <1>t, <1>0
    <2>3. /\ states' \in [Market -> MarketState \cup {NoState}]
          /\ \A k \in Market : states'[k] # NoState <=> states[k] # NoState
        <3> DEFINE n == NextStart(loop[l].start, loop[l].items)
                   new == [st EXCEPT !.inError = FALSE, !.nextStart = n]
        <3>1. UNCHANGED states \/ (st # NoState /\ states' = [states EXCEPT ![m] = new])
            BY <1>8 DEF HandlePollItems
        <3>2. n \in Nat
            BY <2>1, NextStartType
        <3>3. st # NoState => new \in MarketState
            <4>1. st # NoState => st \in MarketState
                BY <2>1 DEF TypeOK
            <4> HIDE DEF n
            <4> QED BY <4>1, <3>2 DEF MarketState
        <3> HIDE DEF new
        <3> QED BY <2>1, <3>1, <3>3, StateTypes, ZenonT(30) DEF TypeOK
    <2>4. failed' \in [Subscriber -> SUBSET Market]
        <3>1. UNCHANGED failed \/ failed' = Recovered(m)
            BY <1>8 DEF HandlePollItems
        <3>2. Recovered(m) \in [Subscriber -> SUBSET Market]
            BY DEF TypeOK, Recovered
        <3> QED BY <3>1, <3>2 DEF TypeOK
    <2>5. TypeOK'
        BY <1>8, <2>2, <2>3, <2>4 DEF HandlePollItems, TypeOK, external
    <2>6. RegistryConsistent'
        BY <1>8, <2>3, RegistryUnchanged DEF HandlePollItems
    <2> QED BY <2>5, <2>6
<1>9. ASSUME FanOutItem(l) PROVE RegistryInv'
    <2> DEFINE it == Head(loop[l].items)
               key == <<it.code, it.index>>
               audience == {s \in subscribers : <<m, it.code>> \in targets[s]}
               marked == IF st = NoState THEN states
                         ELSE [states EXCEPT ![m].seen = @ \cup {key}]
    <2>1. m \in Market /\ loop[l].items \in Seq(Item) /\ loop[l].items # <<>>
        BY <1>9, <1>0, LoopMoves DEF FanOutItem
    <2>2. it \in Item /\ Tail(loop[l].items) \in Seq(Item)
        BY <2>1, HeadTailProperties
    <2>3. loop' \in [Subscriber -> LoopState]
        <3>1. loop' = [loop EXCEPT ![l] = [loop[l] EXCEPT !.items = Tail(loop[l].items)]]
            BY <1>9, <1>0 DEF FanOutItem
        <3>2. [loop[l] EXCEPT !.items = Tail(loop[l].items)] \in LoopState
            BY <2>2, <1>0, LoopMoves
        <3> QED BY <3>1, <3>2, <1>t
    <2>4. CASE UNCHANGED <<registry, wake, messages>>
        <3>1. TypeOK'
            BY <1>9, <2>3, <2>4 DEF FanOutItem, TypeOK, external, registry
        <3>2. RegistryConsistent'
            BY <1>9, <2>4, RegistryUnchanged DEF FanOutItem, registry
        <3> QED BY <3>1, <3>2
    <2>5. CASE Broadcast(audience, UnusualMessage(m, it), marked)
        <3>1. UnusualMessage(m, it) \in Message
            BY <2>1, <2>2, MessageTypes
        <3>2. /\ marked \in [Market -> MarketState \cup {NoState}]
              /\ \A k \in Market : marked[k] # NoState <=> states[k] # NoState
            <4>1. key \in Code \X Nat
                BY <2>2, HubAssumption, SMTT(30) DEF Item
            <4>2. st # NoState => [st EXCEPT !.seen = @ \cup {key}] \in MarketState
                <5> HIDE DEF key
                <5>1. st # NoState => st \in MarketState
                    BY <2>1, ZenonT(30) DEF TypeOK
                <5>2. st \in MarketState => [st EXCEPT !.seen = @ \cup {key}] \in MarketState
                    BY <4>1, SMTT(30) DEF MarketState
                <5> QED BY <5>1, <5>2
            <4>3. marked = IF st = NoState THEN states
                           ELSE [states EXCEPT ![m] = [st EXCEPT !.seen = @ \cup {key}]]
                <5> HIDE DEF key
                <5> QED BY DEF marked
            <4> HIDE DEF key, marked
            <4> QED BY <2>1, <4>2, <4>3, StateTypes DEF TypeOK
        <3>3. targets' = targets /\ audience \subseteq subscribers
            BY <1>9 DEF FanOutItem
        <3>4. /\ subscribers' \subseteq subscribers
              /\ messages' \in [Subscriber -> Seq(Message)]
              /\ marketRefs' \in [Market -> Nat]
              /\ states' \in [Market -> MarketState \cup {NoState}]
              /\ wake' \in BOOLEAN
              /\ RegistryConsistent'
            <4> HIDE DEF marked, audience, it
            <4> QED BY <2>5, <3>1, <3>2, <3>3, BroadcastRegistry DEF RegistryConsistent
        <3>5. TypeOK'
            BY <1>9, <2>3, <3>4 DEF FanOutItem, TypeOK, external
        <3> QED BY <3>4, <3>5
    <2> QED BY <1>9, <2>4, <2>5 DEF FanOutItem
<1>10. ASSUME PageDone(l) PROVE RegistryInv'
    <2> DEFINE query == [loop[l] EXCEPT !.pc = "query", !.start = loop[l].start + PageSize,
                                        !.full = FALSE]
    <2>1. m \in Market /\ loop[l].start + PageSize \in Nat
        <3>1. m \in Market
            BY <1>10, <1>0, LoopMoves DEF PageDone
        <3>2. loop[l].start \in Nat
            BY <1>0, LoopMoves
        <3> QED BY <3>1, <3>2, HubAssumption
    <2>2. query \in LoopState
        <3> DEFINE n == loop[l].start + PageSize
        <3>1. [loop[l] EXCEPT !.pc = "query", !.start = n, !.full = FALSE] \in LoopState
            <4> HIDE DEF n
            <4>1. n \in Nat
                BY <2>1 DEF n
            <4> QED BY <2>1, <4>1, <1>0, LoopMoves
        <3> QED BY <3>1
    <2>3. \/ loop' = [loop EXCEPT ![l] = query]
          \/ loop' = [loop EXCEPT ![l] = BetweenMarkets(loop[l])]
        <3>1. loop' = [loop EXCEPT ![l] =
                         IF loop[l].full
                           THEN [loop[l] EXCEPT !.pc = "query", !.start = loop[l].start + PageSize,
                                                !.full = FALSE]
                           ELSE BetweenMarkets(loop[l])]
            BY <1>10 DEF PageDone
        <3> QED BY <3>1
    <2>4. loop' \in [Subscriber -> LoopState]
        <3> HIDE DEF query
        <3> QED BY <2>2, <2>3, <1>0, <1>t
    <2>5. TypeOK'
        BY <1>10, <2>4 DEF PageDone, TypeOK, external, registry, conns
    <2>6. RegistryConsistent'
        BY <1>10, RegistryUnchanged DEF PageDone, registry, conns
    <2> QED BY <2>5, <2>6
<1> QED BY <1>1, <1>2, <1>3, <1>4, <1>5, <1>6, <1>7, <1>8, <1>9, <1>10 DEF PollLoop

\* What the server and the clock do does not touch the registry.
LEMMA EnvironmentRegistry ==
    ASSUME RegistryInv, Environment
    PROVE  RegistryInv'
<1>1. TypeOK'
    <2>1. ASSUME NEW m \in Market, NEW c \in Code, Publish(m, c) PROVE TypeOK'
        <3>1. Append(feed[m], c) \in Seq(Code)
            BY AppendProperties DEF RegistryInv, TypeOK
        <3> QED BY <2>1, <3>1 DEF Publish, RegistryInv, TypeOK, registry, conns
    <2>2. ASSUME Midnight PROVE TypeOK'
        <3>1. day' \in 1..MaxDay /\ feed' \in [Market -> Seq(Code)]
            BY <2>2, HubAssumption, EmptySeq DEF Midnight, RegistryInv, TypeOK
        <3> QED BY <2>2, <3>1 DEF Midnight, RegistryInv, TypeOK, registry, conns
    <2> QED BY <2>1, <2>2 DEF Environment
<1>2. RegistryConsistent'
    BY RegistryUnchanged DEF RegistryInv, Environment, Publish, Midnight, registry, conns
<1> QED BY <1>1, <1>2 DEF RegistryInv

\* The registry invariant is inductive, given PcConsistent.
LEMMA NextRegistry ==
    ASSUME RegistryInv, PcConsistent, [Next]_vars
    PROVE  RegistryInv'
<1>1. CASE UNCHANGED vars
    <2>1. TypeOK'
        BY <1>1 DEF vars, external, registry, conns, RegistryInv, TypeOK
    <2>2. RegistryConsistent'
        BY <1>1, RegistryUnchanged DEF vars, registry, conns, RegistryInv
    <2> QED BY <2>1, <2>2 DEF RegistryInv
<1> QED BY <1>1, ConnectionRegistry, LoopRegistry, EnvironmentRegistry DEF Next

-----------------------------------------------------------------------------
(* One loop *)

\* What a step of a loop leaves alone: it moves no connection and no other
\* loop, it needs a loop that has started, and it registers nobody.
LEMMA LoopFrame ==
    ASSUME TypeOK, NEW l \in Subscriber, PollLoop(l)
    PROVE  /\ loop[l].pc # "none"
           /\ pc' = pc /\ targets' = targets
           /\ subscribers' \subseteq subscribers
           /\ \A k \in Subscriber : k # l => loop'[k] = loop[k]
<1> USE DEF TypeOK
<1>1. CASE ActiveMarkets(l) \/ Timer(l) \/ WakeUp(l) \/ ReadState(l)
    BY <1>1 DEF ActiveMarkets, Timer, WakeUp, Waiting, ReadState, registry, conns
<1>2. CASE \E m \in Market : PollMarket(l, m)
    BY <1>2 DEF PollMarket, registry, conns
<1>3. CASE HandleBaseline(l) \/ QueryPage(l) \/ HandlePollItems(l) \/ PageDone(l)
    BY <1>3 DEF HandleBaseline, QueryPage, HandlePollItems, PageDone, registry, conns
<1>4. CASE HandlePollError(l)
    BY <1>4 DEF HandlePollError, Broadcast, RemoveLocked, registry
<1>5. CASE FanOutItem(l)
    BY <1>5 DEF FanOutItem, Broadcast, RemoveLocked, registry
<1> QED BY <1>1, <1>2, <1>3, <1>4, <1>5 DEF PollLoop

\* A loop that takes a step goes on running, unless it found the registry empty.
LEMMA LoopGoesOn ==
    ASSUME TypeOK, NEW l \in Subscriber, PollLoop(l)
    PROVE  \/ running' = running /\ loop'[l].pc # "none"
           \/ running' = FALSE /\ loop'[l].pc = "none" /\ loop'[l].todo = {} /\ subscribers = {}
<1> USE DEF TypeOK
<1>0. /\ loop[l] \in LoopState /\ BetweenMarkets(loop[l]).pc = "next"
      /\ NoLoop.pc = "none" /\ NoLoop.todo = {}
    BY LoopTypes
<1>1. CASE ActiveMarkets(l)
    BY <1>0, <1>1 DEF ActiveMarkets, NobodyLeft, LoopState, LoopLocals
<1>2. CASE Timer(l) \/ WakeUp(l)
    BY <1>0, <1>2 DEF Timer, WakeUp, LoopState, LoopLocals
<1>3. CASE \E m \in Market : PollMarket(l, m)
    BY <1>0, <1>3 DEF PollMarket, LoopState, LoopLocals
<1>4. CASE ReadState(l)
    BY <1>0, <1>4 DEF ReadState, LoopState, LoopLocals
<1>5. CASE HandleBaseline(l) \/ HandlePollError(l)
    BY <1>0, <1>5 DEF HandleBaseline, HandlePollError
<1>6. CASE QueryPage(l)
    BY <1>0, <1>6 DEF QueryPage, LoopState, LoopLocals
<1>7. CASE HandlePollItems(l)
    BY <1>0, <1>7 DEF HandlePollItems, LoopState, LoopLocals
<1>8. CASE FanOutItem(l)
    BY <1>0, <1>8 DEF FanOutItem, LoopState, LoopLocals
<1>9. CASE PageDone(l)
    BY <1>0, <1>9 DEF PageDone, LoopState, LoopLocals
<1> QED BY <1>1, <1>2, <1>3, <1>4, <1>5, <1>6, <1>7, <1>8, <1>9 DEF PollLoop

\* What a connection does to the loops: it starts its own or none.
LEMMA ConnectionFrame ==
    ASSUME TypeOK, NEW s \in Subscriber, Connection(s)
    PROVE  /\ \A k \in Subscriber : k # s => pc'[k] = pc[k] /\ loop'[k] = loop[k]
           /\ \/ /\ pc[s] = "new" /\ loop' = loop /\ running' = TRUE
                 /\ subscribers' = subscribers \cup {s}
                 /\ ~running => pc'[s] = "starting"
                 /\ running => pc'[s] \in {"notifying", "streaming"}
              \/ /\ pc[s] = "starting" /\ pc'[s] = "streaming" /\ loop'[s].pc = "top"
                 /\ subscribers' = subscribers /\ running' = running
              \/ /\ pc[s] = "notifying" /\ pc'[s] = "streaming" /\ loop' = loop
                 /\ subscribers' = subscribers /\ running' = running
              \/ /\ pc[s] = "streaming" /\ pc'[s] \in {"streaming", "closed"} /\ loop' = loop
                 /\ subscribers' \subseteq subscribers /\ running' = running
                 /\ pc'[s] = "closed" => s \notin subscribers'
<1> USE DEF TypeOK
<1>1. CASE \E T \in TargetSets : Subscribe(s, T)
    BY <1>1 DEF Subscribe, AfterSubscribe
<1>2. CASE StartLoop(s)
    BY <1>2 DEF StartLoop, registry, LoopState, LoopLocals
<1>3. CASE NotifyPollLoop(s)
    BY <1>3 DEF NotifyPollLoop, registry
<1>4. CASE SendNext(s)
    BY <1>4 DEF SendNext, registry
<1>5. CASE Disconnect(s)
    BY <1>5 DEF Disconnect, RemoveLocked, Registered
<1> QED BY <1>1, <1>2, <1>3, <1>4, <1>5 DEF Connection

\* PcConsistent is inductive.
LEMMA NextPc ==
    ASSUME RegistryInv, PcConsistent, [Next]_vars
    PROVE  PcConsistent'
<1> USE DEF PcConsistent, RegistryInv
<1>1. CASE UNCHANGED vars
    BY <1>1 DEF vars, registry, conns
<1>2. ASSUME NEW s \in Subscriber, Connection(s) PROVE PcConsistent'
    <2>1. \A k \in Subscriber : k # s => pc'[k] = pc[k] /\ loop'[k] = loop[k]
        BY <1>2, ConnectionFrame
    <2>2. subscribers' \subseteq subscribers \cup {s}
        BY <1>2, ConnectionFrame
    <2>3. /\ s \in subscribers' => pc'[s] \notin {"new", "closed"}
          /\ pc'[s] \in {"new", "starting"} => loop'[s].pc = "none"
        BY <1>2, ConnectionFrame
    <2>4. loop'[s].pc = "none" => loop'[s].todo = {}
        <3>1. loop'[s].pc = "top" \/ loop' = loop
            BY <1>2, ConnectionFrame
        <3> QED BY <3>1
    <2> QED BY <2>1, <2>2, <2>3, <2>4
<1>3. ASSUME NEW l \in Subscriber, PollLoop(l) PROVE PcConsistent'
    <2>1. /\ loop[l].pc # "none" /\ pc' = pc /\ subscribers' \subseteq subscribers
          /\ \A k \in Subscriber : k # l => loop'[k] = loop[k]
        BY <1>3, LoopFrame
    <2>2. pc[l] \notin {"new", "starting"}
        BY <2>1
    <2>3. loop'[l].pc = "none" => loop'[l].todo = {}
        BY <1>3, LoopGoesOn
    <2> QED BY <2>1, <2>2, <2>3
<1>4. CASE Environment
    BY <1>4 DEF Environment, Publish, Midnight, registry, conns
<1> QED BY <1>1, <1>2, <1>3, <1>4 DEF Next

\* SingleLoop is inductive, given PcConsistent.
LEMMA NextSingleLoop ==
    ASSUME RegistryInv, PcConsistent, SingleLoop, [Next]_vars
    PROVE  SingleLoop'
<1> USE DEF PcConsistent, RegistryInv
<1>1. CASE UNCHANGED vars
    BY <1>1 DEF vars, registry, conns, SingleLoop, Loops
<1>2. ASSUME NEW s \in Subscriber, Connection(s) PROVE SingleLoop'
    <2>1. CASE pc[s] = "new"
        <3>0. /\ loop' = loop /\ \A k \in Subscriber : k # s => pc'[k] = pc[k]
              /\ ~running => pc'[s] = "starting"
              /\ running => pc'[s] # "starting"
            BY <1>2, <2>1, ConnectionFrame
        <3>1. ASSUME running PROVE Loops' = Loops
            BY <2>1, <3>0, <3>1 DEF Loops
        <3>2. ASSUME ~running PROVE Loops' = Loops \cup {s}
            BY <2>1, <3>0, <3>2 DEF Loops
        <3>3. running' = TRUE
            BY <1>2, <2>1, ConnectionFrame
        <3> QED BY <3>1, <3>2, <3>3 DEF SingleLoop
    <2>2. CASE pc[s] # "new"
        <3>1. Loops' = Loops
            <4>1. \A k \in Subscriber : k # s => pc'[k] = pc[k] /\ loop'[k] = loop[k]
                BY <1>2, ConnectionFrame
            <4>2. CASE pc[s] = "starting"
                <5>1. pc'[s] = "streaming" /\ loop'[s].pc = "top"
                    BY <1>2, <4>2, ConnectionFrame
                <5> QED BY <4>1, <4>2, <5>1 DEF Loops
            <4>3. CASE pc[s] # "starting"
                <5>1. pc'[s] # "starting" /\ loop' = loop
                    BY <1>2, <2>2, <4>3, ConnectionFrame
                <5> QED BY <4>1, <4>3, <5>1 DEF Loops
            <4> QED BY <4>2, <4>3
        <3>2. running' = running /\ subscribers' \subseteq subscribers
            BY <1>2, <2>2, ConnectionFrame
        <3> QED BY <3>1, <3>2 DEF SingleLoop
    <2> QED BY <2>1, <2>2
<1>3. ASSUME NEW l \in Subscriber, PollLoop(l) PROVE SingleLoop'
    <2>1. loop[l].pc # "none" /\ pc[l] # "starting" /\ Loops = {l}
        BY <1>3, LoopFrame DEF SingleLoop, Loops
    <2>2. subscribers' \subseteq subscribers
        BY <1>3, LoopFrame
    <2>3. CASE running' = running /\ loop'[l].pc # "none"
        <3>1. Loops' = Loops
            BY <1>3, <2>1, <2>3, LoopFrame DEF Loops
        <3> QED BY <2>2, <2>3, <3>1 DEF SingleLoop
    <2>4. CASE running' = FALSE /\ loop'[l].pc = "none" /\ subscribers = {}
        <3>1. Loops' = {}
            BY <1>3, <2>1, <2>4, LoopFrame DEF Loops
        <3> QED BY <2>2, <2>4, <3>1 DEF SingleLoop
    <2> QED BY <1>3, <2>3, <2>4, LoopGoesOn
<1>4. CASE Environment
    BY <1>4 DEF Environment, Publish, Midnight, registry, conns, SingleLoop, Loops
<1> QED BY <1>1, <1>2, <1>3, <1>4 DEF Next

-----------------------------------------------------------------------------
(* Outages *)

\* Whatever a step of the loop does to a market's state, it does to the market
\* it is at, and it does not give a state to a market that has none.
LEMMA LoopStates ==
    ASSUME RegistryInv, NEW l \in Subscriber, PollLoop(l), NEW k \in Market,
           states'[k] # NoState
    PROVE  /\ states[k] # NoState
           /\ \/ states'[k] = states[k]
              \/ loop[l].market = k /\ HandleBaseline(l) /\ states'[k].initialized
                                    /\ ~states'[k].inError
              \/ loop[l].market = k /\ HandlePollItems(l) /\ states[k].initialized
                                    /\ states'[k].initialized /\ ~states'[k].inError
              \/ loop[l].market = k /\ HandlePollError(l) /\ ~states[k].inError
                                    /\ states'[k] = [states[k] EXCEPT !.inError = TRUE]
              \/ loop[l].market = k /\ FanOutItem(l)
                                    /\ states'[k].initialized = states[k].initialized
                                    /\ states'[k].inError = states[k].inError
<1> USE DEF RegistryInv
<1> DEFINE m == loop[l].market
           st == states[m]
<1>0. /\ loop[l] \in LoopState
      /\ states \in [Market -> MarketState \cup {NoState}]
      /\ states[k] # NoState => states[k] \in MarketState
    BY DEF TypeOK
<1>1. CASE ActiveMarkets(l) \/ Timer(l) \/ WakeUp(l) \/ ReadState(l) \/ QueryPage(l) \/ PageDone(l)
    BY <1>1 DEF ActiveMarkets, Timer, WakeUp, ReadState, QueryPage, PageDone, registry
<1>2. CASE \E n \in Market : PollMarket(l, n)
    BY <1>2 DEF PollMarket, registry
<1>3. CASE HandleBaseline(l)
    <2>1. CASE UNCHANGED states
        BY <2>1
    <2>2. CASE ~UNCHANGED states
        <3>1. PICK n \in Tails(l) :
                states' = [states EXCEPT ![m] =
                       [date |-> loop[l].today, initialized |-> TRUE, inError |-> FALSE,
                        nextStart |-> n, seen |-> {}]]
            BY <1>3, <2>2 DEF HandleBaseline
        <3>2. m # k => states'[k] = states[k]
            BY <3>1, <1>0
        <3>3. m = k => states'[k].initialized /\ ~states'[k].inError /\ states[k] # NoState
            BY <3>1, <1>0, <1>3, <2>2 DEF HandleBaseline
        <3>4. states[k] # NoState
            BY <3>2, <3>3
        <3> QED BY <1>3, <3>2, <3>3, <3>4
    <2> QED BY <2>1, <2>2
<1>4. CASE HandlePollItems(l)
    <2> DEFINE n == NextStart(loop[l].start, loop[l].items)
    <2>1. CASE UNCHANGED states
        BY <2>1
    <2>2. CASE ~UNCHANGED states
        <3>1. /\ st # NoState /\ st.initialized
              /\ states' = [states EXCEPT ![m] = [@ EXCEPT !.inError = FALSE, !.nextStart = n]]
            BY <1>4, <2>2 DEF HandlePollItems
        <3>2. m # k => states'[k] = states[k]
            BY <3>1, <1>0
        <3>3. m = k => states'[k] = [states[k] EXCEPT !.inError = FALSE, !.nextStart = n]
            BY <3>1, <1>0
        <3>4. states[k] # NoState /\ (m = k => states[k].initialized)
            BY <3>1, <3>2
        <3>5. m = k => states'[k].initialized /\ ~states'[k].inError
            <4> HIDE DEF n
            <4> QED BY <3>3, <3>4, <1>0 DEF MarketState
        <3> QED BY <1>4, <3>2, <3>4, <3>5
    <2> QED BY <2>1, <2>2
<1>5. CASE HandlePollError(l)
    <2>1. CASE st = NoState \/ st.inError
        BY <1>5, <2>1 DEF HandlePollError, registry
    <2>2. CASE ~(st = NoState \/ st.inError)
        <3> DEFINE watchers == {s \in subscribers : Watches(s, m)}
                   marked == [states EXCEPT ![m].inError = TRUE]
        <3>1. Broadcast(Notified(watchers), ErrorMessage, marked)
            BY <1>5, <2>2 DEF HandlePollError
        <3>2. states'[k] = marked[k]
            <4> HIDE DEF marked
            <4> QED BY <3>1, <1>0 DEF Broadcast, RemoveLocked
        <3>3. marked[k] = IF k = m THEN [states[k] EXCEPT !.inError = TRUE] ELSE states[k]
            BY <1>0
        <3>4. m \in Market
            BY <1>0, <1>5, LoopMoves DEF HandlePollError
        <3> HIDE DEF marked
        <3> QED BY <1>5, <2>2, <3>2, <3>3, <3>4
    <2> QED BY <2>1, <2>2
<1>6. CASE FanOutItem(l)
    <2> DEFINE it == Head(loop[l].items)
               key == <<it.code, it.index>>
               audience == {s \in subscribers : <<m, it.code>> \in targets[s]}
               marked == IF st = NoState THEN states
                         ELSE [states EXCEPT ![m].seen = @ \cup {key}]
    <2>1. CASE UNCHANGED states
        BY <2>1
    <2>2. CASE Broadcast(audience, UnusualMessage(m, it), marked)
        <3>1. states'[k] = marked[k]
            <4> HIDE DEF marked
            <4> QED BY <2>2, <1>0 DEF Broadcast, RemoveLocked
        <3>2. marked[k] = IF st # NoState /\ k = m THEN [states[k] EXCEPT !.seen = @ \cup {key}]
                                                   ELSE states[k]
            <4> HIDE DEF key
            <4> QED BY <1>0
        <3>3. k = m /\ st # NoState =>
                 /\ [states[k] EXCEPT !.seen = @ \cup {key}].initialized = states[k].initialized
                 /\ [states[k] EXCEPT !.seen = @ \cup {key}].inError = states[k].inError
            <4> HIDE DEF key
            <4> QED BY <1>0 DEF MarketState
        <3>4. m \in Market
            BY <1>0, <1>6, LoopMoves DEF FanOutItem
        <3> HIDE DEF marked, key
        <3> QED BY <1>6, <3>1, <3>2, <3>3, <3>4
    <2> QED BY <1>6, <2>1, <2>2 DEF FanOutItem, registry
<1> QED BY <1>1, <1>2, <1>3, <1>4, <1>5, <1>6 DEF PollLoop

\* FailedConsistent, one subscriber and one market at a time.
LEMMA FailedPointwise ==
    ASSUME TypeOK
    PROVE  FailedConsistent <=>
             \A s \in subscribers, k \in Market :
                k \in failed[s] <=> /\ Watches(s, k)
                                    /\ states[k] # NoState /\ states[k].inError
BY DEF FailedConsistent, TypeOK, Watches, MarketsOf

\* FailedConsistent is inductive, given the registry invariant before and after.
LEMMA NextFailed ==
    ASSUME RegistryInv, RegistryInv', PcConsistent, FailedConsistent, [Next]_vars
    PROVE  FailedConsistent'
<1>0. /\ TypeOK /\ TypeOK'
      /\ \A t \in subscribers, k \in Market :
            k \in failed[t] <=> Watches(t, k) /\ states[k] # NoState /\ states[k].inError
    BY FailedPointwise DEF RegistryInv
<1>p. (\A t \in subscribers, k \in Market :
            k \in failed[t] <=> /\ Watches(t, k)
                                /\ states[k] # NoState /\ states[k].inError)'
      => FailedConsistent'
    BY <1>0 DEF FailedConsistent, TypeOK, Watches, MarketsOf
<1>w. /\ \A t \in subscribers, k \in Market : Watches(t, k) => states[k] # NoState
      /\ (\A t \in subscribers, k \in Market : Watches(t, k) => states[k] # NoState)'
    BY DEF RegistryInv, RegistryConsistent, Watchers
<1> DEFINE Goal(t, k) == k \in failed'[t] <=> /\ Watches(t, k)'
                                              /\ states'[k] # NoState /\ states'[k].inError
<1>1. CASE UNCHANGED <<subscribers, states, failed, targets>>
    BY <1>0, <1>1, <1>p DEF Watches
<1>2. ASSUME NEW s \in Subscriber, NEW T \in TargetSets, Subscribe(s, T) PROVE FailedConsistent'
    <2> SUFFICES ASSUME NEW t \in subscribers', NEW k \in Market PROVE Goal(t, k)
        BY <1>p
    <2>1. s \notin subscribers /\ subscribers' = subscribers \cup {s}
        BY <1>2 DEF Subscribe, PcConsistent
    <2>2. states'[k] = IF k \in NewMarkets(T) THEN FreshState ELSE states[k]
        BY <1>2 DEF Subscribe
    <2>3. CASE t = s
        <3>1. failed'[s] = FailedMarkets(T) /\ targets'[s] = T
            BY <1>0, <1>2 DEF Subscribe, TypeOK
        <3> QED BY <2>2, <2>3, <3>1, StateTypes DEF FailedMarkets, Watches
    <2>4. CASE t # s
        <3>1. t \in subscribers /\ failed'[t] = failed[t] /\ targets'[t] = targets[t]
            BY <1>0, <1>2, <2>1, <2>4 DEF Subscribe, TypeOK
        <3>2. Watches(t, k) => k \notin NewMarkets(T)
            <4>1. Watches(t, k) => Watchers(k) # {} /\ IsFiniteSet(Watchers(k))
                BY <3>1, <1>0, HubAssumption, FS_Subset DEF Watchers, TypeOK
            <4>2. Watches(t, k) => marketRefs[k] # 0
                BY <4>1, FS_EmptySet DEF RegistryInv, RegistryConsistent
            <4> QED BY <4>2 DEF NewMarkets
        <3> QED BY <1>0, <2>2, <3>1, <3>2 DEF Watches
    <2> QED BY <2>3, <2>4
<1>3. ASSUME NEW s \in Subscriber, Disconnect(s) PROVE FailedConsistent'
    <2> SUFFICES ASSUME NEW t \in subscribers', NEW k \in Market PROVE Goal(t, k)
        BY <1>p
    <2>1. t \in subscribers /\ t # s
        BY <1>3 DEF Disconnect, RemoveLocked, Registered
    <2>2. failed'[t] = failed[t] /\ targets'[t] = targets[t]
        BY <1>0, <1>3, <2>1 DEF Disconnect, TypeOK
    <2>3. states'[k] # NoState => states'[k] = states[k]
        BY <1>3 DEF Disconnect, RemoveLocked
    <2> QED BY <1>0, <1>w, <2>1, <2>2, <2>3 DEF Watches
<1>4. ASSUME NEW l \in Subscriber, PollLoop(l) PROVE FailedConsistent'
    <2> DEFINE m == loop[l].market
               st == states[m]
    <2> SUFFICES ASSUME NEW t \in subscribers', NEW k \in Market PROVE Goal(t, k)
        BY <1>p
    <2>1. t \in subscribers /\ targets' = targets /\ t \in Subscriber
        BY <1>0, <1>4, LoopFrame DEF TypeOK
    <2>2. Watches(t, k)' <=> Watches(t, k)
        BY <2>1 DEF Watches
    <2>3. Watches(t, k) => states[k] # NoState /\ states'[k] # NoState
        BY <1>w, <2>1, <2>2
    <2>4. k \in failed[t] <=> Watches(t, k) /\ states[k] # NoState /\ states[k].inError
        BY <1>0, <2>1
    <2>5. CASE HandleBaseline(l) \/ HandlePollItems(l)
        <3>1. CASE UNCHANGED <<states, failed>>
            BY <2>2, <2>4, <3>1
        <3>2. CASE ~UNCHANGED <<states, failed>>
            <4>1. /\ st # NoState
                  /\ failed' = IF st.inError THEN Recovered(m) ELSE failed
                  /\ m # k => states'[k] = states[k]
                BY <1>0, <2>5, <3>2 DEF HandleBaseline, HandlePollItems, TypeOK
            <4>2. failed'[t] = IF st.inError THEN failed[t] \ {m} ELSE failed[t]
                BY <2>1, <4>1 DEF Recovered
            <4>3. m = k => states'[k].inError = FALSE
                <5>1. ASSUME m = k, HandleBaseline(l) PROVE states'[k].inError = FALSE
                    <6>1. PICK n \in Tails(l) :
                            states' = [states EXCEPT ![m] =
                               [date |-> loop[l].today, initialized |-> TRUE,
                                inError |-> FALSE, nextStart |-> n, seen |-> {}]]
                        BY <4>1, <5>1 DEF HandleBaseline
                    <6> QED BY <1>0, <5>1, <6>1 DEF TypeOK
                <5>2. ASSUME m = k, HandlePollItems(l) PROVE states'[k].inError = FALSE
                    <6> DEFINE n == NextStart(loop[l].start, loop[l].items)
                    <6>1. states' = [states EXCEPT ![m] =
                                       [@ EXCEPT !.inError = FALSE, !.nextStart = n]]
                        BY <3>2, <5>2 DEF HandlePollItems
                    <6>2. st \in MarketState
                        BY <1>0, <4>1, <5>2 DEF TypeOK
                    <6>3. [st EXCEPT !.inError = FALSE, !.nextStart = n].inError = FALSE
                        <7> HIDE DEF n
                        <7> QED BY <6>2 DEF MarketState
                    <6>4. states'[k] = [st EXCEPT !.inError = FALSE, !.nextStart = n]
                        <7> HIDE DEF n
                        <7> QED BY <1>0, <5>2, <6>1 DEF TypeOK
                    <6> QED BY <6>3, <6>4
                <5> QED BY <2>5, <5>1, <5>2
            <4> QED BY <2>2, <2>3, <2>4, <4>1, <4>2, <4>3
        <3> QED BY <3>1, <3>2
    <2>6. CASE HandlePollError(l)
        <3>1. CASE st = NoState \/ st.inError
            BY <2>2, <2>4, <2>6, <3>1 DEF HandlePollError, registry
        <3>2. CASE ~(st = NoState \/ st.inError)
            <4>1. failed'[t] = IF Watches(t, m) THEN failed[t] \cup {m} ELSE failed[t]
                BY <2>1, <2>6, <3>2 DEF HandlePollError
            <4>2. states'[k] # NoState =>
                    states'[k] = IF m = k THEN [states[k] EXCEPT !.inError = TRUE] ELSE states[k]
                <5> DEFINE marked == [states EXCEPT ![m].inError = TRUE]
                <5>1. states'[k] # NoState => states'[k] = marked[k]
                    <6>1. Broadcast(Notified({s \in subscribers : Watches(s, m)}),
                                    ErrorMessage, marked)
                        BY <2>6, <3>2 DEF HandlePollError
                    <6> HIDE DEF marked
                    <6> QED BY <6>1 DEF Broadcast, RemoveLocked
                <5>2. marked[k] = IF m = k THEN [states[k] EXCEPT !.inError = TRUE] ELSE states[k]
                    BY <1>0 DEF TypeOK
                <5> HIDE DEF marked
                <5> QED BY <5>1, <5>2
            <4>3. states[k] # NoState => [states[k] EXCEPT !.inError = TRUE].inError = TRUE
                BY <1>0 DEF TypeOK, MarketState
            <4> QED BY <2>2, <2>3, <2>4, <3>2, <4>1, <4>2, <4>3
        <3> QED BY <3>1, <3>2
    <2>7. CASE FanOutItem(l)
        <3>1. failed' = failed
            BY <2>7 DEF FanOutItem
        <3>2. states'[k] # NoState => states'[k].inError = states[k].inError
            <4> DEFINE key == <<Head(loop[l].items).code, Head(loop[l].items).index>>
                       marked == IF st = NoState THEN states
                                 ELSE [states EXCEPT ![m].seen = @ \cup {key}]
            <4>1. UNCHANGED states \/ (states'[k] # NoState => states'[k] = marked[k])
                <5>1. \/ UNCHANGED states
                      \/ Broadcast({s \in subscribers :
                                      <<m, Head(loop[l].items).code>> \in targets[s]},
                                   UnusualMessage(m, Head(loop[l].items)), marked)
                    BY <2>7 DEF FanOutItem, registry
                <5> HIDE DEF marked
                <5> QED BY <5>1 DEF Broadcast, RemoveLocked
            <4>2. states[k] # NoState => marked[k].inError = states[k].inError
                <5>1. marked[k] = IF st # NoState /\ k = m
                                    THEN [states[k] EXCEPT !.seen = @ \cup {key}]
                                    ELSE states[k]
                    <6> HIDE DEF key
                    <6> QED BY <1>0 DEF TypeOK
                <5>2. states[k] # NoState =>
                        [states[k] EXCEPT !.seen = @ \cup {key}].inError = states[k].inError
                    <6> HIDE DEF key
                    <6> QED BY <1>0 DEF TypeOK, MarketState
                <5> HIDE DEF marked, key
                <5> QED BY <5>1, <5>2
            <4>3. states'[k] # NoState => states[k] # NoState
                BY <1>4, LoopStates
            <4> HIDE DEF marked
            <4> QED BY <4>1, <4>2, <4>3
        <3> QED BY <2>1, <2>2, <2>3, <2>4, <3>1, <3>2
    <2>8. CASE \/ ActiveMarkets(l) \/ Timer(l) \/ WakeUp(l) \/ ReadState(l)
               \/ QueryPage(l) \/ PageDone(l) \/ \E n \in Market : PollMarket(l, n)
        <3>1. UNCHANGED <<states, failed>>
            BY <2>8 DEF ActiveMarkets, Timer, WakeUp, ReadState, QueryPage, PageDone,
                        PollMarket, registry, conns
        <3> QED BY <2>2, <2>4, <3>1
    <2> QED BY <1>4, <2>5, <2>6, <2>7, <2>8 DEF PollLoop
<1>5. ASSUME NEW s \in Subscriber, StartLoop(s) \/ NotifyPollLoop(s) \/ SendNext(s)
      PROVE  FailedConsistent'
    BY <1>1, <1>5 DEF StartLoop, NotifyPollLoop, SendNext, registry
<1>6. CASE Environment \/ UNCHANGED vars
    BY <1>1, <1>6 DEF Environment, Publish, Midnight, registry, conns, vars
<1> QED BY <1>2, <1>3, <1>4, <1>5, <1>6 DEF Next, Connection

-----------------------------------------------------------------------------
(* Wake-ups *)

\* A market is not fresh once the loop has been at it and back.
LEMMA VisitedNotFresh ==
    ASSUME RegistryInv, NEW l \in Subscriber, HandleBaseline(l) \/ HandlePollError(l),
           NEW k \in Market, k = loop[l].market
    PROVE  ~Fresh(k)'
<1> USE DEF RegistryInv
<1>0. states \in [Market -> MarketState \cup {NoState}]
    BY DEF TypeOK
<1>1. CASE HandleBaseline(l)
    <2>1. CASE states[k] = NoState
        BY <1>1, <2>1 DEF HandleBaseline, Fresh
    <2>2. CASE states[k] # NoState
        <3>1. PICK n \in Tails(l) :
                states' = [states EXCEPT ![k] =
                   [date |-> loop[l].today, initialized |-> TRUE,
                    inError |-> FALSE, nextStart |-> n, seen |-> {}]]
            BY <1>1, <2>2 DEF HandleBaseline
        <3>2. states'[k].initialized = TRUE
            BY <1>0, <3>1
        <3> QED BY <3>2 DEF Fresh
    <2> QED BY <2>1, <2>2
<1>2. CASE HandlePollError(l)
    <2>1. CASE states[k] = NoState \/ states[k].inError
        BY <1>2, <2>1 DEF HandlePollError, registry, Fresh
    <2>2. CASE ~(states[k] = NoState \/ states[k].inError)
        <3> DEFINE marked == [states EXCEPT ![k].inError = TRUE]
        <3>1. Broadcast(Notified({s \in subscribers : Watches(s, k)}), ErrorMessage, marked)
            BY <1>2, <2>2 DEF HandlePollError
        <3>2. states'[k] = NoState \/ states'[k] = marked[k]
            <4> HIDE DEF marked
            <4> QED BY <3>1 DEF Broadcast, RemoveLocked
        <3>3. marked[k] = [states[k] EXCEPT !.inError = TRUE]
            BY <1>0
        <3>4. [states[k] EXCEPT !.inError = TRUE].inError = TRUE
            BY <1>0, <2>2 DEF MarketState
        <3> HIDE DEF marked
        <3> QED BY <3>2, <3>3, <3>4 DEF Fresh
    <2> QED BY <2>1, <2>2
<1> QED BY <1>1, <1>2

\* Where a loop is after a step, as far as the markets it still has to visit
\* are concerned.
LEMMA LoopRound ==
    ASSUME RegistryInv, NEW l \in Subscriber, PollLoop(l), NEW k \in Market, Fresh(k), Fresh(k)'
    PROVE  /\ wake => wake' \/ loop'[l].pc = "top"
           /\ \/ loop[l].pc = "top" \/ k \in loop[l].todo
              \/ loop[l].market = k /\ loop[l].pc \in {"read", "tail"}
              => \/ k \in loop'[l].todo
                 \/ loop'[l].market = k /\ loop'[l].pc \in {"read", "tail"}
                 \/ loop'[l].pc = "top"
<1> USE DEF RegistryInv
<1> DEFINE lp == loop[l]
<1>0. /\ lp \in LoopState /\ BetweenMarkets(lp).todo = lp.todo
      /\ wake \in BOOLEAN /\ loop \in [Subscriber -> LoopState]
    BY LoopTypes DEF TypeOK
<1>1. CASE ActiveMarkets(l)
    <2>1. marketRefs[k] > 0
        <3>1. IsFiniteSet(Watchers(k)) /\ Watchers(k) # {}
            BY HubAssumption, FS_Subset DEF Watchers, TypeOK, RegistryConsistent, Fresh
        <3>2. marketRefs[k] \in Nat /\ marketRefs[k] # 0
            BY <3>1, FS_EmptySet DEF RegistryConsistent, TypeOK
        <3> QED BY <3>2
    <2>2. subscribers # {}
        BY DEF RegistryConsistent, Fresh, Watchers
    <2>3. /\ wake' = wake
          /\ loop' = [loop EXCEPT ![l].pc = "next",
                                  ![l].todo = {j \in Market : marketRefs[j] > 0}]
        BY <1>1, <2>2 DEF ActiveMarkets, NobodyLeft
    <2>4. loop'[l].todo = {j \in Market : marketRefs[j] > 0}
        BY <1>0, <2>3 DEF LoopState, LoopLocals
    <2> QED BY <2>1, <2>3, <2>4
<1>2. CASE Timer(l) \/ WakeUp(l)
    BY <1>0, <1>2 DEF Timer, WakeUp, LoopState, LoopLocals
<1>4. CASE \E n \in Market : PollMarket(l, n)
    <2>1. PICK n \in Market : PollMarket(l, n)
        BY <1>4
    <2>2. /\ loop'[l].pc = "read" /\ loop'[l].market = n /\ loop'[l].todo = lp.todo \ {n}
          /\ lp.pc = "next" /\ wake' = wake
        BY <1>0, <2>1 DEF PollMarket, LoopState, LoopLocals
    <2> QED BY <2>2
<1>5. CASE ReadState(l)
    <2>1. /\ wake' = wake /\ lp.pc = "read"
          /\ loop'[l].todo = lp.todo
        BY <1>0, <1>5 DEF ReadState, LoopState, LoopLocals
    <2>2. lp.market = k => loop'[l].market = k /\ loop'[l].pc = "tail"
        BY <1>0, <1>5 DEF ReadState, LoopState, LoopLocals, Fresh
    <2> QED BY <2>1, <2>2
<1>6. CASE HandleBaseline(l) \/ HandlePollError(l)
    <2>1. lp.market # k
        BY <1>6, VisitedNotFresh
    <2>2. loop'[l].todo = lp.todo
        BY <1>0, <1>6 DEF HandleBaseline, HandlePollError
    <2>3. wake => wake'
        BY <1>6 DEF HandleBaseline, HandlePollError, Broadcast, RemoveLocked
    <2>4. lp.pc # "top"
        BY <1>6 DEF HandleBaseline, HandlePollError
    <2> QED BY <2>1, <2>2, <2>3, <2>4
<1>7. CASE QueryPage(l) \/ HandlePollItems(l) \/ PageDone(l)
    <2>1. lp.pc \in {"query", "handle", "fanout"} /\ wake' = wake
        BY <1>7 DEF QueryPage, HandlePollItems, PageDone
    <2>2. CASE QueryPage(l)
        <3> DEFINE items == Page(lp.market, lp.start)
        <3>1. loop' = [loop EXCEPT ![l].pc = "handle", ![l].items = items,
                                   ![l].full = (Len(items) >= PageSize)]
            BY <2>2 DEF QueryPage
        <3>2. loop'[l].todo = lp.todo
            <4> HIDE DEF items
            <4> QED BY <1>0, <3>1 DEF LoopState, LoopLocals
        <3> QED BY <2>1, <3>2
    <2>3. CASE HandlePollItems(l)
        <3>1. loop'[l].todo = lp.todo
            BY <1>0, <2>3 DEF HandlePollItems, LoopState, LoopLocals
        <3> QED BY <2>1, <3>1
    <2>4. CASE PageDone(l)
        <3>1. loop'[l].todo = lp.todo
            BY <1>0, <2>4 DEF PageDone, LoopState, LoopLocals
        <3> QED BY <2>1, <3>1
    <2> QED BY <1>7, <2>2, <2>3, <2>4
<1>8. CASE FanOutItem(l)
    <2>1. lp.pc = "fanout" /\ loop'[l].todo = lp.todo
        BY <1>0, <1>8 DEF FanOutItem, LoopState, LoopLocals
    <2>2. wake => wake'
        BY <1>8 DEF FanOutItem, Broadcast, RemoveLocked
    <2> QED BY <2>1, <2>2
<1> QED BY <1>1, <1>2, <1>4, <1>5, <1>6, <1>7, <1>8 DEF PollLoop

\* FreshIsSeen is inductive.
LEMMA NextFresh ==
    ASSUME RegistryInv, RegistryInv', PcConsistent, FreshIsSeen, [Next]_vars
    PROVE  FreshIsSeen'
<1> USE DEF RegistryInv
<1> DEFINE At(l, k) == \/ loop[l].pc = "top"
                       \/ k \in loop[l].todo
                       \/ loop[l].market = k /\ loop[l].pc \in {"read", "tail"}
           Seen(k) == \/ wake
                      \/ \E s \in Subscriber : pc[s] \in {"notifying", "starting"}
                      \/ \E l \in Subscriber : At(l, k)
<1>0. FreshIsSeen <=> \A k \in Market : Fresh(k) => Seen(k)
    BY DEF FreshIsSeen
<1>p. (\A k \in Market : Fresh(k)' => Seen(k)') => FreshIsSeen'
    BY DEF FreshIsSeen
<1> SUFFICES ASSUME NEW k \in Market, Fresh(k)' PROVE Seen(k)'
    BY <1>p
<1>1. ASSUME NEW l \in Subscriber, PollLoop(l) PROVE Seen(k)'
    <2>1. Fresh(k)
        <3>1. states'[k] # NoState /\ ~states'[k].initialized /\ ~states'[k].inError
            BY DEF Fresh
        <3>2. HandlePollError(l) \/ HandleBaseline(l) => loop[l].market # k
            BY <1>1, VisitedNotFresh
        <3> QED BY <1>1, <3>1, <3>2, LoopStates DEF Fresh
    <2>2. Seen(k)
        BY <1>0, <2>1
    <2>3. /\ pc' = pc
          /\ \A j \in Subscriber : j # l => (At(j, k) => At(j, k)')
        BY <1>1, LoopFrame
    <2>4. (wake => wake' \/ At(l, k)') /\ (At(l, k) => At(l, k)')
        BY <1>1, <2>1, LoopRound
    <2> HIDE DEF At
    <2> QED BY <2>2, <2>3, <2>4, <1>1
<1>2. ASSUME NEW s \in Subscriber, NEW T \in TargetSets, Subscribe(s, T) PROVE Seen(k)'
    <2>1. CASE k \in NewMarkets(T)
        <3>1. pc'[s] \in {"notifying", "starting"}
            BY <1>2, <2>1 DEF Subscribe, AfterSubscribe, TypeOK
        <3> QED BY <3>1
    <2>2. CASE k \notin NewMarkets(T)
        <3>1. Seen(k)
            BY <1>0, <1>2, <2>2 DEF Subscribe, Fresh
        <3>2. wake' = wake /\ loop' = loop
              /\ \A t \in Subscriber : t # s => pc'[t] = pc[t]
            BY <1>2 DEF Subscribe, TypeOK
        <3>3. pc[s] = "new"
            BY <1>2 DEF Subscribe
        <3> QED BY <3>1, <3>2, <3>3
    <2> QED BY <2>1, <2>2
<1>3. ASSUME NEW s \in Subscriber, StartLoop(s) PROVE Seen(k)'
    <2>1. loop'[s].pc = "top"
        BY <1>3 DEF StartLoop, TypeOK, LoopState, LoopLocals
    <2> QED BY <2>1
<1>4. ASSUME NEW s \in Subscriber, NotifyPollLoop(s) PROVE Seen(k)'
    BY <1>4 DEF NotifyPollLoop
<1>5. ASSUME NEW s \in Subscriber, Disconnect(s) PROVE Seen(k)'
    <2>1. Fresh(k) /\ (wake => wake')
        BY <1>5 DEF Disconnect, RemoveLocked, Fresh
    <2>2. /\ loop' = loop /\ pc[s] = "streaming"
          /\ \A t \in Subscriber : t # s => pc'[t] = pc[t]
        BY <1>5 DEF Disconnect, TypeOK
    <2> QED BY <1>0, <2>1, <2>2
<1>6. CASE (\E s \in Subscriber : SendNext(s)) \/ Environment \/ UNCHANGED vars
    <2>1. UNCHANGED <<states, wake, pc, loop>>
        BY <1>6 DEF SendNext, Environment, Publish, Midnight, registry, conns, vars
    <2> QED BY <1>0, <2>1 DEF Fresh
<1> QED BY <1>1, <1>2, <1>3, <1>4, <1>5, <1>6 DEF Next, Connection

\* With a single loop, FreshIsSeen leaves a sleeping loop no market to miss.
LEMMA WakeupSeen ==
    ASSUME HubInv
    PROVE  NoLostWakeup
<1> SUFFICES ASSUME NEW m \in Market, Fresh(m), NEW l \in Subscriber, Waiting(l), ~wake
             PROVE  \E s \in Subscriber : pc[s] = "notifying"
    BY DEF NoLostWakeup
<1>1. l \in Loops
    BY DEF Waiting, Loops
<1>2. \A k \in Subscriber : (loop[k].pc # "none" \/ pc[k] = "starting") => k = l
    BY <1>1 DEF HubInv, SingleLoop, Loops
<1>3. pc[l] # "starting"
    BY DEF HubInv, PcConsistent, Waiting
<1>4. \A k \in Subscriber : loop[k].pc = "none" => loop[k].todo = {}
    BY DEF HubInv, PcConsistent
<1> QED BY <1>2, <1>3, <1>4 DEF HubInv, FreshIsSeen, Waiting

-----------------------------------------------------------------------------
(* Theorems *)

\* The initial state satisfies the invariant.
LEMMA InitInv == Init => HubInv
<1> SUFFICES ASSUME Init PROVE HubInv
    OBVIOUS
<1>1. RegistryInv
    BY InitRegistry
<1>2. Loops = {} /\ running = FALSE /\ subscribers = {}
    BY LoopTypes DEF Init, Loops
<1>3. PcConsistent
    BY LoopTypes DEF Init, PcConsistent
<1>4. SingleLoop
    BY <1>2 DEF SingleLoop
<1>5. FailedConsistent /\ FreshIsSeen
    BY DEF Init, FailedConsistent, FreshIsSeen, Fresh
<1> QED BY <1>1, <1>3, <1>4, <1>5 DEF HubInv

\* HubInv is an inductive invariant of the hub.
THEOREM HubInvariant == Spec => []HubInv
<1>1. HubInv /\ [Next]_vars => HubInv'
    <2> SUFFICES ASSUME HubInv, [Next]_vars PROVE HubInv'
        OBVIOUS
    <2>1. RegistryInv'
        BY NextRegistry DEF HubInv
    <2>2. PcConsistent'
        BY NextPc DEF HubInv
    <2>3. SingleLoop'
        BY NextSingleLoop DEF HubInv
    <2>4. FailedConsistent'
        BY <2>1, NextFailed DEF HubInv
    <2>5. FreshIsSeen'
        BY <2>1, NextFresh DEF HubInv
    <2> QED BY <2>1, <2>2, <2>3, <2>4, <2>5 DEF HubInv
<1> QED BY InitInv, <1>1, PTL DEF Spec

\* Every variable of the hub keeps its type.
THEOREM TypeCorrect == Spec => []TypeOK
<1>1. HubInv => TypeOK
    BY DEF HubInv, RegistryInv
<1> QED BY HubInvariant, <1>1, PTL

\* Counts, states and subscribers agree, however connections come, go and are
\* dropped while the loop polls.
THEOREM RegistrySafe == Spec => []RegistryConsistent
<1>1. HubInv => RegistryConsistent
    BY DEF HubInv, RegistryInv
<1> QED BY HubInvariant, <1>1, PTL

\* At most one poll loop, one while there is a subscriber, and the flag says so.
THEOREM OneLoop == Spec => []SingleLoop
<1>1. HubInv => SingleLoop
    BY DEF HubInv
<1> QED BY HubInvariant, <1>1, PTL

\* Every subscriber's own failed markets are those whose shared flag is up.
THEOREM FailuresAgree == Spec => []FailedConsistent
<1>1. HubInv => FailedConsistent
    BY DEF HubInv
<1> QED BY HubInvariant, <1>1, PTL

\* The loop never sleeps on a market that was just added.
THEOREM WakeupsKept == Spec => []NoLostWakeup
<1>1. HubInv => NoLostWakeup
    BY WakeupSeen
<1> QED BY HubInvariant, <1>1, PTL

-----------------------------------------------------------------------------
(* The cursors *)

\* The list of a day is not longer than 16-bit indices can number.  Beyond it
\* the protocol itself repeats indices.
Fits == MaxEvents <= MaxStart + 1

\* The loop is in pollMarket.
Polling(l) == loop[l].pc \in {"read", "tail", "query", "handle", "fanout"}

\* The items are consecutive events of one day; if that is d, of that day's list.
IsPage(items, list, d) ==
    \A k \in DOMAIN items :
        /\ items[k].index = items[1].index + k - 1 /\ items[k].index < MaxEvents
        /\ items[k].day = items[1].day /\ items[k].day <= d
        /\ items[k].day = d => /\ items[k].index < Len(list)
                               /\ items[k].code = list[items[k].index + 1]

\* The state of a market on day d is behind its cursor.
StateOK(st, d) ==
    /\ st.date <= d /\ st.nextStart <= MaxEvents
    /\ \A key \in st.seen : key[2] < st.nextStart

\* What a loop, while it polls a market, knows of the market's state st: in
\* the first places that it is no later than the loop's own date, during a
\* fan-out that the cursor is at the end of the page and every event seen
\* before its first item.
PollAt(lp, st, list, d) ==
    /\ 1 <= lp.today /\ lp.today <= d
    /\ lp.pc = "read" /\ st # NoState => st.date <= lp.today
    /\ lp.pc = "tail" /\ st # NoState => (st.initialized => st.date < lp.today)
    /\ lp.pc \in {"handle", "fanout"} /\ lp.items # <<>> =>
         IsPage(lp.items, list, d) /\ lp.items[1].day >= lp.today
    /\ lp.pc = "handle" /\ lp.items # <<>> => lp.items[1].index = lp.start
    /\ lp.pc = "fanout" /\ st # NoState => st.initialized /\ st.date = lp.today
    /\ lp.pc = "fanout" /\ st # NoState /\ lp.items # <<>> =>
         /\ st.nextStart = lp.items[1].index + Len(lp.items)
         /\ \A key \in st.seen : key[2] < lp.items[1].index

\* Every state, every list and every loop in pollMarket is as said.
StatesInv == \A m \in Market : states[m] # NoState => StateOK(states[m], day)
FeedInv == \A m \in Market : Len(feed[m]) <= MaxEvents
PollInv ==
    \A l \in Subscriber : Polling(l) =>
        PollAt(loop[l], states[loop[l].market], feed[loop[l].market], day)

\* A connection that has not subscribed has asked for nothing and received
\* nothing; one that is being served has asked for something.
ConnInv ==
    \A s \in Subscriber :
        /\ pc[s] = "new" => targets[s] = {} /\ received[s] = <<>>
        /\ pc[s] \notin {"new", "closed"} => targets[s] # {}

CursorInv == StatesInv /\ FeedInv /\ PollInv /\ ConnInv

\* The fields of a market's state that its cursor is about.
SameCursor(st, new) ==
    /\ new.date = st.date /\ new.initialized = st.initialized
    /\ new.nextStart = st.nextStart /\ new.seen = st.seen

-----------------------------------------------------------------------------

\* The items of a page are consecutive events of the list from the cursor on.
LEMMA PageIsPage ==
    ASSUME Fits, TypeOK, FeedInv, NEW m \in Market, NEW start \in Nat
    PROVE  LET items == Page(m, start)
           IN items # <<>> => /\ IsPage(items, feed[m], day)
                              /\ items[1].index = start /\ items[1].day = day
<1> DEFINE n == Len(feed[m]) - start
           count == IF n <= 0 THEN 0 ELSE IF n < PageSize THEN n ELSE PageSize
           at(k) == [code |-> feed[m][start + k],
                     index |-> (start + k - 1) % (MaxStart + 1), day |-> day]
           items == Page(m, start)
<1>1. /\ Len(feed[m]) \in Nat /\ Len(feed[m]) <= MaxEvents /\ day \in Nat
      /\ PageSize \in Nat /\ MaxStart \in Nat /\ MaxEvents \in Nat
    BY LenProperties, HubAssumption DEF TypeOK, FeedInv
<1>2. count \in Nat /\ (count # 0 => count <= n)
    BY <1>1
<1>3. items = [k \in 1..count |-> at(k)] /\ DOMAIN items = 1..count
    BY DEF Page
<1>4. \A k \in 1..count : /\ k \in Nat /\ 1 <= k /\ start + k <= Len(feed[m])
                          /\ start + k - 1 \in 0..MaxStart
    <2> HIDE DEF count
    <2> QED BY <1>1, <1>2 DEF Fits
<1>5. \A k \in 1..count : /\ items[k].index = start + k - 1 /\ items[k].day = day
                          /\ items[k].code = feed[m][start + k]
    <2> TAKE k \in 1..count
    <2>1. \A a \in 0..MaxStart : a % (MaxStart + 1) = a
        BY <1>1
    <2>2. (start + k - 1) % (MaxStart + 1) = start + k - 1
        BY <1>4, <2>1
    <2>3. items[k] = [code |-> feed[m][start + k], index |-> start + k - 1, day |-> day]
        <3> HIDE DEF count, items
        <3> QED BY <1>3, <2>2
    <2> QED BY <2>3
<1> HIDE DEF count, items
<1> SUFFICES ASSUME items # <<>>
             PROVE IsPage(items, feed[m], day) /\ items[1].index = start /\ items[1].day = day
    BY DEF items
<1>6. 1 \in 1..count
    BY <1>2, <1>3
<1>7. items[1].index = start /\ items[1].day = day
    BY <1>5, <1>6
<1>8. ASSUME NEW k \in 1..count
      PROVE  /\ items[k].index = items[1].index + k - 1 /\ items[k].index < MaxEvents
             /\ items[k].day = items[1].day /\ items[k].day <= day
             /\ items[k].index < Len(feed[m])
             /\ items[k].code = feed[m][items[k].index + 1]
    <2>1. /\ items[k].index = start + k - 1 /\ items[k].day = day
          /\ items[k].code = feed[m][start + k]
        BY <1>5
    <2>2. items[k].index + 1 = start + k
        BY <2>1, <1>4
    <2>3. items[k].index < Len(feed[m]) /\ items[k].index < MaxEvents
        BY <2>1, <1>1, <1>4
    <2> QED BY <2>1, <2>2, <2>3, <1>7, <1>1
<1> QED BY <1>3, <1>7, <1>8 DEF IsPage

\* The loop whose step it is is the only one there is.
LEMMA OnlyLoop ==
    ASSUME HubInv, NEW l \in Subscriber, PollLoop(l)
    PROVE  \A k \in Subscriber : k # l => ~Polling(k) /\ ~Polling(k)'
<1>1. loop[l].pc # "none" /\ \A k \in Subscriber : k # l => loop'[k] = loop[k]
    BY LoopFrame DEF HubInv, RegistryInv
<1>2. \A k \in Subscriber : k # l => loop[k].pc = "none"
    BY <1>1 DEF HubInv, SingleLoop, Loops
<1> QED BY <1>1, <1>2 DEF Polling

\* Knowledge of a state that keeps its cursor is kept; of one that is gone, or
\* that subscribe has just made, there is nothing to know.
LEMMA PollKept ==
    ASSUME NEW lp, NEW st, NEW new, NEW list, NEW d, PollAt(lp, st, list, d),
           lp.today \in 0..MaxDay,
           \/ new = NoState
           \/ st # NoState /\ SameCursor(st, new)
           \/ new = FreshState /\ lp.pc # "fanout"
    PROVE  PollAt(lp, new, list, d)
<1>1. CASE new = NoState
    BY <1>1 DEF PollAt
<1>2. CASE st # NoState /\ SameCursor(st, new)
    BY <1>2 DEF PollAt, SameCursor
<1>3. CASE new = FreshState /\ lp.pc # "fanout"
    <2>1. new.date = 0 /\ new.initialized = FALSE /\ lp.today >= 0
        BY <1>3 DEF FreshState
    <2> QED BY <1>3, <2>1 DEF PollAt
<1> QED BY <1>1, <1>2, <1>3

\* The state subscribe gives a market has nothing behind its cursor.
LEMMA FreshStateOK ==
    \A d \in Nat : StateOK(FreshState, d)
BY HubAssumption DEF StateOK, FreshState

\* What a connection's step does to the states of the markets, and to what
\* ConnInv is about.
LEMMA ConnectionStates ==
    ASSUME TypeOK, NEW s \in Subscriber, Connection(s)
    PROVE  /\ UNCHANGED external
           /\ \A k \in Market : states'[k] # NoState =>
                states'[k] = states[k] \/ (states'[k] = FreshState /\ MuFree)
           /\ \A t \in Subscriber : t # s => targets'[t] = targets[t] /\ received'[t] = received[t]
           /\ pc'[s] # "new"
           /\ pc'[s] # "closed" => targets'[s] # {} \/ UNCHANGED targets
           /\ pc[s] \notin {"new", "closed"} \/ targets'[s] # {}
<1> USE DEF TypeOK
<1>1. CASE \E T \in TargetSets : Subscribe(s, T)
    <2>1. PICK T \in TargetSets : Subscribe(s, T)
        BY <1>1
    <2>2. T # {}
        BY HubAssumption
    <2>3. targets'[s] = T /\ pc'[s] # "new"
        BY <2>1 DEF Subscribe, AfterSubscribe
    <2> QED BY <2>1, <2>2, <2>3 DEF Subscribe
<1>2. CASE StartLoop(s)
    BY <1>2 DEF StartLoop, registry
<1>3. CASE NotifyPollLoop(s)
    BY <1>3 DEF NotifyPollLoop, registry
<1>4. CASE SendNext(s)
    BY <1>4 DEF SendNext, registry
<1>5. CASE Disconnect(s)
    BY <1>5 DEF Disconnect, RemoveLocked
<1> QED BY <1>1, <1>2, <1>3, <1>4, <1>5 DEF Connection

\* subscribe, ServeHTTP and unsubscribe keep CursorInv.
LEMMA ConnectionCursor ==
    ASSUME HubInv, HubInv', CursorInv, NEW s \in Subscriber, Connection(s)
    PROVE  CursorInv'
<1> USE DEF CursorInv
<1>0. TypeOK /\ TypeOK'
    BY DEF HubInv, RegistryInv
<1>1. UNCHANGED external
    BY <1>0, ConnectionStates
<1>2. StatesInv'
    <2> SUFFICES ASSUME NEW k \in Market, states'[k] # NoState
                 PROVE StateOK(states'[k], day')
        BY DEF StatesInv
    <2>1. states'[k] = states[k] \/ states'[k] = FreshState
        BY <1>0, ConnectionStates
    <2>2. day \in Nat /\ day' = day
        BY <1>0, <1>1 DEF TypeOK, external
    <2> QED BY <2>1, <2>2, FreshStateOK DEF StatesInv
<1>3. FeedInv'
    BY <1>1 DEF FeedInv, external
<1>4. PollInv'
    <2> SUFFICES ASSUME NEW l \in Subscriber, Polling(l)'
                 PROVE PollAt(loop'[l], states'[loop'[l].market], feed'[loop'[l].market], day')
        BY DEF PollInv
    <2>1. loop'[l] = loop[l] \/ loop'[l].pc = "top"
        BY <1>0, ConnectionFrame
    <2>2. loop'[l] = loop[l] /\ Polling(l)
        BY <2>1 DEF Polling
    <2>3. loop[l].market \in Market /\ loop[l].today \in 0..MaxDay
        BY <2>2, <1>0, LoopMoves DEF Polling, TypeOK
    <2> DEFINE st == states[loop[l].market]
               new == states'[loop[l].market]
    <2>4. PollAt(loop[l], st, feed[loop[l].market], day)
        BY <2>2 DEF PollInv
    <2>5. new = NoState \/ (st # NoState /\ new = st) \/ (new = FreshState /\ loop[l].pc # "fanout")
        BY <1>0, <2>3, ConnectionStates DEF MuFree
    <2>6. SameCursor(st, st)
        BY DEF SameCursor
    <2> HIDE DEF st, new
    <2>7. PollAt(loop[l], new, feed[loop[l].market], day)
        BY <2>3, <2>4, <2>5, <2>6, PollKept
    <2> QED BY <1>1, <2>2, <2>7 DEF new, external
<1>5. ConnInv'
    <2>1. \A t \in Subscriber : t # s => /\ targets'[t] = targets[t] /\ received'[t] = received[t]
                                         /\ pc'[t] = pc[t]
        BY <1>0, ConnectionStates, ConnectionFrame
    <2>2. /\ pc'[s] # "new" 
          /\ pc'[s] # "closed" => targets'[s] # {} \/ UNCHANGED targets
          /\ pc[s] \notin {"new", "closed"} \/ targets'[s] # {}
        BY <1>0, ConnectionStates
    <2>3. pc'[s] # "closed" => targets'[s] # {}
        BY <2>2 DEF ConnInv
    <2> QED BY <2>1, <2>2, <2>3 DEF ConnInv
<1> QED BY <1>2, <1>3, <1>4, <1>5

\* What no step of a loop touches.
LEMMA LoopOutside ==
    ASSUME NEW l \in Subscriber, PollLoop(l)
    PROVE  UNCHANGED <<external, received>>
<1>1. CASE ActiveMarkets(l) \/ Timer(l) \/ WakeUp(l) \/ ReadState(l)
    BY <1>1 DEF ActiveMarkets, Timer, WakeUp, ReadState, conns
<1>2. CASE \E m \in Market : PollMarket(l, m)
    BY <1>2 DEF PollMarket, conns
<1>3. CASE HandleBaseline(l) \/ QueryPage(l) \/ HandlePollItems(l) \/ PageDone(l)
    BY <1>3 DEF HandleBaseline, QueryPage, HandlePollItems, PageDone, conns
<1>4. CASE HandlePollError(l) \/ FanOutItem(l)
    BY <1>4 DEF HandlePollError, FanOutItem
<1> QED BY <1>1, <1>2, <1>3, <1>4 DEF PollLoop

\* What is left to show of a step of a loop.
LEMMA LoopCursorParts ==
    ASSUME HubInv, CursorInv, NEW l \in Subscriber, PollLoop(l),
           \A k \in Market : states'[k] # NoState => StateOK(states'[k], day),
           Polling(l)' => PollAt(loop'[l], states'[loop'[l].market], feed[loop'[l].market], day)
    PROVE  CursorInv'
<1>1. UNCHANGED <<external, received>> /\ pc' = pc /\ targets' = targets
    BY LoopOutside, LoopFrame DEF HubInv, RegistryInv
<1>2. StatesInv' /\ FeedInv' /\ ConnInv'
    BY <1>1 DEF CursorInv, StatesInv, FeedInv, ConnInv, external
<1>3. PollInv'
    BY <1>1, OnlyLoop DEF PollInv, external
<1> QED BY <1>2, <1>3 DEF CursorInv

\* What a loop in the middle of a market may rely on.
LEMMA AtMarket ==
    ASSUME HubInv, CursorInv, NEW l \in Subscriber, Polling(l)
    PROVE  LET lp == loop[l]
               m  == lp.market
           IN /\ lp \in LoopState /\ m \in Market
              /\ lp.today \in 0..MaxDay /\ lp.start \in Nat /\ lp.items \in Seq(Item)
              /\ PollAt(lp, states[m], feed[m], day)
              /\ states[m] # NoState => states[m] \in MarketState /\ StateOK(states[m], day)
<1>1. TypeOK /\ loop[l] \in LoopState
    BY DEF HubInv, RegistryInv, TypeOK
<1>2. /\ loop[l].market \in Market
      /\ loop[l].today \in 0..MaxDay /\ loop[l].start \in Nat /\ loop[l].items \in Seq(Item)
    BY <1>1, LoopMoves DEF Polling
<1>3. states[loop[l].market] # NoState => /\ states[loop[l].market] \in MarketState
                                          /\ StateOK(states[loop[l].market], day)
    BY <1>1, <1>2 DEF TypeOK, CursorInv, StatesInv
<1>4. PollAt(loop[l], states[loop[l].market], feed[loop[l].market], day)
    BY DEF CursorInv, PollInv
<1> QED BY <1>1, <1>2, <1>3, <1>4

\* The steps of the loop that leave the states of the markets alone.
LEMMA QuietCursor ==
    ASSUME Fits, HubInv, CursorInv, NEW l \in Subscriber, PollLoop(l),
           \/ ActiveMarkets(l) \/ Timer(l) \/ WakeUp(l) \/ ReadState(l) \/ QueryPage(l)
           \/ PageDone(l) \/ \E m \in Market : PollMarket(l, m)
    PROVE  CursorInv'
<1> DEFINE m == loop[l].market
           st == states[m]
<1>0. TypeOK /\ loop[l] \in LoopState /\ loop \in [Subscriber -> LoopState] /\ day \in 1..MaxDay
    BY DEF HubInv, RegistryInv, TypeOK
<1>1. states' = states
    BY DEF ActiveMarkets, Timer, WakeUp, ReadState, QueryPage, PageDone, PollMarket, registry
<1>2. \A k \in Market : states'[k] # NoState => StateOK(states'[k], day)
    BY <1>1 DEF CursorInv, StatesInv
<1>3. Polling(l)' => PollAt(loop'[l], states[loop'[l].market], feed[loop'[l].market], day)
    <2>1. CASE ActiveMarkets(l) \/ Timer(l) \/ WakeUp(l)
        <3>1. loop'[l].pc \in {"none", "next", "top"}
            BY <2>1, <1>0, LoopTypes DEF ActiveMarkets, Timer, WakeUp, LoopState, LoopLocals
        <3> QED BY <3>1 DEF Polling
    <2>2. CASE \E k \in Market : PollMarket(l, k)
        <3>1. PICK k \in Market : PollMarket(l, k)
            BY <2>2
        <3>2. loop'[l].pc = "read" /\ loop'[l].today = day /\ loop'[l].market = k
            BY <3>1, <1>0 DEF PollMarket, LoopState, LoopLocals
        <3>3. states[k] # NoState => states[k].date <= day
            BY DEF CursorInv, StatesInv, StateOK
        <3> QED BY <3>2, <3>3, <1>0 DEF PollAt
    <2>3. CASE ReadState(l)
        <3>1. Polling(l) /\ loop[l].pc = "read"
            BY <2>3 DEF ReadState, Polling
        <3>2. /\ m \in Market /\ loop[l].today \in 0..MaxDay /\ PollAt(loop[l], st, feed[m], day)
              /\ st # NoState => st \in MarketState
            BY <3>1, AtMarket
        <3>3. 1 <= loop[l].today /\ loop[l].today <= day /\ (st # NoState => st.date <= loop[l].today)
            BY <3>1, <3>2 DEF PollAt
        <3>4. CASE st = NoState
            <4>1. loop'[l] = BetweenMarkets(loop[l])
                BY <2>3, <3>4, <1>0 DEF ReadState
            <4> QED BY <4>1, <1>0, LoopTypes DEF Polling
        <3>5. CASE st # NoState /\ (~st.initialized \/ st.date # loop[l].today)
            <4>1. loop'[l] = [loop[l] EXCEPT !.pc = "tail", !.start = Len(feed[m])]
                BY <2>3, <3>5, <1>0 DEF ReadState
            <4>2. loop'[l].pc = "tail" /\ loop'[l].today = loop[l].today /\ loop'[l].market = m
                BY <4>1, <1>0 DEF LoopState, LoopLocals
            <4>3. st.initialized => st.date < loop[l].today
                BY <3>2, <3>3, <3>5 DEF MarketState
            <4> HIDE DEF m, st
            <4>4. PollAt(loop'[l], st, feed[m], day)
                BY <3>3, <4>2, <4>3 DEF PollAt
            <4> QED BY <4>2, <4>4 DEF st
        <3>6. CASE st # NoState /\ st.initialized /\ st.date = loop[l].today
            <4>1. loop'[l] = [loop[l] EXCEPT !.pc = "query", !.start = st.nextStart]
                BY <2>3, <3>6, <1>0 DEF ReadState
            <4>2. loop'[l].pc = "query" /\ loop'[l].today = loop[l].today
                BY <4>1, <1>0 DEF LoopState, LoopLocals
            <4> QED BY <3>3, <4>2 DEF PollAt
        <3> QED BY <3>4, <3>5, <3>6
    <2>4. CASE QueryPage(l)
        <3> DEFINE items == Page(m, loop[l].start)
        <3>1. Polling(l)
            BY <2>4 DEF QueryPage, Polling
        <3>2. m \in Market /\ loop[l].start \in Nat /\ PollAt(loop[l], st, feed[m], day)
            BY <3>1, AtMarket
        <3>3. items # <<>> => /\ IsPage(items, feed[m], day)
                              /\ items[1].index = loop[l].start /\ items[1].day = day
            BY <3>2, <1>0, PageIsPage DEF CursorInv
        <3>4. /\ loop'[l].pc = "handle" /\ loop'[l].items = items
              /\ loop'[l].today = loop[l].today /\ loop'[l].market = m
              /\ loop'[l].start = loop[l].start
            <4> HIDE DEF items
            <4>1. loop' = [loop EXCEPT ![l].pc = "handle", ![l].items = items,
                                       ![l].full = (Len(items) >= PageSize)]
                BY <2>4 DEF QueryPage, items
            <4> QED BY <4>1, <1>0 DEF LoopState, LoopLocals
        <3>5. 1 <= loop[l].today /\ loop[l].today <= day
            BY <3>2 DEF PollAt
        <3> HIDE DEF items, m
        <3> QED BY <3>3, <3>4, <3>5 DEF PollAt
    <2>5. CASE PageDone(l)
        <3>1. Polling(l)
            BY <2>5 DEF PageDone, Polling
        <3>2. 1 <= loop[l].today /\ loop[l].today <= day
            BY <3>1, AtMarket DEF PollAt
        <3>3. \/ loop'[l] = BetweenMarkets(loop[l])
              \/ loop'[l] = [loop[l] EXCEPT !.pc = "query", !.start = loop[l].start + PageSize,
                                            !.full = FALSE]
            BY <2>5, <1>0 DEF PageDone
        <3>4. loop'[l].pc = "next" \/ (loop'[l].pc = "query" /\ loop'[l].today = loop[l].today)
            BY <3>3, <1>0, LoopTypes DEF LoopState, LoopLocals
        <3> QED BY <3>2, <3>4 DEF PollAt, Polling
    <2> QED BY <2>1, <2>2, <2>3, <2>4, <2>5
<1> QED BY <1>1, <1>2, <1>3, LoopCursorParts

\* handleBaseline keeps CursorInv: the cursor it sets is inside the list.
LEMMA BaselineCursor ==
    ASSUME HubInv, CursorInv, NEW l \in Subscriber, HandleBaseline(l)
    PROVE  CursorInv'
<1> DEFINE m == loop[l].market
           st == states[m]
<1>0. TypeOK /\ PollLoop(l) /\ Polling(l) /\ day \in 1..MaxDay /\ loop \in [Subscriber -> LoopState]
    BY DEF HubInv, RegistryInv, TypeOK, PollLoop, Polling, HandleBaseline
<1>1. m \in Market /\ loop[l].today \in 0..MaxDay /\ PollAt(loop[l], st, feed[m], day)
    BY <1>0, AtMarket
<1>2. loop'[l].pc = "next"
    BY <1>0, LoopTypes DEF HandleBaseline
<1>3. ASSUME NEW k \in Market, states'[k] # NoState PROVE StateOK(states'[k], day)
    <2>1. CASE states'[k] = states[k]
        BY <1>3, <2>1 DEF CursorInv, StatesInv
    <2>2. CASE states'[k] # states[k]
        <3>1. PICK n \in Tails(l) :
                states' = [states EXCEPT ![m] =
                       [date |-> loop[l].today, initialized |-> TRUE, inError |-> FALSE,
                        nextStart |-> n, seen |-> {}]]
            BY <2>2 DEF HandleBaseline
        <3>2. /\ states'[k].date = loop[l].today /\ states'[k].nextStart = n
              /\ states'[k].seen = {}
            BY <3>1, <2>2, <1>0 DEF TypeOK
        <3>3. Len(feed[m]) \in Nat /\ Len(feed[m]) <= MaxEvents /\ MaxEvents \in Nat
            BY <1>0, <1>1, HubAssumption, LenProperties DEF TypeOK, CursorInv, FeedInv
        <3>4. n <= MaxEvents
            BY <3>3 DEF Tails
        <3>5. loop[l].today <= day
            BY <1>1 DEF PollAt
        <3> QED BY <3>2, <3>4, <3>5 DEF StateOK
    <2> QED BY <2>1, <2>2
<1> QED BY <1>0, <1>2, <1>3, LoopCursorParts DEF Polling

\* A failed poll marks the market and may cost a market its last watcher.
LEMMA PollErrorStates ==
    ASSUME TypeOK, NEW l \in Subscriber, HandlePollError(l),
           NEW k \in Market, states'[k] # NoState
    PROVE  states[k] # NoState /\ SameCursor(states[k], states'[k])
<1> DEFINE m == loop[l].market
           st == states[m]
           watchers == {s \in subscribers : Watches(s, m)}
           marked == [states EXCEPT ![m].inError = TRUE]
<1>0. m \in Market /\ states \in [Market -> MarketState \cup {NoState}]
    BY LoopMoves DEF TypeOK, HandlePollError
<1>1. CASE st = NoState \/ st.inError
    BY <1>1 DEF HandlePollError, registry, SameCursor
<1>2. CASE ~(st = NoState \/ st.inError)
    <2>1. Broadcast(Notified(watchers), ErrorMessage, marked)
        BY <1>2 DEF HandlePollError
    <2>2. states'[k] = marked[k]
        <3> HIDE DEF marked
        <3> QED BY <2>1 DEF Broadcast, RemoveLocked
    <2>3. marked[k] = IF k = m THEN [states[k] EXCEPT !.inError = TRUE] ELSE states[k]
        BY <1>0
    <2>4. st \in MarketState
        BY <1>0, <1>2
    <2>5. SameCursor(st, [st EXCEPT !.inError = TRUE])
        BY <2>4 DEF MarketState, SameCursor
    <2>6. SameCursor(states[k], states[k])
        BY DEF SameCursor
    <2> HIDE DEF marked
    <2> QED BY <1>2, <2>2, <2>3, <2>5, <2>6
<1> QED BY <1>1, <1>2

\* handlePollError keeps CursorInv: it moves no cursor.
LEMMA PollErrorCursor ==
    ASSUME HubInv, CursorInv, NEW l \in Subscriber, HandlePollError(l)
    PROVE  CursorInv'
<1>0. TypeOK /\ PollLoop(l) /\ loop \in [Subscriber -> LoopState]
    BY DEF HubInv, RegistryInv, TypeOK, PollLoop
<1>1. loop'[l].pc = "next"
    BY <1>0, LoopTypes DEF HandlePollError
<1>2. ASSUME NEW k \in Market, states'[k] # NoState PROVE StateOK(states'[k], day)
    <2>1. states[k] # NoState /\ SameCursor(states[k], states'[k])
        BY <1>0, <1>2, PollErrorStates
    <2>2. StateOK(states[k], day)
        BY <2>1 DEF CursorInv, StatesInv
    <2> QED BY <2>1, <2>2 DEF StateOK, SameCursor
<1> QED BY <1>0, <1>1, <1>2, LoopCursorParts DEF Polling

\* Every item of a page has an index.
LEMMA ItemIndex ==
    ASSUME NEW items \in Seq(Item), NEW k \in 1..Len(items)
    PROVE  items[k] \in Item /\ items[k].index \in Nat
<1>1. items[k] \in Item
    BY ElementOfSeq
<1> QED BY <1>1, HubAssumption DEF Item

\* After a page that begins at the cursor, the cursor is at its end.
LEMMA PageEnd ==
    ASSUME NEW start \in Nat, NEW items \in Seq(Item), NEW list, NEW d,
           items # <<>> => IsPage(items, list, d) /\ items[1].index = start
    PROVE  /\ NextStart(start, items) = start + Len(items)
           /\ items # <<>> => start + Len(items) <= MaxEvents
<1> DEFINE ends == {start + Len(items)} \cup {items[k].index + 1 : k \in DOMAIN items}
<1>1. Len(items) \in Nat /\ DOMAIN items = 1..Len(items) /\ (items # <<>> => Len(items) >= 1)
    BY LenProperties, EmptySeq
<1>2. ASSUME NEW k \in DOMAIN items
      PROVE  items[k].index + 1 = start + k /\ items[k].index + 1 <= start + Len(items)
    <2>1. k \in 1..Len(items) /\ items # <<>>
        BY <1>1
    <2>2. items[k].index = start + k - 1
        BY <2>1 DEF IsPage
    <2> QED BY <2>1, <2>2, <1>1
<1>3. \A f \in ends : f <= start + Len(items) /\ f \in Int
    BY <1>1, <1>2
<1>4. \E e \in ends : \A f \in ends : f <= e
    <2> HIDE DEF ends
    <2>1. start + Len(items) \in ends
        BY DEF ends
    <2> QED BY <2>1, <1>3
<1>5. NextStart(start, items) \in ends
    <2>1. NextStart(start, items) = CHOOSE e \in ends : \A f \in ends : f <= e
        BY DEF NextStart
    <2> HIDE DEF ends
    <2> QED BY <2>1, <1>4
<1>6. NextStart(start, items) = start + Len(items)
    <2>1. NextStart(start, items) >= start + Len(items)
        BY NextStartType
    <2> HIDE DEF ends
    <2> QED BY <1>1, <1>3, <1>5, <2>1
<1>7. ASSUME items # <<>> PROVE start + Len(items) <= MaxEvents
    <2>1. Len(items) \in DOMAIN items
        BY <1>1, <1>7
    <2>2. items[Len(items)].index < MaxEvents /\ items[Len(items)].index + 1 = start + Len(items)
        BY <1>2, <1>7, <2>1 DEF IsPage
    <2>3. items[Len(items)].index \in Nat
        BY <2>1, <1>1, ItemIndex
    <2> QED BY <2>2, <2>3, HubAssumption
<1> QED BY <1>6, <1>7

\* What is left of a page after its first item is a page.
LEMMA PageTail ==
    ASSUME NEW items \in Seq(Item), items # <<>>, NEW list, NEW d, IsPage(items, list, d)
    PROVE  LET rest == Tail(items)
           IN /\ rest \in Seq(Item) /\ Head(items) = items[1]
              /\ Len(rest) \in Nat /\ Len(rest) + 1 = Len(items)
              /\ rest # <<>> => /\ IsPage(rest, list, d)
                                /\ rest[1].index = items[1].index + 1
                                /\ rest[1].day = items[1].day
<1> DEFINE rest == Tail(items)
<1>1. /\ rest \in Seq(Item) /\ Head(items) = items[1] /\ Len(items) \in Nat
      /\ Len(rest) \in Nat /\ Len(rest) + 1 = Len(items) /\ DOMAIN rest = 1..Len(rest)
      /\ DOMAIN items = 1..Len(items)
      /\ \A k \in 1..Len(rest) : rest[k] = items[k + 1]
    BY HeadTailProperties, LenProperties
<1>2. items[1].index \in Nat
    BY <1>1, EmptySeq, ItemIndex
<1> HIDE DEF rest
<1>3. ASSUME rest # <<>>
      PROVE  rest[1] = items[2] /\ 2 \in DOMAIN items
    <2>1. 1 \in 1..Len(rest)
        BY <1>1, <1>3, EmptySeq
    <2> QED BY <2>1, <1>1
<1>4. rest # <<>> => /\ rest[1].index = items[1].index + 1
                     /\ rest[1].day = items[1].day
    BY <1>2, <1>3 DEF IsPage
<1>5. ASSUME rest # <<>>, NEW k \in 1..Len(rest)
      PROVE  /\ rest[k].index = rest[1].index + k - 1 /\ rest[k].index < MaxEvents
             /\ rest[k].day = rest[1].day /\ rest[k].day <= d
             /\ rest[k].day = d => /\ rest[k].index < Len(list)
                                   /\ rest[k].code = list[rest[k].index + 1]
    <2>1. k + 1 \in DOMAIN items /\ rest[k] = items[k + 1]
        BY <1>1
    <2>2. /\ rest[k].index = items[1].index + k /\ rest[k].index < MaxEvents
          /\ rest[k].day = items[1].day /\ rest[k].day <= d
          /\ rest[k].day = d => /\ rest[k].index < Len(list)
                                /\ rest[k].code = list[rest[k].index + 1]
        BY <2>1, <1>2 DEF IsPage
    <2> QED BY <2>2, <1>2, <1>4, <1>5
<1>6. rest # <<>> => IsPage(rest, list, d)
    BY <1>1, <1>5 DEF IsPage
<1> QED BY <1>1, <1>4, <1>6 DEF rest

\* When an answer is accepted the loop moves the market's cursor over it.
LEMMA PollItemsStates ==
    ASSUME TypeOK, NEW l \in Subscriber, HandlePollItems(l)
    PROVE  LET lp == loop[l]
               m  == lp.market
               st == states[m]
           IN \/ states' = states /\ loop'[l] = BetweenMarkets(lp)
              \/ /\ st # NoState /\ st.initialized /\ st.date = lp.today
                 /\ st.nextStart = lp.start
                 /\ loop'[l] = [lp EXCEPT !.pc = "fanout"]
                 /\ states' = [states EXCEPT ![m] =
                       [st EXCEPT !.inError = FALSE,
                                  !.nextStart = NextStart(lp.start, lp.items)]]
BY DEF HandlePollItems, TypeOK

\* handlePollItems keeps CursorInv: it moves the cursor to the end of the page.
LEMMA PollItemsCursor ==
    ASSUME HubInv, CursorInv, NEW l \in Subscriber, HandlePollItems(l)
    PROVE  CursorInv'
<1> DEFINE lp == loop[l]
           m == lp.market
           st == states[m]
           n == NextStart(lp.start, lp.items)
           new == [st EXCEPT !.inError = FALSE, !.nextStart = n]
<1>0. TypeOK /\ PollLoop(l) /\ Polling(l) /\ states \in [Market -> MarketState \cup {NoState}]
    BY DEF HubInv, RegistryInv, TypeOK, PollLoop, Polling, HandlePollItems
<1>1. /\ lp \in LoopState /\ m \in Market /\ lp.start \in Nat /\ lp.items \in Seq(Item)
      /\ PollAt(lp, st, feed[m], day) /\ lp.pc = "handle"
      /\ st # NoState => st \in MarketState /\ StateOK(st, day)
    BY <1>0, AtMarket DEF HandlePollItems
<1>2. CASE states' = states /\ loop'[l] = BetweenMarkets(lp)
    <2>1. loop'[l].pc = "next"
        BY <1>1, <1>2, LoopTypes
    <2>2. \A k \in Market : states'[k] # NoState => StateOK(states'[k], day)
        BY <1>2 DEF CursorInv, StatesInv
    <2> QED BY <1>0, <2>1, <2>2, LoopCursorParts DEF Polling
<1>3. CASE /\ st # NoState /\ st.initialized /\ st.date = lp.today /\ st.nextStart = lp.start
           /\ loop'[l] = [lp EXCEPT !.pc = "fanout"]
           /\ states' = [states EXCEPT ![m] = new]
    <2>1. /\ 1 <= lp.today /\ lp.today <= day
          /\ lp.items # <<>> => /\ IsPage(lp.items, feed[m], day) /\ lp.items[1].day >= lp.today
                                /\ lp.items[1].index = lp.start
        BY <1>1 DEF PollAt
    <2>2. /\ n = lp.start + Len(lp.items) /\ Len(lp.items) \in Nat
          /\ n <= MaxEvents /\ lp.start <= n
        <3>1. Len(lp.items) \in Nat /\ (lp.items = <<>> => Len(lp.items) = 0)
            BY <1>1, LenProperties, EmptySeq
        <3>2. /\ n = lp.start + Len(lp.items)
              /\ lp.items # <<>> => lp.start + Len(lp.items) <= MaxEvents
            BY <1>1, <2>1, PageEnd
        <3>3. lp.start <= MaxEvents
            BY <1>1, <1>3 DEF StateOK
        <3> HIDE DEF n
        <3> QED BY <3>1, <3>2, <3>3, <1>1
    <2> HIDE DEF n
    <2>3. /\ new.date = st.date /\ new.initialized = st.initialized
          /\ new.nextStart = n /\ new.seen = st.seen
        BY <1>1, <1>3 DEF MarketState
    <2>4. states'[m] = new /\ \A k \in Market : k # m => states'[k] = states[k]
        BY <1>0, <1>1, <1>3
    <2>5. /\ loop'[l].pc = "fanout" /\ loop'[l].market = m /\ loop'[l].items = lp.items
          /\ loop'[l].today = lp.today
        BY <1>1, <1>3 DEF LoopState, LoopLocals
    <2>6. \A key \in st.seen : key[2] \in Nat /\ key[2] < lp.start
        BY <1>1, <1>3 DEF StateOK, MarketState
    <2> HIDE DEF new, st, m
    <2>7. StateOK(new, day)
        <3>1. \A key \in st.seen : key[2] < n
            BY <1>1, <2>2, <2>6
        <3> QED BY <1>3, <2>1, <2>2, <2>3, <3>1 DEF StateOK
    <2>8. \A k \in Market : states'[k] # NoState => StateOK(states'[k], day)
        BY <2>4, <2>7 DEF CursorInv, StatesInv
    <2>9. PollAt(loop'[l], states'[m], feed[m], day)
        <3>1. /\ states'[m].initialized /\ states'[m].date = lp.today
              /\ states'[m].nextStart = lp.start + Len(lp.items)
              /\ \A key \in states'[m].seen : key[2] < lp.start
            BY <1>3, <2>2, <2>3, <2>4, <2>6
        <3> QED BY <2>1, <2>5, <3>1 DEF PollAt
    <2> QED BY <1>0, <2>5, <2>8, <2>9, LoopCursorParts
<1> QED BY <1>0, <1>2, <1>3, PollItemsStates

\* A turn of the fan-out takes an item off the page.  Either it had been seen
\* and nothing else happens, or the market marks it seen and it goes to those
\* who asked for its stock.
LEMMA FanOutStates ==
    ASSUME HubInv, NEW l \in Subscriber, FanOutItem(l)
    PROVE  LET lp  == loop[l]
               m   == lp.market
               it  == Head(lp.items)
               key == <<it.code, it.index>>
           IN /\ lp.pc = "fanout" /\ lp.items # <<>> /\ m \in Market
              /\ loop'[l] = [lp EXCEPT !.items = Tail(@)]
              /\ \A k \in Market : states'[k] # NoState =>
                   /\ states[k] # NoState
                   /\ \/ states'[k] = states[k]
                      \/ k = m /\ states'[k] = [states[k] EXCEPT !.seen = @ \cup {key}]
<1> DEFINE lp == loop[l]
           m == lp.market
           st == states[m]
           it == Head(lp.items)
           key == <<it.code, it.index>>
           audience == {s \in subscribers : <<m, it.code>> \in targets[s]}
           marked == IF st = NoState THEN states
                     ELSE [states EXCEPT ![m].seen = @ \cup {key}]
<1>0. TypeOK /\ states \in [Market -> MarketState \cup {NoState}] /\ loop \in [Subscriber -> LoopState]
    BY DEF HubInv, RegistryInv, TypeOK
<1>1. lp.pc = "fanout" /\ lp.items # <<>> /\ loop'[l] = [lp EXCEPT !.items = Tail(@)]
    BY <1>0 DEF FanOutItem
<1>2. m \in Market
    BY <1>0, <1>1, LoopMoves
<1>3. ASSUME NEW k \in Market, states'[k] # NoState
      PROVE  /\ states[k] # NoState
             /\ \/ states'[k] = states[k]
                \/ k = m /\ states'[k] = [states[k] EXCEPT !.seen = @ \cup {key}]
    <2>1. CASE UNCHANGED states
        BY <2>1, <1>3
    <2>2. CASE Broadcast(audience, UnusualMessage(m, it), marked)
        <3>1. states'[k] = marked[k]
            <4> HIDE DEF marked
            <4> QED BY <1>3, <2>2 DEF Broadcast, RemoveLocked
        <3>2. marked[k] = IF st # NoState /\ k = m THEN [states[k] EXCEPT !.seen = @ \cup {key}]
                                                   ELSE states[k]
            <4> HIDE DEF key
            <4> QED BY <1>0, <1>2
        <3> HIDE DEF marked, key
        <3> QED BY <1>3, <3>1, <3>2
    <2> QED BY <2>1, <2>2 DEF FanOutItem, registry
<1> QED BY <1>1, <1>2, <1>3

\* A turn of the fan-out keeps CursorInv: the event it marks as seen is before the rest.
LEMMA FanOutCursor ==
    ASSUME HubInv, CursorInv, NEW l \in Subscriber, FanOutItem(l)
    PROVE  CursorInv'
<1> DEFINE lp == loop[l]
           m == lp.market
           st == states[m]
           it == Head(lp.items)
           key == <<it.code, it.index>>
           rest == Tail(lp.items)
           new == [st EXCEPT !.seen = @ \cup {key}]
<1>0. PollLoop(l) /\ Polling(l) /\ lp.pc = "fanout" /\ lp.items # <<>>
    BY DEF PollLoop, Polling, FanOutItem
<1>1. /\ lp \in LoopState /\ m \in Market /\ lp.items \in Seq(Item)
      /\ PollAt(lp, st, feed[m], day)
      /\ st # NoState => st \in MarketState /\ StateOK(st, day)
    BY <1>0, AtMarket
<1>2. /\ loop'[l].pc = "fanout" /\ loop'[l].market = m /\ loop'[l].items = rest
      /\ loop'[l].today = lp.today
    <2>1. loop'[l] = [lp EXCEPT !.items = rest]
        BY FanOutStates
    <2> HIDE DEF rest
    <2> QED BY <2>1, <1>0, <1>1 DEF LoopState, LoopLocals
<1>3. /\ 1 <= lp.today /\ lp.today <= day /\ IsPage(lp.items, feed[m], day) /\ lp.items[1].day >= lp.today
      /\ st # NoState => /\ st.initialized /\ st.date = lp.today
                         /\ st.nextStart = lp.items[1].index + Len(lp.items)
                         /\ \A q \in st.seen : q[2] < lp.items[1].index
    BY <1>0, <1>1 DEF PollAt
<1>4. /\ Head(lp.items) = lp.items[1] /\ Len(rest) \in Nat /\ Len(rest) + 1 = Len(lp.items)
      /\ rest # <<>> => /\ IsPage(rest, feed[m], day)
                        /\ rest[1].index = lp.items[1].index + 1
                        /\ rest[1].day = lp.items[1].day
    BY <1>0, <1>1, <1>3, PageTail
<1>5. lp.items[1].index \in Nat
    <2>1. 1 \in 1..Len(lp.items)
        BY <1>4
    <2> QED BY <2>1, <1>1, ItemIndex
<1>6. st # NoState => /\ new.date = st.date /\ new.initialized = st.initialized
                      /\ new.nextStart = st.nextStart /\ new.seen = st.seen \cup {key}
    <2> HIDE DEF key
    <2> QED BY <1>1 DEF MarketState
<1>7. key[2] = lp.items[1].index
    BY <1>4
<1>8. st # NoState => \A q \in st.seen : q[2] \in Nat
    BY <1>1 DEF MarketState
<1>9. \A k \in Market : states'[k] # NoState =>
        /\ states[k] # NoState
        /\ states'[k] = states[k] \/ (k = m /\ states'[k] = new)
    <2>1. \A k \in Market : states'[k] # NoState =>
            /\ states[k] # NoState
            /\ \/ states'[k] = states[k]
               \/ k = m /\ states'[k] = [states[k] EXCEPT !.seen = @ \cup {key}]
        BY FanOutStates
    <2> HIDE DEF key
    <2> QED BY <2>1
<1> HIDE DEF key, new, rest, st
<1>10. st # NoState => StateOK(new, day)
    <2> SUFFICES ASSUME st # NoState PROVE StateOK(new, day)
        OBVIOUS
    <2>1. \A q \in new.seen : q[2] < new.nextStart
        BY <1>1, <1>3, <1>4, <1>5, <1>6, <1>7 DEF StateOK
    <2> QED BY <1>1, <1>6, <2>1 DEF StateOK
<1>11. \A k \in Market : states'[k] # NoState => StateOK(states'[k], day)
    BY <1>9, <1>10 DEF CursorInv, StatesInv, st
<1>12. \A x : x = NoState \/ (st # NoState /\ (x = st \/ x = new))
            => PollAt(loop'[l], x, feed[m], day)
    <2> SUFFICES ASSUME NEW x, x = NoState \/ (st # NoState /\ (x = st \/ x = new))
                 PROVE PollAt(loop'[l], x, feed[m], day)
        OBVIOUS
    <2>1. ASSUME x # NoState
          PROVE  /\ x.initialized /\ x.date = lp.today
                 /\ x.nextStart = lp.items[1].index + Len(lp.items)
                 /\ \A q \in x.seen : q[2] \in Nat /\ q[2] <= lp.items[1].index
        <3>1. CASE x = st
            BY <1>3, <1>5, <1>8, <2>1, <3>1
        <3>2. CASE x = new
            BY <1>3, <1>5, <1>6, <1>7, <1>8, <2>1, <3>2
        <3> QED BY <2>1, <3>1, <3>2
    <2>2. ASSUME x # NoState, rest # <<>>
          PROVE  /\ x.nextStart = rest[1].index + Len(rest)
                 /\ \A q \in x.seen : q[2] < rest[1].index
        <3>1. rest[1].index = lp.items[1].index + 1 /\ Len(rest) \in Nat /\ Len(rest) + 1 = Len(lp.items)
            BY <1>4, <2>2
        <3>2. \A q \in x.seen : q[2] < rest[1].index
            BY <1>5, <2>1, <2>2, <3>1
        <3>3. x.nextStart = rest[1].index + Len(rest)
            <4>1. \A a, b \in Nat : a + (b + 1) = (a + 1) + b
                OBVIOUS
            <4>2. x.nextStart = lp.items[1].index + Len(lp.items)
                BY <2>1, <2>2
            <4>3. lp.items[1].index + Len(lp.items) = (lp.items[1].index + 1) + Len(rest)
                BY <1>5, <3>1, <4>1, ZenonT(30)
            <4> QED BY <3>1, <4>2, <4>3, ZenonT(30)
        <3> QED BY <3>2, <3>3
    <2> QED BY <1>2, <1>3, <1>4, <2>1, <2>2 DEF PollAt
<1>13. PollAt(loop'[l], states'[m], feed[m], day)
    BY <1>1, <1>9, <1>12 DEF st
<1> QED BY <1>0, <1>2, <1>11, <1>13, LoopCursorParts

\* The list grows at its end, and midnight outdates all that was known of it.
LEMMA EnvironmentCursor ==
    ASSUME HubInv, CursorInv, Environment
    PROVE  CursorInv'
<1>0. TypeOK /\ day \in Nat
    BY DEF HubInv, RegistryInv, TypeOK
<1>1. UNCHANGED <<pc, targets, received, states, loop>>
    BY DEF Environment, Publish, Midnight, registry, conns
<1>2. /\ day' \in Nat /\ day' >= day
      /\ \A m \in Market : /\ Len(feed'[m]) <= MaxEvents
                           /\ day' = day => /\ Len(feed[m]) <= Len(feed'[m])
                                            /\ \A i \in 1..Len(feed[m]) : feed'[m][i] = feed[m][i]
    <2>1. CASE Midnight
        <3>1. day' = day + 1 /\ \A m \in Market : feed'[m] = <<>>
            BY <2>1 DEF Midnight
        <3>2. Len(<<>>) = 0 /\ MaxEvents \in Nat
            BY HubAssumption
        <3> QED BY <3>1, <3>2, <1>0
    <2>2. ASSUME NEW k \in Market, NEW c \in Code, Publish(k, c)
          PROVE  /\ day' = day
                 /\ \A m \in Market : /\ Len(feed'[m]) <= MaxEvents
                                      /\ Len(feed[m]) <= Len(feed'[m])
                                      /\ \A i \in 1..Len(feed[m]) : feed'[m][i] = feed[m][i]
        <3>1. feed' = [feed EXCEPT ![k] = Append(@, c)] /\ Len(feed[k]) < MaxEvents /\ day' = day
            BY <2>2 DEF Publish
        <3>2. /\ feed[k] \in Seq(Code) /\ Len(feed[k]) \in Nat
              /\ Len(Append(feed[k], c)) = Len(feed[k]) + 1
              /\ \A i \in 1..Len(feed[k]) : Append(feed[k], c)[i] = feed[k][i]
            BY <1>0, LenProperties, AppendProperties DEF TypeOK
        <3>3. feed'[k] = Append(feed[k], c) /\ \A m \in Market : m # k => feed'[m] = feed[m]
            BY <3>1, <1>0 DEF TypeOK
        <3>4. \A m \in Market : Len(feed[m]) \in Nat /\ Len(feed[m]) <= MaxEvents
            BY <1>0, LenProperties DEF TypeOK, CursorInv, FeedInv
        <3>5. MaxEvents \in Nat
            BY HubAssumption
        <3> QED BY <3>1, <3>2, <3>3, <3>4, <3>5
    <2>3. CASE \E k \in Market, c \in Code : Publish(k, c)
        <3>1. PICK k \in Market, c \in Code : Publish(k, c)
            BY <2>3
        <3> QED BY <3>1, <2>2, <1>0
    <2> QED BY <2>1, <2>3 DEF Environment
<1>3. StatesInv'
    <2> SUFFICES ASSUME NEW m \in Market, states[m] # NoState
                 PROVE StateOK(states[m], day')
        BY <1>1 DEF StatesInv
    <2>1. states[m] \in MarketState /\ StateOK(states[m], day)
        BY <1>0 DEF TypeOK, CursorInv, StatesInv
    <2>2. states[m].date \in Nat
        BY <2>1 DEF MarketState
    <2> QED BY <2>1, <2>2, <1>0, <1>2 DEF StateOK
<1>4. FeedInv' /\ ConnInv'
    BY <1>1, <1>2 DEF CursorInv, FeedInv, ConnInv
<1>5. PollInv'
    <2> SUFFICES ASSUME NEW l \in Subscriber, Polling(l)
                 PROVE PollAt(loop[l], states[loop[l].market], feed'[loop[l].market], day')
        BY <1>1 DEF PollInv, Polling
    <2> DEFINE lp == loop[l]
               m == lp.market
               items == lp.items
    <2>1. /\ m \in Market /\ lp.today \in 0..MaxDay /\ items \in Seq(Item)
          /\ PollAt(lp, states[m], feed[m], day)
        BY AtMarket
    <2>2. ASSUME items # <<>>, IsPage(items, feed[m], day) PROVE IsPage(items, feed'[m], day')
        <3> SUFFICES ASSUME NEW k \in DOMAIN items
                     PROVE /\ items[k].index = items[1].index + k - 1 /\ items[k].index < MaxEvents
                           /\ items[k].day = items[1].day /\ items[k].day <= day'
                           /\ items[k].day = day' => /\ items[k].index < Len(feed'[m])
                                                     /\ items[k].code = feed'[m][items[k].index + 1]
            BY DEF IsPage
        <3>1. /\ items[k].index = items[1].index + k - 1 /\ items[k].index < MaxEvents
              /\ items[k].day = items[1].day /\ items[k].day <= day
              /\ items[k].day = day => /\ items[k].index < Len(feed[m])
                                       /\ items[k].code = feed[m][items[k].index + 1]
            BY <2>2 DEF IsPage
        <3>2. items[k].index \in Nat /\ items[k].day \in Nat
            <4>1. items[k] \in Item
                BY <2>1, ItemIndex, LenProperties
            <4> QED BY <4>1, HubAssumption DEF Item
        <3>3. items[k].day <= day'
            BY <3>1, <3>2, <1>0, <1>2
        <3>4. ASSUME items[k].day = day'
              PROVE items[k].index < Len(feed'[m]) /\ items[k].code = feed'[m][items[k].index + 1]
            <4>1. day' = day
                BY <3>1, <3>2, <3>4, <1>0, <1>2
            <4>2. Len(feed[m]) \in Nat /\ Len(feed[m]) <= Len(feed'[m])
                BY <4>1, <1>0, <1>2, <2>1, LenProperties DEF TypeOK
            <4>3. items[k].index < Len(feed[m]) /\ items[k].code = feed[m][items[k].index + 1]
                BY <3>1, <3>4, <4>1
            <4>4. items[k].index + 1 \in 1..Len(feed[m]) /\ Len(feed'[m]) \in Nat
                <5>1. TypeOK' => Len(feed'[m]) \in Nat
                    BY <2>1, LenProperties DEF TypeOK
                <5>2. TypeOK'
                    BY EnvironmentRegistry DEF HubInv, RegistryInv
                <5>3. items[k].index + 1 \in 1..Len(feed[m])
                    <6>1. \A a, b \in Nat : a < b => a + 1 \in 1..b
                        OBVIOUS
                    <6> QED BY <3>2, <4>2, <4>3, <6>1
                <5>4. Len(feed'[m]) \in Nat
                    BY <5>1, <5>2
                <5> QED BY <5>3, <5>4
            <4>5. feed'[m][items[k].index + 1] = feed[m][items[k].index + 1]
                BY <1>2, <2>1, <4>1, <4>4
            <4>6. \A a, b, c \in Nat : a < b /\ b <= c => a < c
                OBVIOUS
            <4>7. items[k].index < Len(feed'[m])
                BY <3>2, <4>2, <4>3, <4>4, <4>6
            <4> QED BY <4>3, <4>5, <4>7
        <3> QED BY <3>1, <3>3, <3>4
    <2>3. 1 <= lp.today /\ lp.today <= day'
        BY <2>1, <1>0, <1>2 DEF PollAt
    <2> QED BY <2>1, <2>2, <2>3 DEF PollAt
<1> QED BY <1>3, <1>4, <1>5 DEF CursorInv

\* At first nothing is watched and no loop runs.
LEMMA InitCursor == Init => CursorInv
<1> SUFFICES ASSUME Init PROVE CursorInv
    OBVIOUS
<1>1. Len(<<>>) = 0 /\ MaxEvents \in Nat
    BY HubAssumption
<1>2. StatesInv /\ FeedInv /\ ConnInv
    BY <1>1 DEF Init, StatesInv, FeedInv, ConnInv
<1>3. PollInv
    BY LoopTypes DEF Init, PollInv, Polling
<1> QED BY <1>2, <1>3 DEF CursorInv

\* CursorInv is inductive, given HubInv.
LEMMA NextCursor ==
    ASSUME Fits, HubInv, HubInv', CursorInv, [Next]_vars
    PROVE  CursorInv'
<1>1. CASE UNCHANGED vars
    BY <1>1 DEF vars, external, registry, conns, CursorInv, StatesInv, FeedInv, PollInv, Polling, ConnInv
<1>2. ASSUME NEW s \in Subscriber, Connection(s) PROVE CursorInv'
    BY <1>2, ConnectionCursor
<1>3. ASSUME NEW l \in Subscriber, PollLoop(l) PROVE CursorInv'
    BY <1>3, QuietCursor, BaselineCursor, PollErrorCursor, PollItemsCursor, FanOutCursor DEF PollLoop
<1>4. CASE Environment
    BY <1>4, EnvironmentCursor
<1> QED BY <1>1, <1>2, <1>3, <1>4 DEF Next

\* The cursors agree with the lists and with what the loop carries over the time it
\* does not hold the lock: an answer that handlePollItems accepts begins at the
\* cursor, and a baseline moves no cursor of today.
THEOREM CursorsSafe == ASSUME Fits PROVE Spec => []CursorInv
<1>1. HubInv /\ HubInv' /\ CursorInv /\ [Next]_vars => CursorInv'
    BY NextCursor
<1> QED BY InitCursor, HubInvariant, <1>1, PTL DEF Spec

-----------------------------------------------------------------------------
(* Order *)

\* An event of day d and market m: OfToday(x, m) is OfDay(x, m, day).
OfDay(x, m, d) == x.event = "unusual" /\ x.market = m /\ x.item.day = d

\* What a sequence holds.
Elements(q) == {q[i] : i \in DOMAIN q}

\* What a connection was sent or has in its buffer.
InHand(s) == Elements(received[s]) \cup Elements(messages[s])

\* The events among S come before index n of the market's list of day d.
Before(S, m, n, d) == \A x \in S : OfDay(x, m, d) => x.item.index < n

\* The indices of the events of q go up.
InOrder(q, m, d) ==
    \A i, j \in DOMAIN q :
        i < j /\ OfDay(q[i], m, d) /\ OfDay(q[j], m, d) => q[i].item.index < q[j].item.index

\* r is in order, q is in order, and all of r comes before all of q.
Sorted(r, q, m, d) ==
    /\ InOrder(r, m, d) /\ InOrder(q, m, d)
    /\ \A x \in Elements(r), y \in Elements(q) :
         OfDay(x, m, d) /\ OfDay(y, m, d) => x.item.index < y.item.index

\* What is in the hands of a watcher comes before everything the loop will
\* hand on: nothing, if the loop's date is not today's; before the start of its
\* search; before the first item of its page.
HandAt(lp, S, d) ==
    /\ lp.pc \in {"read", "tail"} /\ lp.today < d => Before(S, lp.market, 0, d)
    /\ lp.pc = "tail" /\ lp.today = d => Before(S, lp.market, lp.start, d)
    /\ lp.pc = "fanout" /\ lp.items # <<>> => Before(S, lp.market, lp.items[1].index, d)

\* No event is of a day to come; today's are in the list; a market's watchers have
\* none beyond its cursor, nor of what the loop is about to hand on; and each
\* connection has its own in order.
DaysInv == \A s \in Subscriber : \A x \in InHand(s) : x.event = "unusual" => x.item.day <= day
EndInv == \A s \in Subscriber, m \in Market : Before(InHand(s), m, Len(feed[m]), day)
NextInv ==
    \A m \in Market : \A s \in Watchers(m) :
        states[m].initialized => Before(InHand(s), m, states[m].nextStart, day)
HandInv ==
    \A l \in Subscriber : Polling(l) =>
        \A s \in Watchers(loop[l].market) : HandAt(loop[l], InHand(s), day)
SortedInv == \A s \in Subscriber, m \in Market : Sorted(received[s], messages[s], m, day)

OrderInv == DaysInv /\ EndInv /\ NextInv /\ HandInv /\ SortedInv

-----------------------------------------------------------------------------

\* Buffers and histories hold messages.
LEMMA InHandType ==
    ASSUME TypeOK, NEW s \in Subscriber
    PROVE  /\ received[s] \in Seq(Message) /\ messages[s] \in Seq(Message)
           /\ InHand(s) \subseteq Message
<1>1. received[s] \in Seq(Message) /\ messages[s] \in Seq(Message)
    BY DEF TypeOK
<1>2. \A q \in Seq(Message) : Elements(q) \subseteq Message
    BY ElementOfSeq, LenProperties DEF Elements
<1> QED BY <1>1, <1>2 DEF InHand

\* An error is no event; an event has an index and a day.
LEMMA MessageFields ==
    /\ \A m, d : ~OfDay(ErrorMessage, m, d)
    /\ \A x \in Message : x.event = "unusual" =>
         x.market \in Market /\ x.item \in Item /\ x.item.index \in Nat /\ x.item.day \in Nat
<1>1. "error" # "unusual"
    OBVIOUS
<1>2. \A it \in Item : it.index \in Nat /\ it.day \in Nat
    BY HubAssumption DEF Item
<1>3. \A x \in Message : x.event = "unusual" => x.market \in Market /\ x.item \in Item
    <2> HIDE DEF Item
    <2> QED BY DEF Message
<1> HIDE DEF Item
<1> QED BY <1>1, <1>2, <1>3 DEF OfDay, ErrorMessage

\* Before is about the events in S, and grows with the index.
LEMMA BeforeKept ==
    ASSUME NEW S \in SUBSET Message, NEW T, T \subseteq S \cup {ErrorMessage},
           NEW m, NEW d, NEW n \in Int, NEW k \in Int, n <= k, Before(S, m, n, d)
    PROVE  Before(T, m, k, d)
<1> SUFFICES ASSUME NEW x \in T, OfDay(x, m, d)
             PROVE x.item.index < k
    BY DEF Before
<1>1. x \in S /\ x \in Message
    BY MessageFields
<1>2. x.item.index < n /\ x.item.index \in Nat
    BY <1>1, MessageFields DEF Before, OfDay
<1> QED BY <1>2

\* A connection with error events at most has no event, so all of them come early.
LEMMA NothingBefore ==
    ASSUME NEW T, T \subseteq {ErrorMessage}, NEW m, NEW n, NEW d
    PROVE  Before(T, m, n, d)
BY MessageFields DEF Before

\* Append adds an element, at the end.
LEMMA ElementsAppend ==
    ASSUME NEW q \in Seq(Message), NEW x
    PROVE  /\ Elements(Append(q, x)) = Elements(q) \cup {x}
           /\ Len(Append(q, x)) = Len(q) + 1 /\ Len(q) \in Nat
           /\ DOMAIN q = 1..Len(q) /\ DOMAIN Append(q, x) = 1..(Len(q) + 1)
           /\ \A i \in 1..Len(q) : Append(q, x)[i] = q[i]
           /\ Append(q, x)[Len(q) + 1] = x
<1>1. /\ Len(Append(q, x)) = Len(q) + 1 /\ Len(q) \in Nat
      /\ DOMAIN q = 1..Len(q) /\ DOMAIN Append(q, x) = 1..(Len(q) + 1)
      /\ \A i \in 1..Len(q) : Append(q, x)[i] = q[i]
      /\ Append(q, x)[Len(q) + 1] = x
    <2>1. q \in Seq(Message \cup {x}) /\ x \in Message \cup {x}
        <3>1. Seq(Message) \subseteq Seq(Message \cup {x})
            BY SeqMonotonic
        <3> QED BY <3>1
    <2> QED BY <2>1, AppendProperties, LenProperties
<1>2. \A y \in Elements(Append(q, x)) : y \in Elements(q) \cup {x}
    <2> TAKE y \in Elements(Append(q, x))
    <2>1. PICK i \in 1..(Len(q) + 1) : y = Append(q, x)[i]
        BY <1>1 DEF Elements
    <2>2. i \in 1..Len(q) \/ i = Len(q) + 1
        BY <1>1
    <2> QED BY <1>1, <2>1, <2>2 DEF Elements
<1>3. \A y \in Elements(q) \cup {x} : y \in Elements(Append(q, x))
    <2>1. \A i \in 1..Len(q) : i \in 1..(Len(q) + 1)
        BY <1>1
    <2>2. Len(q) + 1 \in 1..(Len(q) + 1)
        BY <1>1
    <2> QED BY <1>1, <2>1, <2>2 DEF Elements
<1> QED BY <1>1, <1>2, <1>3

\* Head is the first element; Tail moves the others up.
LEMMA ElementsTail ==
    ASSUME NEW q \in Seq(Message), q # <<>>
    PROVE  /\ Head(q) \in Elements(q) /\ Elements(Tail(q)) \subseteq Elements(q)
           /\ Head(q) = q[1] /\ Len(q) \in Nat /\ DOMAIN q = 1..Len(q) /\ 1 \in DOMAIN q
           /\ Tail(q) \in Seq(Message)
           /\ \A i \in DOMAIN Tail(q) : i \in Nat /\ i >= 1 /\ i + 1 \in DOMAIN q /\ Tail(q)[i] = q[i + 1]
<1>1. /\ Tail(q) \in Seq(Message) /\ Head(q) = q[1] /\ Len(q) \in Nat
      /\ Len(Tail(q)) \in Nat /\ Len(Tail(q)) + 1 = Len(q) /\ DOMAIN q = 1..Len(q)
      /\ DOMAIN Tail(q) = 1..Len(Tail(q))
      /\ \A i \in 1..Len(Tail(q)) : Tail(q)[i] = q[i + 1]
    BY HeadTailProperties, LenProperties
<1>2. \A i \in DOMAIN Tail(q) : i \in Nat /\ i >= 1 /\ i + 1 \in DOMAIN q /\ Tail(q)[i] = q[i + 1]
    BY <1>1
<1>3. 1 \in DOMAIN q
    BY <1>1
<1>4. Head(q) \in Elements(q) /\ Elements(Tail(q)) \subseteq Elements(q)
    BY <1>1, <1>2, <1>3 DEF Elements
<1> QED BY <1>1, <1>2, <1>3, <1>4

\* Sending the first of the buffer keeps the order.
LEMMA SortedSend ==
    ASSUME NEW r \in Seq(Message), NEW q \in Seq(Message), q # <<>>, NEW m, NEW d,
           Sorted(r, q, m, d)
    PROVE  Sorted(r, Tail(q), m, d) /\ Sorted(Append(r, Head(q)), Tail(q), m, d)
<1> DEFINE h == Head(q)
           t == Tail(q)
<1>1. /\ h \in Elements(q) /\ Elements(t) \subseteq Elements(q) /\ 1 \in DOMAIN q /\ h = q[1]
      /\ \A i \in DOMAIN t : i \in Nat /\ i >= 1 /\ i + 1 \in DOMAIN q /\ t[i] = q[i + 1]
    BY ElementsTail
<1> HIDE DEF h, t
<1>2. InOrder(t, m, d)
    <2> SUFFICES ASSUME NEW i \in DOMAIN t, NEW j \in DOMAIN t, i < j,
                        OfDay(t[i], m, d), OfDay(t[j], m, d)
                 PROVE t[i].item.index < t[j].item.index
        BY DEF InOrder
    <2>1. i + 1 \in DOMAIN q /\ j + 1 \in DOMAIN q /\ t[i] = q[i + 1] /\ t[j] = q[j + 1]
        BY <1>1
    <2>2. i + 1 < j + 1
        BY <1>1
    <2> QED BY <2>1, <2>2 DEF Sorted, InOrder
<1>3. \A y \in Elements(t) : OfDay(h, m, d) /\ OfDay(y, m, d) => h.item.index < y.item.index
    <2> TAKE y \in Elements(t)
    <2>1. PICK i \in DOMAIN t : y = t[i]
        BY DEF Elements
    <2>2. i + 1 \in DOMAIN q /\ y = q[i + 1] /\ 1 < i + 1
        BY <1>1, <2>1
    <2> QED BY <1>1, <2>2 DEF Sorted, InOrder
<1>4. Sorted(r, t, m, d)
    BY <1>1, <1>2 DEF Sorted
<1>5. /\ Elements(Append(r, h)) = Elements(r) \cup {h} /\ Len(r) \in Nat
      /\ DOMAIN r = 1..Len(r) /\ DOMAIN Append(r, h) = 1..(Len(r) + 1)
      /\ \A i \in 1..Len(r) : Append(r, h)[i] = r[i]
      /\ Append(r, h)[Len(r) + 1] = h
    BY ElementsAppend
<1>6. InOrder(Append(r, h), m, d)
    <2> DEFINE a == Append(r, h)
    <2> SUFFICES ASSUME NEW i \in DOMAIN a, NEW j \in DOMAIN a, i < j,
                        OfDay(a[i], m, d), OfDay(a[j], m, d)
                 PROVE a[i].item.index < a[j].item.index
        BY DEF InOrder
    <2>1. i \in DOMAIN r /\ a[i] = r[i] /\ r[i] \in Elements(r)
        BY <1>5 DEF Elements
    <2>2. CASE j \in DOMAIN r
        BY <1>5, <2>1, <2>2 DEF Sorted, InOrder
    <2>3. CASE j = Len(r) + 1
        BY <1>1, <1>5, <2>1, <2>3 DEF Sorted
    <2> QED BY <1>5, <2>2, <2>3
<1>7. Sorted(Append(r, h), t, m, d)
    BY <1>2, <1>3, <1>4, <1>5, <1>6 DEF Sorted
<1> QED BY <1>4, <1>7 DEF h, t

\* So does putting something later into the buffer.
LEMMA SortedAppend ==
    ASSUME NEW r \in Seq(Message), NEW q \in Seq(Message), NEW x, NEW m, NEW d,
           Sorted(r, q, m, d),
           OfDay(x, m, d) => Before(Elements(r) \cup Elements(q), m, x.item.index, d)
    PROVE  Sorted(r, Append(q, x), m, d)
<1>1. /\ Elements(Append(q, x)) = Elements(q) \cup {x} /\ Len(q) \in Nat
      /\ DOMAIN q = 1..Len(q) /\ DOMAIN Append(q, x) = 1..(Len(q) + 1)
      /\ \A i \in 1..Len(q) : Append(q, x)[i] = q[i]
      /\ Append(q, x)[Len(q) + 1] = x
    BY ElementsAppend
<1>2. InOrder(Append(q, x), m, d)
    <2> DEFINE a == Append(q, x)
    <2> SUFFICES ASSUME NEW i \in DOMAIN a, NEW j \in DOMAIN a, i < j,
                        OfDay(a[i], m, d), OfDay(a[j], m, d)
                 PROVE a[i].item.index < a[j].item.index
        BY DEF InOrder
    <2>1. i \in DOMAIN q /\ a[i] = q[i] /\ q[i] \in Elements(q)
        BY <1>1 DEF Elements
    <2>2. CASE j \in DOMAIN q
        BY <1>1, <2>1, <2>2 DEF Sorted, InOrder
    <2>3. CASE j = Len(q) + 1
        BY <1>1, <2>1, <2>3 DEF Before
    <2> QED BY <1>1, <2>2, <2>3
<1>3. \A y \in Elements(r), z \in Elements(Append(q, x)) :
         OfDay(y, m, d) /\ OfDay(z, m, d) => y.item.index < z.item.index
    BY <1>1 DEF Sorted, Before
<1> QED BY <1>2, <1>3 DEF Sorted

\* Taken one after the other they are in order.
LEMMA SortedConcat ==
    ASSUME NEW r \in Seq(Message), NEW q \in Seq(Message), NEW m, NEW d, Sorted(r, q, m, d)
    PROVE  InOrder(r \o q, m, d)
<1> DEFINE a == r \o q
<1>1. /\ Len(r) \in Nat /\ Len(q) \in Nat /\ DOMAIN r = 1..Len(r) /\ DOMAIN q = 1..Len(q)
      /\ DOMAIN a = 1..(Len(r) + Len(q))
      /\ \A i \in 1..(Len(r) + Len(q)) : a[i] = IF i <= Len(r) THEN r[i] ELSE q[i - Len(r)]
    BY ConcatProperties, LenProperties
<1> HIDE DEF a
<1>2. \A i \in DOMAIN a : \/ i \in DOMAIN r /\ a[i] = r[i] /\ r[i] \in Elements(r)
                          \/ /\ i > Len(r) /\ i - Len(r) \in DOMAIN q
                             /\ a[i] = q[i - Len(r)] /\ q[i - Len(r)] \in Elements(q)
    BY <1>1 DEF Elements
<1> SUFFICES ASSUME NEW i \in DOMAIN a, NEW j \in DOMAIN a, i < j,
                    OfDay(a[i], m, d), OfDay(a[j], m, d)
             PROVE a[i].item.index < a[j].item.index
    BY DEF InOrder, a
<1>3. CASE j \in DOMAIN r /\ a[j] = r[j]
    BY <1>1, <1>2, <1>3 DEF Sorted, InOrder
<1>4. CASE i \in DOMAIN r /\ a[i] \in Elements(r) /\ a[j] \in Elements(q)
    BY <1>4 DEF Sorted
<1>5. CASE i > Len(r) /\ j > Len(r)
    <2>1. /\ i - Len(r) \in DOMAIN q /\ j - Len(r) \in DOMAIN q
          /\ a[i] = q[i - Len(r)] /\ a[j] = q[j - Len(r)]
        BY <1>1, <1>2, <1>5
    <2>2. i - Len(r) < j - Len(r)
        BY <1>1
    <2> QED BY <2>1, <2>2 DEF Sorted, InOrder
<1> QED BY <1>1, <1>2, <1>3, <1>4, <1>5

\* What a step may do to the hands of a connection without disturbing any
\* order: take from them, and put in error events.
HandsKept(t) ==
    /\ InHand(t)' \subseteq InHand(t) \cup {ErrorMessage}
    /\ \A m, d : Sorted(received[t], messages[t], m, d) => Sorted(received'[t], messages'[t], m, d)

\* A step that gives and takes nothing keeps the hands of a connection.
LEMMA SameHands ==
    ASSUME NEW t \in Subscriber, received'[t] = received[t], messages'[t] = messages[t]
    PROVE  HandsKept(t)
BY DEF HandsKept, InHand

\* So does a step that gives it an error event.
LEMMA AppendedError ==
    ASSUME TypeOK, NEW t \in Subscriber, received'[t] = received[t],
           messages'[t] = Append(messages[t], ErrorMessage)
    PROVE  HandsKept(t)
<1>1. received[t] \in Seq(Message) /\ messages[t] \in Seq(Message)
    BY InHandType
<1>2. Elements(Append(messages[t], ErrorMessage)) = Elements(messages[t]) \cup {ErrorMessage}
    BY <1>1, ElementsAppend
<1>3. \A m, d : Sorted(received[t], messages[t], m, d)
                  => Sorted(received[t], Append(messages[t], ErrorMessage), m, d)
    BY <1>1, MessageFields, SortedAppend
<1> QED BY <1>2, <1>3 DEF HandsKept, InHand

\* Nothing, or a single error event, is in order.
LEMMA EmptyHands ==
    ASSUME NEW q, q = <<>> \/ q = <<ErrorMessage>>
    PROVE  /\ Elements(<<>>) = {} /\ Elements(q) \subseteq {ErrorMessage}
           /\ \A m, d : Sorted(<<>>, q, m, d)
           /\ \A r, p, m, d : Sorted(r, p, m, d) => Sorted(r, <<>>, m, d)
<1>1. DOMAIN <<>> = {} /\ Elements(<<>>) = {} /\ \A m, d : InOrder(<<>>, m, d)
    BY DEF Elements, InOrder
<1>2. \A i, j \in DOMAIN q : ~(i < j) /\ q[i] = ErrorMessage
    <2>1. CASE q = <<>>
        BY <2>1
    <2>2. CASE q = <<ErrorMessage>>
        <3>1. DOMAIN q = {1} /\ q[1] = ErrorMessage
            BY <2>2
        <3> QED BY <3>1
    <2> QED BY <2>1, <2>2
<1>3. Elements(q) \subseteq {ErrorMessage} /\ \A m, d : InOrder(q, m, d)
    BY <1>2 DEF Elements, InOrder
<1> QED BY <1>1, <1>3 DEF Sorted

\* A step of a connection gives error events at most, and a connection that begins
\* to watch has no event yet.
LEMMA ConnectionHands ==
    ASSUME HubInv, CursorInv, NEW s \in Subscriber, Connection(s), NEW t \in Subscriber
    PROVE  /\ HandsKept(t)
           /\ \/ \A m \in Market : t \in Watchers(m)' => t \in Watchers(m)
              \/ InHand(t)' \subseteq {ErrorMessage}
<1>0. TypeOK
    BY DEF HubInv, RegistryInv
<1>1. ASSUME NEW T \in TargetSets, Subscribe(s, T)
      PROVE  /\ HandsKept(t)
             /\ \/ \A m \in Market : t \in Watchers(m)' => t \in Watchers(m)
                \/ InHand(t)' \subseteq {ErrorMessage}
    <2>1. CASE t # s
        <3>1. received'[t] = received[t] /\ messages'[t] = messages[t]
            BY <1>0, <1>1, <2>1 DEF Subscribe, TypeOK
        <3>2. \A m \in Market : t \in Watchers(m)' => t \in Watchers(m)
            BY <1>0, <1>1, <2>1 DEF Subscribe, TypeOK, Watchers, Watches
        <3> QED BY <3>1, <3>2, SameHands
    <2>2. CASE t = s
        <3>1. received'[s] = received[s] /\ received[s] = <<>>
            BY <1>1 DEF Subscribe, CursorInv, ConnInv
        <3>2. messages'[s] = <<>> \/ messages'[s] = <<ErrorMessage>>
            BY <1>0, <1>1 DEF Subscribe, TypeOK
        <3>3. /\ Elements(received'[s]) = {} /\ Elements(messages'[s]) \subseteq {ErrorMessage}
              /\ \A m, d : Sorted(received'[s], messages'[s], m, d)
            BY <3>1, <3>2, EmptyHands
        <3> QED BY <2>2, <3>3 DEF HandsKept, InHand
    <2> QED BY <2>1, <2>2
<1>2. ASSUME StartLoop(s) \/ NotifyPollLoop(s)
      PROVE  HandsKept(t) /\ \A m \in Market : t \in Watchers(m)' => t \in Watchers(m)
    <2>1. UNCHANGED <<received, messages, subscribers, targets>>
        BY <1>2 DEF StartLoop, NotifyPollLoop, registry
    <2> QED BY <2>1, SameHands DEF Watchers, Watches
<1>3. ASSUME SendNext(s)
      PROVE  HandsKept(t) /\ \A m \in Market : t \in Watchers(m)' => t \in Watchers(m)
    <2>1. UNCHANGED <<subscribers, targets>>
        BY <1>3 DEF SendNext, registry
    <2>2. CASE t # s
        <3>1. received'[t] = received[t] /\ messages'[t] = messages[t]
            BY <1>0, <1>3, <2>2 DEF SendNext, TypeOK
        <3> QED BY <2>1, <3>1, SameHands DEF Watchers, Watches
    <2>3. CASE t = s
        <3>1. /\ received[s] \in Seq(Message) /\ messages[s] \in Seq(Message)
              /\ messages[s] # <<>>
            BY <1>3, <1>0, InHandType DEF SendNext
        <3>2. /\ messages'[s] = Tail(messages[s])
              /\ \/ received'[s] = received[s]
                 \/ received'[s] = Append(received[s], Head(messages[s]))
            BY <1>0, <1>3 DEF SendNext, TypeOK
        <3>3. /\ Head(messages[s]) \in Elements(messages[s])
              /\ Elements(Tail(messages[s])) \subseteq Elements(messages[s])
            BY <3>1, ElementsTail
        <3>4. Elements(Append(received[s], Head(messages[s])))
                = Elements(received[s]) \cup {Head(messages[s])}
            BY <3>1, ElementsAppend
        <3>5. \A m, d : Sorted(received[s], messages[s], m, d) =>
                /\ Sorted(received[s], Tail(messages[s]), m, d)
                /\ Sorted(Append(received[s], Head(messages[s])), Tail(messages[s]), m, d)
            BY <3>1, SortedSend
        <3>6. InHand(s)' \subseteq InHand(s)
            BY <3>2, <3>3, <3>4 DEF InHand
        <3>7. HandsKept(s)
            BY <3>2, <3>5, <3>6 DEF HandsKept
        <3> QED BY <2>1, <2>3, <3>7 DEF Watchers, Watches
    <2> QED BY <2>2, <2>3
<1>4. ASSUME Disconnect(s)
      PROVE  HandsKept(t) /\ \A m \in Market : t \in Watchers(m)' => t \in Watchers(m)
    <2>1. subscribers' = subscribers \ {s}
        BY <1>4 DEF Disconnect, RemoveLocked, Registered
    <2>2. CASE t # s
        <3>1. /\ received'[t] = received[t] /\ messages'[t] = messages[t]
              /\ targets'[t] = targets[t]
            BY <1>0, <1>4, <2>2 DEF Disconnect, TypeOK
        <3> QED BY <2>1, <3>1, SameHands DEF Watchers, Watches
    <2>3. CASE t = s
        <3>1. received'[s] = received[s] /\ messages'[s] = <<>>
            BY <1>0, <1>4 DEF Disconnect, TypeOK
        <3>2. HandsKept(s)
            BY <3>1, EmptyHands DEF HandsKept, InHand
        <3> QED BY <2>1, <2>3, <3>2 DEF Watchers
    <2> QED BY <2>2, <2>3
<1> QED BY <1>1, <1>2, <1>3, <1>4 DEF Connection

\* Short of a fan-out, the loop gives error events at most.
LEMMA LoopHands ==
    ASSUME TypeOK, NEW l \in Subscriber, PollLoop(l), ~FanOutItem(l), NEW t \in Subscriber
    PROVE  HandsKept(t)
<1>1. CASE ActiveMarkets(l) \/ Timer(l) \/ WakeUp(l) \/ ReadState(l)
    BY <1>1, SameHands DEF ActiveMarkets, Timer, WakeUp, ReadState, conns
<1>2. CASE \E m \in Market : PollMarket(l, m)
    BY <1>2, SameHands DEF PollMarket, conns
<1>3. CASE HandleBaseline(l) \/ QueryPage(l) \/ HandlePollItems(l) \/ PageDone(l)
    BY <1>3, SameHands DEF HandleBaseline, QueryPage, HandlePollItems, PageDone, conns
<1>4. CASE HandlePollError(l)
    <2>1. received'[t] = received[t]
        BY <1>4 DEF HandlePollError
    <2>2. messages'[t] = messages[t] \/ messages'[t] = Append(messages[t], ErrorMessage)
        BY <1>4 DEF HandlePollError, Broadcast, TypeOK
    <2> QED BY <2>1, <2>2, SameHands, AppendedError
<1> QED BY <1>1, <1>2, <1>3, <1>4 DEF PollLoop

\* The watchers of a market after a step of the loop are among those before,
\* and a market that has one has a state.
LEMMA LoopWatchers ==
    ASSUME HubInv, HubInv', NEW l \in Subscriber, PollLoop(l), NEW m \in Market,
           NEW t \in Watchers(m)'
    PROVE  t \in Subscriber /\ t \in Watchers(m) /\ states[m] # NoState /\ states'[m] # NoState
<1>1. TypeOK /\ RegistryConsistent /\ RegistryConsistent'
    BY DEF HubInv, RegistryInv
<1>2. targets' = targets /\ subscribers' \subseteq subscribers
    BY <1>1, LoopFrame
<1>3. t \in Watchers(m)
    BY <1>2 DEF Watchers, Watches
<1>4. t \in Subscriber
    BY <1>1, <1>3 DEF TypeOK, Watchers
<1> QED BY <1>1, <1>3, <1>4 DEF RegistryConsistent

\* What a loop knows of the hands of a connection survives an error event.
LEMMA HandAtKept ==
    ASSUME NEW lp \in LoopState, NEW S \in SUBSET Message, NEW T, T \subseteq S \cup {ErrorMessage},
           NEW d, HandAt(lp, S, d)
    PROVE  HandAt(lp, T, d)
<1>1. lp.start \in Nat /\ lp.items \in Seq(Item)
    BY LoopMoves
<1>2. lp.items # <<>> => lp.items[1].index \in Int
    <2>1. lp.items # <<>> => 1 \in 1..Len(lp.items)
        BY <1>1, LenProperties, EmptySeq
    <2> QED BY <1>1, <2>1, ItemIndex
<1>3. \A n \in Int : Before(S, lp.market, n, d) => Before(T, lp.market, n, d)
    BY BeforeKept
<1>4. lp.start \in Int /\ 0 \in Int
    BY <1>1
<1> QED BY <1>2, <1>3, <1>4 DEF HandAt

\* As long as hands are kept and neither day nor list changes, so are the parts
\* of OrderInv that are not about a cursor.
LEMMA HandsKeptParts ==
    ASSUME TypeOK, OrderInv, UNCHANGED external, \A t \in Subscriber : HandsKept(t)
    PROVE  DaysInv' /\ EndInv' /\ SortedInv'
<1>1. DaysInv'
    <2>1. ErrorMessage.event # "unusual"
        BY DEF ErrorMessage
    <2> QED BY <2>1 DEF OrderInv, DaysInv, HandsKept, external
<1>2. EndInv'
    <2> SUFFICES ASSUME NEW t \in Subscriber, NEW m \in Market
                 PROVE Before(InHand(t)', m, Len(feed[m]), day)
        BY DEF EndInv, external
    <2>1. InHand(t) \subseteq Message /\ Len(feed[m]) \in Int
        BY InHandType, LenProperties DEF TypeOK
    <2>2. InHand(t)' \subseteq InHand(t) \cup {ErrorMessage}
        BY DEF HandsKept
    <2>3. Before(InHand(t), m, Len(feed[m]), day)
        BY DEF OrderInv, EndInv
    <2> HIDE DEF InHand
    <2> QED BY <2>1, <2>2, <2>3, BeforeKept
<1>3. SortedInv'
    BY DEF OrderInv, SortedInv, HandsKept, external
<1> QED BY <1>1, <1>2, <1>3

\* subscribe, ServeHTTP and unsubscribe keep OrderInv.
LEMMA ConnectionOrder ==
    ASSUME HubInv, HubInv', CursorInv, OrderInv, NEW s \in Subscriber, Connection(s)
    PROVE  OrderInv'
<1>0. TypeOK /\ UNCHANGED external /\ RegistryConsistent' /\ TypeOK'
    BY ConnectionStates DEF HubInv, RegistryInv
<1>1. \A t \in Subscriber :
         /\ HandsKept(t)
         /\ \/ \A m \in Market : t \in Watchers(m)' => t \in Watchers(m)
            \/ InHand(t)' \subseteq {ErrorMessage}
    BY ConnectionHands
<1>2. DaysInv' /\ EndInv' /\ SortedInv'
    BY <1>0, <1>1, HandsKeptParts
<1>3. NextInv'
    <2> SUFFICES ASSUME NEW m \in Market, NEW t \in Watchers(m)', states'[m].initialized
                 PROVE Before(InHand(t)', m, states'[m].nextStart, day)
        BY <1>0 DEF NextInv, external
    <2>1. states'[m] # NoState /\ t \in Subscriber
        BY <1>0 DEF RegistryConsistent, TypeOK, Watchers
    <2>2. states'[m] = states[m] /\ states[m] \in MarketState
        BY <1>0, <2>1, ConnectionStates, StateTypes DEF TypeOK
    <2>3. CASE t \in Watchers(m)
        <3>1. Before(InHand(t), m, states[m].nextStart, day)
            BY <2>2, <2>3 DEF OrderInv, NextInv
        <3>2. InHand(t) \subseteq Message /\ InHand(t)' \subseteq InHand(t) \cup {ErrorMessage}
            BY <1>0, <1>1, <2>1, InHandType DEF HandsKept
        <3>3. states[m].nextStart \in Int
            BY <2>2 DEF MarketState
        <3> QED BY <2>2, <3>1, <3>2, <3>3, BeforeKept
    <2>4. CASE InHand(t)' \subseteq {ErrorMessage}
        BY <2>4, NothingBefore
    <2> QED BY <1>1, <2>1, <2>3, <2>4
<1>4. HandInv'
    <2> SUFFICES ASSUME NEW l \in Subscriber, Polling(l)', NEW m, m = loop'[l].market,
                        NEW t \in Watchers(m)'
                 PROVE HandAt(loop'[l], InHand(t)', day)
        BY <1>0 DEF HandInv, external
    <2>1. loop'[l] = loop[l] \/ loop'[l].pc = "top"
        BY <1>0, ConnectionFrame
    <2>2. loop'[l] = loop[l] /\ Polling(l)
        BY <2>1 DEF Polling
    <2>3. loop[l] \in LoopState /\ m \in Market /\ m = loop[l].market /\ t \in Subscriber
        BY <2>2, <1>0, LoopMoves DEF Polling, TypeOK, Watchers
    <2>4. CASE t \in Watchers(m)
        <3>1. HandAt(loop[l], InHand(t), day)
            BY <2>2, <2>3, <2>4 DEF OrderInv, HandInv
        <3>2. InHand(t) \subseteq Message /\ InHand(t)' \subseteq InHand(t) \cup {ErrorMessage}
            BY <1>0, <1>1, <2>3, InHandType DEF HandsKept
        <3> QED BY <2>2, <2>3, <3>1, <3>2, HandAtKept
    <2>5. CASE InHand(t)' \subseteq {ErrorMessage}
        <3>1. \A k, n, d : Before(InHand(t)', k, n, d)
            BY <2>5, NothingBefore
        <3> QED BY <3>1 DEF HandAt
    <2> QED BY <1>1, <2>2, <2>3, <2>4, <2>5
<1> QED BY <1>2, <1>3, <1>4 DEF OrderInv

\* What is left to show of a step of the loop that is no fan-out: where the
\* cursors are, against what is in hand before the step.
LEMMA LoopOrderParts ==
    ASSUME HubInv, HubInv', CursorInv, OrderInv, NEW l \in Subscriber, PollLoop(l), ~FanOutItem(l),
           \A m \in Market : \A t \in Watchers(m) :
              states[m] # NoState /\ states'[m] # NoState /\ states'[m].initialized
                => Before(InHand(t), m, states'[m].nextStart, day),
           Polling(l)' => \A t \in Watchers(loop'[l].market) : HandAt(loop'[l], InHand(t), day)
    PROVE  OrderInv'
<1>0. TypeOK /\ TypeOK' /\ UNCHANGED external
    BY LoopOutside DEF HubInv, RegistryInv
<1>1. \A t \in Subscriber : HandsKept(t) /\ InHand(t) \subseteq Message
    BY <1>0, LoopHands, InHandType
<1>2. DaysInv' /\ EndInv' /\ SortedInv'
    BY <1>0, <1>1, HandsKeptParts
<1>3. NextInv'
    <2> SUFFICES ASSUME NEW m \in Market, NEW t \in Watchers(m)', states'[m].initialized
                 PROVE Before(InHand(t)', m, states'[m].nextStart, day)
        BY <1>0 DEF NextInv, external
    <2>1. t \in Subscriber /\ t \in Watchers(m) /\ states[m] # NoState /\ states'[m] # NoState
        BY LoopWatchers
    <2>2. states'[m].nextStart \in Int
        BY <1>0, <2>1 DEF TypeOK, MarketState
    <2>3. Before(InHand(t), m, states'[m].nextStart, day)
        BY <2>1
    <2>4. InHand(t) \subseteq Message /\ InHand(t)' \subseteq InHand(t) \cup {ErrorMessage}
        BY <1>1, <2>1 DEF HandsKept
    <2> QED BY <2>2, <2>3, <2>4, BeforeKept
<1>4. HandInv'
    <2> SUFFICES ASSUME Polling(l)', NEW m, m = loop'[l].market, NEW t \in Watchers(m)'
                 PROVE HandAt(loop'[l], InHand(t)', day)
        BY <1>0, OnlyLoop DEF HandInv, external
    <2>1. loop'[l] \in LoopState /\ m \in Market
        <3>1. loop'[l] \in LoopState
            BY <1>0 DEF TypeOK
        <3> QED BY <3>1, LoopMoves DEF Polling
    <2>2. t \in Subscriber /\ t \in Watchers(m)
        BY <2>1, LoopWatchers
    <2>3. HandAt(loop'[l], InHand(t), day)
        BY <2>2
    <2>4. InHand(t) \subseteq Message /\ InHand(t)' \subseteq InHand(t) \cup {ErrorMessage}
        BY <1>1, <2>2 DEF HandsKept
    <2> QED BY <2>1, <2>3, <2>4, HandAtKept
<1> QED BY <1>2, <1>3, <1>4 DEF OrderInv

\* A cursor that stays where it was is still past what is in hand.
LEMMA SameCursorNext ==
    ASSUME OrderInv, NEW m \in Market, NEW t \in Watchers(m), states[m] # NoState,
           SameCursor(states[m], states'[m]), states'[m].initialized
    PROVE  Before(InHand(t), m, states'[m].nextStart, day)
BY DEF SameCursor, OrderInv, NextInv

\* The steps of the loop that leave the states of the markets alone keep OrderInv.
LEMMA QuietOrder ==
    ASSUME HubInv, HubInv', CursorInv, OrderInv, NEW l \in Subscriber, PollLoop(l),
           \/ ActiveMarkets(l) \/ Timer(l) \/ WakeUp(l) \/ ReadState(l) \/ QueryPage(l)
           \/ PageDone(l) \/ HandlePollError(l) \/ \E m \in Market : PollMarket(l, m)
    PROVE  OrderInv'
<1> DEFINE lp == loop[l]
           m == lp.market
           st == states[m]
<1>0. TypeOK /\ lp \in LoopState /\ loop \in [Subscriber -> LoopState] /\ day \in 1..MaxDay
    BY DEF HubInv, RegistryInv, TypeOK
<1>1. ~FanOutItem(l)
    BY DEF ActiveMarkets, Timer, WakeUp, Waiting, ReadState, QueryPage, PageDone,
           HandlePollError, PollMarket, FanOutItem
<1>2. \A k \in Market : states[k] # NoState /\ states'[k] # NoState => SameCursor(states[k], states'[k])
    <2>1. CASE HandlePollError(l)
        BY <2>1, <1>0, PollErrorStates
    <2>2. CASE states' = states
        BY <2>2 DEF SameCursor
    <2> QED BY <2>1, <2>2 DEF ActiveMarkets, Timer, WakeUp, ReadState, QueryPage, PageDone,
                              PollMarket, registry
<1>3. \A k \in Market : \A t \in Watchers(k) :
        states[k] # NoState /\ states'[k] # NoState /\ states'[k].initialized
          => Before(InHand(t), k, states'[k].nextStart, day)
    BY <1>2, SameCursorNext
<1>4. Polling(l)' => \A t \in Watchers(loop'[l].market) : HandAt(loop'[l], InHand(t), day)
    <2>1. CASE ActiveMarkets(l) \/ Timer(l) \/ WakeUp(l) \/ HandlePollError(l)
        <3>1. loop'[l].pc \in {"none", "next", "top"}
            BY <2>1, <1>0, LoopTypes DEF ActiveMarkets, Timer, WakeUp, HandlePollError,
                                         LoopState, LoopLocals
        <3> QED BY <3>1 DEF Polling
    <2>2. CASE \E k \in Market : PollMarket(l, k)
        <3>1. loop'[l].pc = "read" /\ loop'[l].today = day
            <4>1. PICK k \in Market : PollMarket(l, k)
                BY <2>2
            <4> QED BY <4>1, <1>0 DEF PollMarket, LoopState, LoopLocals
        <3> QED BY <3>1, <1>0 DEF HandAt
    <2>3. CASE ReadState(l)
        <3>1. Polling(l) /\ lp.pc = "read"
            BY <2>3 DEF ReadState, Polling
        <3>2. \/ loop'[l] = BetweenMarkets(lp)
              \/ loop'[l] = [lp EXCEPT !.pc = "tail", !.start = Len(feed[m])]
              \/ loop'[l] = [lp EXCEPT !.pc = "query", !.start = st.nextStart]
            BY <2>3, <1>0 DEF ReadState
        <3>3. \/ loop'[l].pc \in {"next", "query"}
              \/ /\ loop'[l].pc = "tail" /\ loop'[l].start = Len(feed[m])
                 /\ loop'[l].market = m /\ loop'[l].today = lp.today
            BY <3>2, <1>0, LoopTypes DEF LoopState, LoopLocals
        <3>4. m \in Market
            BY <3>1, AtMarket
        <3>5. \A t \in Watchers(m) : /\ t \in Subscriber /\ HandAt(lp, InHand(t), day)
                                     /\ Before(InHand(t), m, Len(feed[m]), day)
            BY <1>0, <3>1, <3>4 DEF OrderInv, HandInv, EndInv, TypeOK, Watchers
        <3> QED BY <3>1, <3>3, <3>5 DEF HandAt, Polling
    <2>4. CASE QueryPage(l)
        <3>1. loop'[l].pc = "handle"
            <4> DEFINE items == Page(m, lp.start)
            <4>1. loop' = [loop EXCEPT ![l].pc = "handle", ![l].items = items,
                                       ![l].full = (Len(items) >= PageSize)]
                BY <2>4 DEF QueryPage
            <4> HIDE DEF items
            <4> QED BY <4>1, <1>0 DEF LoopState, LoopLocals
        <3> QED BY <3>1 DEF HandAt
    <2>5. CASE PageDone(l)
        <3>1. loop'[l].pc \in {"next", "query"}
            BY <2>5, <1>0, LoopTypes DEF PageDone, LoopState, LoopLocals
        <3> QED BY <3>1 DEF HandAt, Polling
    <2> QED BY <2>1, <2>2, <2>3, <2>4, <2>5
<1> QED BY <1>1, <1>3, <1>4, LoopOrderParts

\* handleBaseline keeps OrderInv: a new baseline is behind whatever was handed on.
LEMMA BaselineOrder ==
    ASSUME HubInv, HubInv', CursorInv, OrderInv, NEW l \in Subscriber, HandleBaseline(l)
    PROVE  OrderInv'
<1> DEFINE lp == loop[l]
           m == lp.market
           st == states[m]
<1>0. TypeOK /\ PollLoop(l) /\ Polling(l) /\ lp.pc = "tail" /\ loop \in [Subscriber -> LoopState]
    BY DEF HubInv, RegistryInv, TypeOK, PollLoop, Polling, HandleBaseline
<1>1. /\ m \in Market /\ PollAt(lp, st, feed[m], day) /\ lp.start \in Nat /\ lp.today \in 0..MaxDay
      /\ day \in Nat /\ Len(feed[m]) \in Nat
    BY <1>0, AtMarket, LenProperties DEF TypeOK
<1>2. loop'[l].pc = "next" /\ ~FanOutItem(l)
    BY <1>0, LoopTypes DEF HandleBaseline, FanOutItem
<1>3. ASSUME NEW k \in Market, NEW t \in Watchers(k), states[k] # NoState, states'[k] # NoState,
             states'[k].initialized
      PROVE  Before(InHand(t), k, states'[k].nextStart, day)
    <2>1. CASE states'[k] = states[k]
        BY <1>3, <2>1 DEF OrderInv, NextInv
    <2>2. CASE states'[k] # states[k]
        <3>1. PICK n \in Tails(l) :
                states' = [states EXCEPT ![m] =
                       [date |-> loop[l].today, initialized |-> TRUE, inError |-> FALSE,
                        nextStart |-> n, seen |-> {}]]
            BY <2>2 DEF HandleBaseline
        <3>2. k = m /\ states'[k].nextStart = n
            BY <3>1, <2>2, <1>0 DEF TypeOK
        <3>3. InHand(t) \in SUBSET Message /\ HandAt(lp, InHand(t), day)
            BY <1>0, <1>3, <3>2, InHandType DEF OrderInv, HandInv, TypeOK, Watchers
        <3>4. n \in Nat /\ (lp.today = day => lp.start <= n)
            BY <1>1, HubAssumption DEF Tails
        <3>5. lp.today < day \/ lp.today = day
            BY <1>1 DEF PollAt
        <3>6. CASE lp.today < day
            <4>1. Before(InHand(t), m, 0, day)
                BY <1>0, <3>3, <3>6 DEF HandAt
            <4>2. 0 <= n /\ 0 \in Int /\ n \in Int
                BY <3>4
            <4> QED BY <3>2, <3>3, <4>1, <4>2, BeforeKept
        <3>7. CASE lp.today = day
            <4>1. Before(InHand(t), m, lp.start, day)
                BY <1>0, <3>3, <3>7 DEF HandAt
            <4>2. lp.start <= n /\ lp.start \in Int /\ n \in Int
                BY <1>1, <3>4, <3>7
            <4> QED BY <3>2, <3>3, <4>1, <4>2, BeforeKept
        <3> QED BY <3>5, <3>6, <3>7
    <2> QED BY <2>1, <2>2
<1> QED BY <1>0, <1>2, <1>3, LoopOrderParts DEF Polling

\* handlePollItems keeps OrderInv: the page begins where the cursor was.
LEMMA PollItemsOrder ==
    ASSUME HubInv, HubInv', CursorInv, OrderInv, NEW l \in Subscriber, HandlePollItems(l)
    PROVE  OrderInv'
<1> DEFINE lp == loop[l]
           m == lp.market
           st == states[m]
           n == NextStart(lp.start, lp.items)
           new == [st EXCEPT !.inError = FALSE, !.nextStart = n]
<1>0. /\ TypeOK /\ PollLoop(l) /\ Polling(l) /\ lp.pc = "handle" /\ ~FanOutItem(l)
      /\ states \in [Market -> MarketState \cup {NoState}]
    BY DEF HubInv, RegistryInv, TypeOK, PollLoop, Polling, HandlePollItems, FanOutItem
<1>1. /\ lp \in LoopState /\ m \in Market /\ lp.start \in Nat /\ lp.items \in Seq(Item)
      /\ PollAt(lp, st, feed[m], day) /\ (st # NoState => st \in MarketState)
    BY <1>0, AtMarket
<1>2. CASE states' = states /\ loop'[l] = BetweenMarkets(lp)
    <2>1. ~Polling(l)'
        BY <1>1, <1>2, LoopTypes DEF Polling
    <2>2. \A k \in Market : \A t \in Watchers(k) :
            states'[k].initialized => Before(InHand(t), k, states'[k].nextStart, day)
        BY <1>2 DEF OrderInv, NextInv
    <2> QED BY <1>0, <2>1, <2>2, LoopOrderParts
<1>3. CASE /\ st # NoState /\ st.initialized /\ st.date = lp.today /\ st.nextStart = lp.start
           /\ loop'[l] = [lp EXCEPT !.pc = "fanout"]
           /\ states' = [states EXCEPT ![m] = new]
    <2>1. lp.items # <<>> => lp.items[1].index = lp.start
        BY <1>0, <1>1 DEF PollAt
    <2>2. n \in Int /\ lp.start <= n /\ lp.start \in Int
        <3>1. n \in Nat /\ n >= lp.start + Len(lp.items) /\ Len(lp.items) \in Nat
            BY <1>1, NextStartType, LenProperties
        <3> HIDE DEF n
        <3> QED BY <1>1, <3>1
    <2> HIDE DEF n
    <2>3. new.nextStart = n
        BY <1>1, <1>3 DEF MarketState
    <2>4. states'[m] = new /\ \A k \in Market : k # m => states'[k] = states[k]
        BY <1>0, <1>1, <1>3
    <2>5. loop'[l].pc = "fanout" /\ loop'[l].market = m /\ loop'[l].items = lp.items
        BY <1>1, <1>3 DEF LoopState, LoopLocals
    <2>6. \A t \in Watchers(m) : /\ InHand(t) \in SUBSET Message
                                 /\ Before(InHand(t), m, lp.start, day)
        BY <1>0, <1>1, <1>3, InHandType DEF OrderInv, NextInv, TypeOK, Watchers
    <2>7. \A t \in Watchers(m) : Before(InHand(t), m, n, day)
        BY <2>2, <2>6, BeforeKept
    <2> HIDE DEF new
    <2>8. \A k \in Market : \A t \in Watchers(k) :
            states'[k].initialized => Before(InHand(t), k, states'[k].nextStart, day)
        BY <2>3, <2>4, <2>7 DEF OrderInv, NextInv
    <2>9. \A t \in Watchers(loop'[l].market) : HandAt(loop'[l], InHand(t), day)
        BY <2>1, <2>5, <2>6 DEF HandAt
    <2> QED BY <1>0, <2>8, <2>9, LoopOrderParts
<1> QED BY <1>0, <1>2, <1>3, PollItemsStates

\* Before, when one more event is given.
LEMMA BeforeWith ==
    ASSUME NEW S \in SUBSET Message, NEW x, NEW T, T \subseteq S \cup {x},
           NEW m, NEW d, NEW n \in Int, NEW k \in Int, n <= k, Before(S, m, n, d),
           OfDay(x, m, d) => x.item.index < k
    PROVE  Before(T, m, k, d)
<1>1. Before(S, m, k, d)
    BY BeforeKept
<1> QED BY <1>1 DEF Before

\* A turn of the fan-out gives the first item of the page, or nothing.
LEMMA FanOutHands ==
    ASSUME TypeOK, NEW l \in Subscriber, FanOutItem(l), NEW t \in Subscriber
    PROVE  LET m  == loop[l].market
               it == Head(loop[l].items)
           IN /\ received'[t] = received[t]
              /\ \/ messages'[t] = messages[t]
                 \/ /\ t \in subscribers /\ <<m, it.code>> \in targets[t]
                    /\ messages'[t] = Append(messages[t], UnusualMessage(m, it))
<1> DEFINE m == loop[l].market
           it == Head(loop[l].items)
           key == <<it.code, it.index>>
           audience == {s \in subscribers : <<m, it.code>> \in targets[s]}
           marked == IF states[m] = NoState THEN states ELSE [states EXCEPT ![m].seen = @ \cup {key}]
<1>1. received' = received
    BY DEF FanOutItem
<1>2. messages' = messages \/ Broadcast(audience, UnusualMessage(m, it), marked)
    BY DEF FanOutItem
<1> HIDE DEF marked
<1> QED BY <1>1, <1>2 DEF Broadcast, TypeOK

\* A turn of the fan-out keeps OrderInv: its event comes after all in hand.
LEMMA FanOutOrder ==
    ASSUME HubInv, HubInv', CursorInv, OrderInv, NEW l \in Subscriber, FanOutItem(l)
    PROVE  OrderInv'
<1> DEFINE lp == loop[l]
           m == lp.market
           st == states[m]
           it == Head(lp.items)
           i == lp.items[1].index
           x == UnusualMessage(m, it)
           rest == Tail(lp.items)
<1>0. /\ TypeOK /\ TypeOK' /\ PollLoop(l) /\ Polling(l) /\ lp.pc = "fanout" /\ lp.items # <<>>
      /\ UNCHANGED external /\ RegistryConsistent
    BY LoopOutside DEF HubInv, RegistryInv, PollLoop, Polling, FanOutItem
<1>1. /\ lp \in LoopState /\ m \in Market /\ lp.items \in Seq(Item)
      /\ PollAt(lp, st, feed[m], day)
    BY <1>0, AtMarket
<1>2. /\ it = lp.items[1] /\ Len(rest) \in Nat /\ Len(rest) + 1 = Len(lp.items)
      /\ IsPage(lp.items, feed[m], day)
      /\ rest # <<>> => rest[1].index = i + 1
    BY <1>0, <1>1, PageTail DEF PollAt
<1>3. /\ i \in Nat /\ it.day <= day /\ (it.day = day => i < Len(feed[m]))
    <2>1. 1 \in 1..Len(lp.items)
        BY <1>2
    <2>2. i \in Nat /\ 1 \in DOMAIN lp.items
        BY <2>1, <1>1, ItemIndex, LenProperties
    <2> QED BY <1>2, <2>2 DEF IsPage
<1>4. /\ x.event = "unusual" /\ x.item = it /\ x.item.index = i
      /\ \A k, d : OfDay(x, k, d) => k = m /\ d = it.day
    BY <1>2 DEF UnusualMessage, OfDay
<1>5. loop'[l].pc = "fanout" /\ loop'[l].market = m /\ loop'[l].items = rest
    <2>1. loop'[l] = [lp EXCEPT !.items = rest]
        BY FanOutStates
    <2> HIDE DEF rest
    <2> QED BY <2>1, <1>0, <1>1 DEF LoopState, LoopLocals
<1>6. st # NoState => st.nextStart = i + Len(lp.items)
    BY <1>0, <1>1 DEF PollAt
<1>7. \A t \in Watchers(m) : t \in Subscriber /\ st # NoState /\ Before(InHand(t), m, i, day)
    BY <1>0, <1>1 DEF OrderInv, HandInv, HandAt, RegistryConsistent, TypeOK, Watchers
<1>8. ASSUME NEW t \in Subscriber
      PROVE  /\ received'[t] = received[t] /\ InHand(t) \in SUBSET Message
             /\ \/ messages'[t] = messages[t] /\ InHand(t)' = InHand(t)
                \/ /\ t \in Watchers(m) /\ messages'[t] = Append(messages[t], x)
                   /\ InHand(t)' = InHand(t) \cup {x}
    <2>1. /\ received'[t] = received[t]
          /\ \/ messages'[t] = messages[t]
             \/ /\ t \in subscribers /\ <<m, it.code>> \in targets[t]
                /\ messages'[t] = Append(messages[t], x)
        BY <1>0, FanOutHands
    <2>2. <<m, it.code>> \in targets[t] => Watches(t, m)
        BY DEF Watches, MarketsOf
    <2>3. messages[t] \in Seq(Message) /\ InHand(t) \in SUBSET Message
        BY <1>0, InHandType
    <2> HIDE DEF x
    <2>4. Elements(Append(messages[t], x)) = Elements(messages[t]) \cup {x}
        BY <2>3, ElementsAppend
    <2> QED BY <2>1, <2>2, <2>3, <2>4 DEF InHand, Watchers
<1> HIDE DEF x, it, rest
<1>9. ASSUME NEW t \in Subscriber, NEW k, NEW n \in Int, NEW q \in Int, n <= q,
             Before(InHand(t), k, n, day),
             t \in Watchers(m) /\ OfDay(x, k, day) => i < q
      PROVE  Before(InHand(t)', k, q, day)
    <2>1. CASE InHand(t)' = InHand(t)
        BY <1>8, <1>9, <2>1, BeforeKept
    <2>2. CASE t \in Watchers(m) /\ InHand(t)' = InHand(t) \cup {x}
        <3>1. OfDay(x, k, day) => x.item.index < q
            BY <1>4, <1>9, <2>2
        <3> QED BY <1>8, <1>9, <2>2, <3>1, BeforeWith
    <2> QED BY <1>8, <2>1, <2>2
<1>10. DaysInv'
    <2>1. day' = day
        BY <1>0 DEF external
    <2> QED BY <1>3, <1>4, <1>8, <2>1 DEF OrderInv, DaysInv
<1>11. EndInv'
    <2> SUFFICES ASSUME NEW t \in Subscriber, NEW k \in Market
                 PROVE Before(InHand(t)', k, Len(feed[k]), day)
        BY <1>0 DEF EndInv, external
    <2>1. Len(feed[k]) \in Int /\ Before(InHand(t), k, Len(feed[k]), day)
        BY <1>0, LenProperties DEF TypeOK, OrderInv, EndInv
    <2>2. OfDay(x, k, day) => i < Len(feed[k])
        BY <1>3, <1>4
    <2>3. PICK n \in Int : n = Len(feed[k])
        BY <2>1
    <2>4. n <= n /\ Before(InHand(t), k, n, day) /\ (OfDay(x, k, day) => i < n)
        BY <2>1, <2>2, <2>3
    <2>5. Before(InHand(t)', k, n, day)
        BY <1>9, <2>4
    <2> QED BY <2>3, <2>5
<1>12. NextInv'
    <2> SUFFICES ASSUME NEW k \in Market, NEW t \in Watchers(k)', states'[k].initialized
                 PROVE Before(InHand(t)', k, states'[k].nextStart, day)
        BY <1>0 DEF NextInv, external
    <2>1. t \in Subscriber /\ t \in Watchers(k) /\ states[k] # NoState /\ states'[k] # NoState
        BY <1>0, LoopWatchers
    <2>2. states[k] \in MarketState
        BY <1>0, <2>1 DEF TypeOK
    <2>3. /\ states'[k].nextStart = states[k].nextStart
          /\ states'[k].initialized = states[k].initialized
        <3> DEFINE key == <<it.code, it.index>>
        <3>1. \/ states'[k] = states[k]
              \/ states'[k] = [states[k] EXCEPT !.seen = @ \cup {key}]
            BY <2>1, FanOutStates DEF it
        <3> HIDE DEF key
        <3> QED BY <2>2, <3>1 DEF MarketState
    <2>4. states[k].nextStart \in Int
        BY <2>2 DEF MarketState
    <2>5. Before(InHand(t), k, states[k].nextStart, day)
        BY <2>1, <2>3 DEF OrderInv, NextInv
    <2>6. OfDay(x, k, day) => i < states[k].nextStart
        <3>1. Len(lp.items) \in Nat /\ Len(lp.items) >= 1
            BY <1>2
        <3>2. \A a, b \in Nat : b >= 1 => a < a + b
            OBVIOUS
        <3>3. i < i + Len(lp.items)
            BY <1>3, <3>1, <3>2
        <3> QED BY <1>4, <1>6, <2>1, <3>3
    <2> QED BY <1>9, <2>1, <2>3, <2>4, <2>5, <2>6
<1>13. HandInv'
    <2> SUFFICES ASSUME Polling(l)', NEW k, k = m, NEW t \in Watchers(k)'
                 PROVE HandAt(loop'[l], InHand(t)', day)
        BY <1>0, <1>5, OnlyLoop DEF HandInv, external
    <2>1. t \in Subscriber /\ t \in Watchers(m)
        BY <1>0, <1>1, LoopWatchers
    <2>2. Before(InHand(t), m, i, day) /\ i \in Int /\ i + 1 \in Int /\ i <= i + 1 /\ i < i + 1
        BY <1>3, <1>7, <2>1
    <2>3. Before(InHand(t)', m, i + 1, day)
        BY <1>9, <2>1, <2>2
    <2> QED BY <1>2, <1>5, <2>3 DEF HandAt
<1>14. SortedInv'
    <2> SUFFICES ASSUME NEW t \in Subscriber, NEW k \in Market
                 PROVE Sorted(received'[t], messages'[t], k, day)
        BY <1>0 DEF SortedInv, external
    <2>1. Sorted(received[t], messages[t], k, day)
        BY DEF OrderInv, SortedInv
    <2>2. CASE messages'[t] = messages[t]
        BY <1>8, <2>1, <2>2
    <2>3. CASE t \in Watchers(m) /\ messages'[t] = Append(messages[t], x)
        <3>1. received[t] \in Seq(Message) /\ messages[t] \in Seq(Message)
            BY <1>0, InHandType
        <3>2. OfDay(x, k, day) => Before(Elements(received[t]) \cup Elements(messages[t]),
                                         k, x.item.index, day)
            BY <1>4, <1>7, <2>3 DEF InHand
        <3> QED BY <1>8, <2>1, <2>3, <3>1, <3>2, SortedAppend
    <2> QED BY <1>8, <2>2, <2>3
<1> QED BY <1>10, <1>11, <1>12, <1>13, <1>14 DEF OrderInv

\* At midnight nothing is of today yet.
LEMMA EnvironmentOrder ==
    ASSUME HubInv, HubInv', CursorInv, OrderInv, Environment
    PROVE  OrderInv'
<1>0. TypeOK /\ TypeOK' /\ day \in Nat
    BY DEF HubInv, RegistryInv, TypeOK
<1>1. /\ UNCHANGED <<subscribers, targets, received, messages, states, loop>>
      /\ \A t \in Subscriber : InHand(t)' = InHand(t) /\ InHand(t) \in SUBSET Message
      /\ \A m \in Market : Watchers(m)' = Watchers(m)
    <2>1. UNCHANGED <<subscribers, targets, received, messages, states, loop>>
        BY DEF Environment, Publish, Midnight, registry, conns
    <2>2. \A t \in Subscriber : InHand(t)' = InHand(t) /\ InHand(t) \in SUBSET Message
        BY <1>0, <2>1, InHandType DEF InHand
    <2> QED BY <2>1, <2>2 DEF Watchers, Watches
<1>2. CASE Midnight
    <2>1. day' = day + 1
        BY <1>2 DEF Midnight
    <2>2. DaysInv'
        <3>1. \A t \in Subscriber : \A x \in InHand(t) :
                x.event = "unusual" => x.item.day \in Nat /\ x.item.day <= day
            BY <1>1, MessageFields DEF OrderInv, DaysInv
        <3>2. \A a \in Nat : a <= day => a <= day'
            BY <1>0, <2>1
        <3> QED BY <1>1, <3>1, <3>2 DEF DaysInv
    <2>3. \A t \in Subscriber : \A x \in InHand(t) : \A m : ~OfDay(x, m, day')
        <3>1. \A t \in Subscriber : \A x \in InHand(t) :
                x.event = "unusual" => x.item.day \in Nat /\ x.item.day <= day
            BY <1>1, MessageFields DEF OrderInv, DaysInv
        <3>2. \A a \in Nat : a <= day => a # day'
            BY <1>0, <2>1
        <3> QED BY <3>1, <3>2 DEF OfDay
    <2>4. \A t \in Subscriber : \A m, n : Before(InHand(t), m, n, day')
        BY <2>3 DEF Before
    <2>5. EndInv' /\ NextInv' /\ HandInv'
        <3>1. \A m : Watchers(m)' \subseteq Subscriber
            BY <1>0 DEF Watchers, TypeOK
        <3> QED BY <1>1, <2>4, <3>1 DEF EndInv, NextInv, HandInv, HandAt
    <2>6. SortedInv'
        <3> SUFFICES ASSUME NEW t \in Subscriber, NEW m \in Market
                     PROVE Sorted(received[t], messages[t], m, day')
            BY <1>1 DEF SortedInv
        <3>1. \A x \in Elements(received[t]) \cup Elements(messages[t]) : ~OfDay(x, m, day')
            BY <2>3 DEF InHand
        <3>2. /\ \A a \in DOMAIN received[t] : received[t][a] \in Elements(received[t])
              /\ \A a \in DOMAIN messages[t] : messages[t][a] \in Elements(messages[t])
            BY DEF Elements
        <3> QED BY <3>1, <3>2 DEF Sorted, InOrder
    <2> QED BY <2>2, <2>5, <2>6 DEF OrderInv
<1>3. ASSUME NEW k \in Market, NEW c \in Code, Publish(k, c) PROVE OrderInv'
    <2>1. day' = day /\ feed' = [feed EXCEPT ![k] = Append(@, c)]
        BY <1>3 DEF Publish
    <2>2. DaysInv' /\ NextInv' /\ SortedInv'
        <3>1. DaysInv' /\ SortedInv'
            BY <1>1, <2>1 DEF OrderInv, DaysInv, SortedInv
        <3>2. \A m : \A t \in Watchers(m) : t \in Subscriber
            BY <1>0 DEF Watchers, TypeOK
        <3>3. NextInv'
            BY <1>1, <2>1, <3>2 DEF OrderInv, NextInv
        <3> QED BY <3>1, <3>3
    <2>3. HandInv'
        <3>1. \A l \in Subscriber : Polling(l)' => Polling(l) /\ loop'[l].market \in Market
            BY <1>0, <1>1, LoopMoves DEF Polling, TypeOK
        <3>2. \A m : \A t \in Watchers(m) : t \in Subscriber
            BY <1>0 DEF Watchers, TypeOK
        <3> SUFFICES ASSUME NEW l \in Subscriber, Polling(l)', NEW m, m = loop'[l].market,
                            NEW t \in Watchers(m)'
                     PROVE HandAt(loop'[l], InHand(t)', day)
            BY <2>1 DEF HandInv
        <3>3. m \in Market /\ t \in Watchers(m) /\ t \in Subscriber /\ Polling(l)
            BY <1>1, <3>1, <3>2
        <3>4. HandAt(loop[l], InHand(t), day)
            BY <1>1, <3>3 DEF OrderInv, HandInv
        <3> QED BY <1>1, <3>3, <3>4
    <2>4. EndInv'
        <3> SUFFICES ASSUME NEW t \in Subscriber, NEW m \in Market
                     PROVE Before(InHand(t), m, Len(feed'[m]), day)
            BY <1>1, <2>1 DEF EndInv
        <3>1. Len(feed[m]) \in Int /\ Len(feed'[m]) \in Int
            BY <1>0, LenProperties DEF TypeOK
        <3>2. Len(feed[m]) <= Len(feed'[m])
            <4>1. CASE m # k
                <5>1. feed'[m] = feed[m]
                    BY <1>0, <2>1, <4>1 DEF TypeOK
                <5> QED BY <3>1, <5>1
            <4>2. CASE m = k
                <5>1. feed'[m] = Append(feed[m], c) /\ feed[m] \in Seq(Code)
                    BY <1>0, <2>1, <4>2 DEF TypeOK
                <5>2. Len(Append(feed[m], c)) = Len(feed[m]) + 1
                    BY <5>1, AppendProperties
                <5> QED BY <3>1, <5>1, <5>2
            <4> QED BY <4>1, <4>2
        <3>3. Before(InHand(t), m, Len(feed[m]), day)
            BY DEF OrderInv, EndInv
        <3>4. PICK a \in Int, b \in Int : a = Len(feed[m]) /\ b = Len(feed'[m])
            BY <3>1
        <3>5. Before(InHand(t), m, b, day)
            BY <1>1, <3>2, <3>3, <3>4, BeforeKept
        <3> QED BY <3>4, <3>5
    <2> QED BY <2>2, <2>3, <2>4 DEF OrderInv
<1> QED BY <1>2, <1>3 DEF Environment

\* At first nobody has an event.
LEMMA InitOrder == Init => OrderInv
<1> SUFFICES ASSUME Init PROVE OrderInv
    OBVIOUS
<1>1. \A t \in Subscriber : received[t] = <<>> /\ messages[t] = <<>> /\ InHand(t) = {}
    BY EmptyHands DEF Init, InHand
<1>2. DaysInv /\ EndInv /\ NextInv /\ SortedInv
    <2>1. \A m : Watchers(m) = {}
        BY DEF Init, Watchers
    <2> QED BY <1>1, <2>1, EmptyHands DEF DaysInv, EndInv, NextInv, SortedInv, Before
<1>3. HandInv
    BY LoopTypes DEF Init, HandInv, Polling
<1> QED BY <1>2, <1>3 DEF OrderInv

\* OrderInv is inductive, given HubInv and CursorInv.
LEMMA NextOrder ==
    ASSUME HubInv, HubInv', CursorInv, OrderInv, [Next]_vars
    PROVE  OrderInv'
<1>1. CASE UNCHANGED vars
    BY <1>1 DEF vars, external, registry, conns, OrderInv, DaysInv, EndInv, NextInv, HandInv,
                SortedInv, InHand, Watchers, Watches, Polling
<1>2. ASSUME NEW s \in Subscriber, Connection(s) PROVE OrderInv'
    BY <1>2, ConnectionOrder
<1>3. ASSUME NEW l \in Subscriber, PollLoop(l) PROVE OrderInv'
    BY <1>3, QuietOrder, BaselineOrder, PollItemsOrder, FanOutOrder DEF PollLoop
<1>4. CASE Environment
    BY <1>4, EnvironmentOrder
<1> QED BY <1>1, <1>2, <1>3, <1>4 DEF Next

\* What ServeHTTP sends of a market within a day is in order and without duplicates,
\* whatever subscribe, unsubscribe, pollMarket and midnight do in between.
THEOREM DeliveredInOrder == ASSUME Fits PROVE Spec => []InOrderNoDuplicates
<1>1. HubInv /\ HubInv' /\ CursorInv /\ OrderInv /\ [Next]_vars => OrderInv'
    BY NextOrder
<1>2. HubInv /\ OrderInv => InOrderNoDuplicates
    <2> SUFFICES ASSUME HubInv, OrderInv, NEW s \in Subscriber, NEW m \in Market
                 PROVE InOrder(received[s] \o messages[s], m, day)
        BY DEF InOrderNoDuplicates, InOrder, OfDay, OfToday
    <2>1. received[s] \in Seq(Message) /\ messages[s] \in Seq(Message)
        BY InHandType DEF HubInv, RegistryInv
    <2> QED BY <2>1, SortedConcat DEF OrderInv, SortedInv
<1> QED BY InitOrder, HubInvariant, CursorsSafe, <1>1, <1>2, PTL DEF Spec

-----------------------------------------------------------------------------
(* Refinement of UnusualFeed *)

\* A fan-out of market m with items left.
Fanning(lp, m) == lp.pc = "fanout" /\ lp.market = m /\ lp.items # <<>>

\* FeedCursor[m] as a function of the loops and of the market's state: lps and
\* st are the current ones or the next ones.
NextAt(lps, st, m) ==
    LET fanning == {l \in Subscriber : Fanning(lps[l], m)}
    IN IF fanning = {} THEN st.nextStart
       ELSE Head(lps[CHOOSE l \in fanning : TRUE].items).index

CursorWith(st, n) ==
    IF st = NoState THEN NoState ELSE IF ~st.initialized THEN NoState
    ELSE [date |-> st.date, next |-> n]

CursorAt(lps, st, m) == CursorWith(st, NextAt(lps, st, m))

\* The mapping, by way of CursorAt, before and after a step.
LEMMA FeedCursorIs ==
    /\ FeedCursor = [m \in Market |-> CursorAt(loop, states[m], m)]
    /\ FeedCursor' = [m \in Market |-> CursorAt(loop', states'[m], m)]
BY DEF FeedCursor, Cursor, CursorAt, CursorWith, NextAt, Fanning

\* Outside a fan-out of the market the cursor is at nextStart.
LEMMA CursorIdle ==
    ASSUME NEW lps, NEW st, NEW m, \A k \in Subscriber : ~Fanning(lps[k], m)
    PROVE  CursorAt(lps, st, m) = CursorWith(st, st.nextStart)
BY DEF CursorAt, NextAt

\* During one it is at the first item left.
LEMMA CursorFanning ==
    ASSUME NEW lps, NEW st, NEW m, NEW l \in Subscriber, Fanning(lps[l], m),
           \A k \in Subscriber : k # l => ~Fanning(lps[k], m)
    PROVE  CursorAt(lps, st, m) = CursorWith(st, Head(lps[l].items).index)
<1>1. {k \in Subscriber : Fanning(lps[k], m)} = {l}
    OBVIOUS
<1> QED BY <1>1 DEF CursorAt, NextAt

\* A market's cursor is where it was if its state has not changed in what the
\* cursor is about and no fan-out of it has moved.
LEMMA CursorSame ==
    ASSUME NEW lps, NEW st, NEW m, NEW next, NEW new,
           \A k \in Subscriber : \/ next[k] = lps[k]
                                 \/ ~Fanning(lps[k], m) /\ ~Fanning(next[k], m),
           \/ new = st
           \/ st # NoState /\ new # NoState /\ SameCursor(st, new)
           \/ st = NoState /\ new # NoState /\ ~new.initialized
    PROVE  CursorAt(next, new, m) = CursorAt(lps, st, m)
<1> DEFINE fanning == {k \in Subscriber : Fanning(lps[k], m)}
<1>1. fanning = {k \in Subscriber : Fanning(next[k], m)}
    OBVIOUS
<1>2. CASE fanning = {}
    <2>1. CursorAt(next, new, m) = CursorWith(new, new.nextStart)
        BY <1>1, <1>2, CursorIdle
    <2>2. CursorAt(lps, st, m) = CursorWith(st, st.nextStart)
        BY <1>2, CursorIdle
    <2> QED BY <2>1, <2>2 DEF CursorWith, SameCursor
<1>3. CASE fanning # {}
    <2> DEFINE l == CHOOSE k \in fanning : TRUE
    <2>1. l \in fanning
        BY <1>3
    <2>2. next[l] = lps[l]
        BY <2>1
    <2>3. NextAt(lps, st, m) = Head(lps[l].items).index
        BY <1>3 DEF NextAt
    <2>4. NextAt(next, new, m) = Head(next[l].items).index
        BY <1>1, <1>3 DEF NextAt
    <2> HIDE DEF l
    <2>5. NextAt(next, new, m) = NextAt(lps, st, m)
        BY <2>2, <2>3, <2>4
    <2> QED BY <2>5 DEF CursorAt, CursorWith, SameCursor
<1> QED BY <1>2, <1>3

\* A market has a state as long as somebody asks for one of its stocks.
LEMMA StateIfAsked ==
    ASSUME HubInv, HubInv', NEW m \in Market
    PROVE  /\ states[m] # NoState <=> Watchers(m) # {}
           /\ (\E s \in subscribers, c \in Code : <<m, c>> \in targets[s]) <=> states[m] # NoState
           /\ (\E s \in subscribers', c \in Code : <<m, c>> \in targets'[s]) <=> states'[m] # NoState
<1>1. \A T \in SUBSET (Market \X Code) : m \in MarketsOf(T) <=> \E c \in Code : <<m, c>> \in T
    <2> TAKE T \in SUBSET (Market \X Code)
    <2>1. ASSUME m \in MarketsOf(T) PROVE \E c \in Code : <<m, c>> \in T
        <3>1. PICK t \in T : t[1] = m
            BY <2>1 DEF MarketsOf
        <3>2. t = <<m, t[2]>> /\ t[2] \in Code
            BY <3>1
        <3> QED BY <3>2
    <2>2. ASSUME NEW c \in Code, <<m, c>> \in T PROVE m \in MarketsOf(T)
        <3>1. <<m, c>>[1] = m
            OBVIOUS
        <3> QED BY <2>2, <3>1 DEF MarketsOf
    <2> QED BY <2>1, <2>2
<1>2. (\E s \in subscribers, c \in Code : <<m, c>> \in targets[s]) <=> Watchers(m) # {}
    <2>1. \A s \in subscribers : targets[s] \in SUBSET (Market \X Code)
        BY DEF HubInv, RegistryInv, TypeOK
    <2> QED BY <1>1, <2>1 DEF Watchers, Watches
<1>3. (\E s \in subscribers', c \in Code : <<m, c>> \in targets'[s]) <=> Watchers(m)' # {}
    <2>1. \A s \in subscribers' : targets'[s] \in SUBSET (Market \X Code)
        BY DEF HubInv, RegistryInv, TypeOK
    <2> QED BY <1>1, <2>1 DEF Watchers, Watches
<1> QED BY <1>2, <1>3 DEF HubInv, RegistryInv, RegistryConsistent

\* When connections stop being served, markets that nobody watches any more
\* lose their cursors.
LEMMA CursorsLeft ==
    ASSUME HubInv, HubInv', NEW cur,
           \A s \in subscribers' : targets'[s] = targets[s],
           \A k \in Market : states'[k] # NoState => CursorAt(loop', states'[k], k) = cur[k]
    PROVE  FeedCursor' = Feed!CursorsOf(subscribers', cur)
<1>1. \A k \in Market : CursorAt(loop', states'[k], k)
        = IF \E s \in subscribers', c \in Code : <<k, c>> \in targets[s] THEN cur[k] ELSE NoState
    <2> TAKE k \in Market
    <2>1. (\E s \in subscribers', c \in Code : <<k, c>> \in targets[s]) <=> states'[k] # NoState
        BY StateIfAsked
    <2>2. states'[k] = NoState => CursorAt(loop', states'[k], k) = NoState
        BY DEF CursorAt, CursorWith
    <2> QED BY <2>1, <2>2
<1> QED BY <1>1, FeedCursorIs DEF Feed!CursorsOf

\* A step the stream allows.
FeedStep == Feed!Next \/ UNCHANGED Feed!vars

\* If states and fan-outs stay, the cursors stay.
LEMMA CursorsStay ==
    ASSUME \A k \in Market : \/ states'[k] = states[k]
                             \/ states[k] # NoState /\ states'[k] # NoState
                                /\ SameCursor(states[k], states'[k])
                             \/ states[k] = NoState /\ states'[k] # NoState
                                /\ ~states'[k].initialized,
           \A k \in Subscriber : \/ loop'[k] = loop[k]
                                 \/ /\ loop[k].pc = "fanout" => loop[k].items = <<>>
                                    /\ loop'[k].pc # "fanout"
    PROVE  FeedCursor' = FeedCursor
<1>1. \A k \in Market : CursorAt(loop', states'[k], k) = CursorAt(loop, states[k], k)
    <2> TAKE k \in Market
    <2>1. \A l \in Subscriber : \/ loop'[l] = loop[l]
                                \/ ~Fanning(loop[l], k) /\ ~Fanning(loop'[l], k)
        BY DEF Fanning
    <2> DEFINE old == loop
               lps == loop'
               new == states'[k]
               st == states[k]
    <2>2. \A l \in Subscriber : \/ lps[l] = old[l]
                                \/ ~Fanning(old[l], k) /\ ~Fanning(lps[l], k)
        BY <2>1
    <2>3. \/ new = st
          \/ st # NoState /\ new # NoState /\ SameCursor(st, new)
          \/ st = NoState /\ new # NoState /\ ~new.initialized
        OBVIOUS
    <2> HIDE DEF old, lps, st, new
    <2>4. CursorAt(lps, new, k) = CursorAt(old, st, k)
        BY <2>2, <2>3, CursorSame
    <2> QED BY <2>4 DEF old, lps, st, new
<1> QED BY <1>1, FeedCursorIs

\* A step of a connection opens, sends or closes in the stream, or is invisible in it.
LEMMA ConnectionFeed ==
    ASSUME HubInv, HubInv', CursorInv, NEW s \in Subscriber, Connection(s)
    PROVE  FeedStep
<1>0. TypeOK /\ PcConsistent /\ RegistryConsistent
    BY DEF HubInv, RegistryInv
<1>1. ASSUME NEW T \in TargetSets, Subscribe(s, T) PROVE Feed!Open(s, T)
    <2>1. pc[s] = "new" /\ s \notin subscribers /\ targets[s] = {} /\ received[s] = <<>>
        BY <1>0, <1>1 DEF Subscribe, PcConsistent, CursorInv, ConnInv
    <2>2. /\ subscribers' = subscribers \cup {s} /\ targets' = [targets EXCEPT ![s] = T]
          /\ UNCHANGED <<external, received, loop>>
          /\ \E q \in {<<>>, <<ErrorMessage>>} : messages' = [messages EXCEPT ![s] = q]
        BY <1>1 DEF Subscribe
    <2>3. ASSUME NEW k \in Market
          PROVE  \/ states'[k] = states[k]
                 \/ states[k] = NoState /\ states'[k] # NoState /\ ~states'[k].initialized
        <3>1. CASE k \in NewMarkets(T)
            <4>1. Cardinality(Watchers(k)) = 0
                BY <1>0, <3>1 DEF NewMarkets, RegistryConsistent
            <4>2. IsFiniteSet(Watchers(k))
                <5>1. Watchers(k) \subseteq Subscriber
                    BY <1>0 DEF TypeOK, Watchers
                <5> QED BY <5>1, HubAssumption, FS_Subset
            <4>3. states[k] = NoState
                BY <4>1, <4>2, <1>0, FS_EmptySet DEF RegistryConsistent
            <4>4. states'[k] = FreshState
                BY <1>1, <3>1 DEF Subscribe
            <4> QED BY <4>3, <4>4, StateTypes
        <3>2. CASE k \notin NewMarkets(T)
            BY <1>1, <3>2 DEF Subscribe
        <3> QED BY <3>1, <3>2
    <2>4. FeedCursor' = FeedCursor
        BY <2>2, <2>3, CursorsStay
    <2> QED BY <2>1, <2>2, <2>4 DEF Feed!Open, external
<1>2. ASSUME StartLoop(s) PROVE UNCHANGED Feed!vars
    <2>1. UNCHANGED <<external, subscribers, states, targets, messages, received>>
        BY <1>2 DEF StartLoop, registry
    <2>2. loop[s].pc = "none" /\ loop'[s].pc = "top" /\ \A k \in Subscriber : k # s => loop'[k] = loop[k]
        BY <1>0, <1>2 DEF StartLoop, PcConsistent, TypeOK, LoopState, LoopLocals
    <2>3. FeedCursor' = FeedCursor
        BY <2>1, <2>2, CursorsStay
    <2> QED BY <2>1, <2>3 DEF Feed!vars, external
<1>3. ASSUME NotifyPollLoop(s) PROVE UNCHANGED Feed!vars
    <2>1. UNCHANGED <<external, subscribers, states, targets, messages, received, loop>>
        BY <1>3 DEF NotifyPollLoop, registry
    <2>2. FeedCursor' = FeedCursor
        BY <2>1, CursorsStay
    <2> QED BY <2>1, <2>2 DEF Feed!vars, external
<1>4. ASSUME SendNext(s) PROVE Feed!Send(s)
    <2>1. UNCHANGED <<external, subscribers, states, targets, loop>>
        BY <1>4 DEF SendNext, registry
    <2>2. FeedCursor' = FeedCursor
        BY <2>1, CursorsStay
    <2> QED BY <1>4, <2>1, <2>2 DEF SendNext, Feed!Send, external
<1>5. ASSUME Disconnect(s) PROVE Feed!Close(s)
    <2>1. /\ targets[s] # {} /\ subscribers' = subscribers \ {s}
          /\ targets' = [targets EXCEPT ![s] = {}] /\ messages' = [messages EXCEPT ![s] = <<>>]
          /\ UNCHANGED <<external, received, loop>>
        BY <1>5 DEF Disconnect, RemoveLocked, Registered, CursorInv, ConnInv
    <2>2. \A k \in Market : states'[k] # NoState => states'[k] = states[k]
        BY <1>5 DEF Disconnect, RemoveLocked
    <2>3. \A k \in Market : states'[k] # NoState => CursorAt(loop', states'[k], k) = FeedCursor[k]
        BY <2>1, <2>2, FeedCursorIs
    <2>4. \A t \in subscribers' : targets'[t] = targets[t]
        BY <1>0, <2>1 DEF TypeOK
    <2>5. FeedCursor' = Feed!CursorsOf(subscribers \ {s}, FeedCursor)
        BY <2>1, <2>3, <2>4, CursorsLeft
    <2> QED BY <2>1, <2>5 DEF Feed!Close, external
<1>6. \A T \in TargetSets : T \in SUBSET (Market \X Code)
    BY HubAssumption
<1> QED BY <1>1, <1>2, <1>3, <1>4, <1>5, <1>6 DEF Connection, FeedStep, Feed!Next

\* What a quiet step of a loop leaves alone.
LEMMA QuietFeed ==
    ASSUME TypeOK, NEW l \in Subscriber, PollLoop(l),
           UNCHANGED <<subscribers, states, messages>>,
           loop[l].pc = "fanout" => loop[l].items = <<>>, loop'[l].pc # "fanout"
    PROVE  UNCHANGED Feed!vars
<1>1. UNCHANGED <<external, received>> /\ targets' = targets
    BY LoopOutside, LoopFrame
<1>2. \A k \in Subscriber : k # l => loop'[k] = loop[k]
    BY LoopFrame
<1>3. FeedCursor' = FeedCursor
    BY <1>2, CursorsStay
<1> QED BY <1>1, <1>3 DEF Feed!vars, external

\* Setting a baseline places the market's cursor.
LEMMA BaselineFeed ==
    ASSUME HubInv, HubInv', CursorInv, NEW l \in Subscriber, HandleBaseline(l)
    PROVE  FeedStep
<1> DEFINE lp == loop[l]
           m == lp.market
           st == states[m]
<1>0. /\ TypeOK /\ PollLoop(l) /\ Polling(l) /\ lp.pc = "tail" /\ loop'[l].pc = "next"
      /\ UNCHANGED <<external, subscribers, targets, messages, received>>
    <2>1. TypeOK /\ PollLoop(l) /\ Polling(l) /\ lp.pc = "tail"
        BY DEF HubInv, RegistryInv, PollLoop, Polling, HandleBaseline
    <2>2. loop'[l] = BetweenMarkets(lp)
        BY <2>1 DEF HandleBaseline, TypeOK
    <2>3. lp \in LoopState
        BY <2>1 DEF TypeOK
    <2> QED BY <2>1, <2>2, <2>3, LoopTypes DEF HandleBaseline
<1>1. m \in Market /\ lp.today \in 0..MaxDay /\ PollAt(lp, st, feed[m], day)
    BY <1>0, AtMarket
<1>2. CASE states' = states
    BY <1>0, <1>2, QuietFeed DEF FeedStep
<1>3. CASE states' # states
    <2>1. PICK n \in Tails(l) :
            states' = [states EXCEPT ![m] =
                   [date |-> lp.today, initialized |-> TRUE, inError |-> FALSE,
                    nextStart |-> n, seen |-> {}]]
        BY <1>3 DEF HandleBaseline
    <2>2. st # NoState
        BY <1>3 DEF HandleBaseline
    <2>3. /\ 1 <= lp.today /\ lp.today <= day /\ day \in Nat
          /\ st.initialized => st.date < lp.today /\ st.date < day
        <3>1. 1 <= lp.today /\ lp.today <= day /\ (st.initialized => st.date < lp.today)
            BY <1>0, <1>1, <2>2 DEF PollAt
        <3>2. st.date \in Nat /\ day \in Nat /\ lp.today \in Nat
            BY <1>0, <1>1, <2>2 DEF TypeOK, MarketState
        <3> QED BY <3>1, <3>2
    <2>4. n \in 0..MaxEvents /\ (lp.today = day => n <= Len(feed[m]))
        <3>1. Len(feed[m]) \in Nat /\ Len(feed[m]) <= MaxEvents /\ MaxEvents \in Nat
            BY <1>0, <1>1, HubAssumption, LenProperties DEF TypeOK, CursorInv, FeedInv
        <3>2. lp.start \in Nat
            BY <1>0, AtMarket
        <3> QED BY <3>1, <3>2 DEF Tails
    <2>5. \A k \in Subscriber : loop[k].pc # "fanout" /\ loop'[k].pc # "fanout"
        BY <1>0, OnlyLoop DEF Polling
    <2>6. \A k \in Market : /\ CursorAt(loop, states[k], k) = CursorWith(states[k], states[k].nextStart)
                            /\ CursorAt(loop', states'[k], k) = CursorWith(states'[k], states'[k].nextStart)
        BY <2>5 DEF CursorAt, NextAt, Fanning
    <2>7. CursorWith(states'[m], states'[m].nextStart) = [date |-> lp.today, next |-> n]
        <3>1. states'[m] # NoState
            BY <1>0, <1>1, <2>2, StateIfAsked DEF Watchers, Watches
        <3>2. states'[m].date = lp.today /\ states'[m].initialized /\ states'[m].nextStart = n
            BY <1>0, <1>1, <2>1 DEF TypeOK
        <3> QED BY <3>1, <3>2 DEF CursorWith
    <2>8. FeedCursor' = [FeedCursor EXCEPT ![m] = [date |-> lp.today, next |-> n]]
        <3>1. \A k \in Market : k # m => states'[k] = states[k]
            BY <2>1, <1>0 DEF TypeOK
        <3> DEFINE new == [date |-> lp.today, next |-> n]
        <3> HIDE DEF new
        <3>2. \A k \in Market : CursorAt(loop', states'[k], k)
                  = IF k = m THEN new ELSE CursorAt(loop, states[k], k)
            BY <2>6, <2>7, <3>1 DEF new
        <3> QED BY <1>1, <3>2, FeedCursorIs DEF new
    <2>9. FeedCursor[m] = NoState \/ (FeedCursor[m] # NoState /\ FeedCursor[m].date < day)
        <3>1. FeedCursor[m] = CursorWith(st, st.nextStart)
            <4>1. FeedCursor[m] = CursorAt(loop, st, m)
                BY <1>1, FeedCursorIs
            <4> QED BY <1>1, <2>6, <4>1
        <3>2. CASE st.initialized
            <4>1. FeedCursor[m] = [date |-> st.date, next |-> st.nextStart]
                BY <2>2, <3>1, <3>2 DEF CursorWith
            <4>2. FeedCursor[m].date < day
                BY <2>3, <3>2, <4>1
            <4> QED BY <4>2
        <3>3. CASE ~st.initialized
            BY <3>1, <3>3 DEF CursorWith
        <3> QED BY <3>2, <3>3
    <2>10. Feed!Watchers(m) # {}
        BY <1>1, <2>2, StateIfAsked DEF Feed!Watchers
    <2>11. lp.today \in 1..day
        BY <1>1, <2>3
    <2>12. Feed!SetCursor(m)
        <3>1. UNCHANGED <<day, feed, subscribers, targets, messages, received>>
            BY <1>0 DEF external
        <3> QED BY <2>4, <2>8, <2>9, <2>10, <2>11, <3>1 DEF Feed!SetCursor
    <2> QED BY <1>1, <2>12 DEF FeedStep, Feed!Next
<1> QED BY <1>2, <1>3

\* A failed poll tells some watchers and drops those whose buffers are full.
LEMMA PollErrorFeed ==
    ASSUME HubInv, HubInv', CursorInv, NEW l \in Subscriber, HandlePollError(l)
    PROVE  FeedStep
<1> DEFINE lp == loop[l]
           m == lp.market
           st == states[m]
           watchers == {s \in subscribers : Watches(s, m)}
           audience == Notified(watchers)
           slow == {s \in audience : Full(s)}
           told == {s \in audience : ~Full(s)}
           marked == [states EXCEPT ![m].inError = TRUE]
<1>0. /\ TypeOK /\ PollLoop(l) /\ lp.pc \in {"tail", "query"} /\ loop'[l].pc = "next"
      /\ UNCHANGED <<external, targets, received>>
    <2>1. TypeOK /\ PollLoop(l) /\ lp.pc \in {"tail", "query"}
        BY DEF HubInv, RegistryInv, PollLoop, HandlePollError
    <2>2. loop'[l] = BetweenMarkets(lp)
        BY <2>1 DEF HandlePollError, TypeOK
    <2>3. lp \in LoopState
        BY <2>1 DEF TypeOK
    <2> QED BY <2>1, <2>2, <2>3, LoopTypes DEF HandlePollError
<1>1. CASE st = NoState \/ st.inError
    <2>1. UNCHANGED <<subscribers, states, messages>>
        BY <1>1 DEF HandlePollError, registry
    <2> QED BY <1>0, <2>1, QuietFeed DEF FeedStep
<1>2. CASE ~(st = NoState \/ st.inError)
    <2>1. Broadcast(audience, ErrorMessage, marked)
        BY <1>2 DEF HandlePollError
    <2>2. subscribers' = subscribers \ slow
        BY <2>1 DEF Broadcast, RemoveLocked
    <2>3. messages' = Feed!GivenTo(told, ErrorMessage)
        BY <2>1 DEF Broadcast, Feed!GivenTo
    <2>4. audience \subseteq subscribers /\ subscribers \subseteq Subscriber
        BY <1>0 DEF Notified, TypeOK
    <2>5. told \subseteq subscribers /\ slow \subseteq subscribers /\ told \cap slow = {}
        BY <2>4
    <2>6. ASSUME NEW k \in Market, states'[k] # NoState
          PROVE  CursorAt(loop', states'[k], k) = FeedCursor[k]
        <3>1. states[k] # NoState /\ SameCursor(states[k], states'[k])
            BY <1>0, <2>6, PollErrorStates
        <3>2. \A q \in Subscriber : \/ loop'[q] = loop[q]
                                    \/ ~Fanning(loop[q], k) /\ ~Fanning(loop'[q], k)
            BY <1>0, LoopFrame DEF Fanning
        <3> DEFINE next == loop'
                   new == states'[k]
        <3>3. new # NoState /\ SameCursor(states[k], new)
            BY <2>6, <3>1
        <3>4. \A q \in Subscriber : \/ next[q] = loop[q]
                                    \/ ~Fanning(loop[q], k) /\ ~Fanning(next[q], k)
            BY <3>2
        <3> HIDE DEF next, new
        <3>5. CursorAt(next, new, k) = CursorAt(loop, states[k], k)
            BY <3>1, <3>3, <3>4, CursorSame
        <3> QED BY <3>5, FeedCursorIs DEF next, new
    <2> HIDE DEF told, slow
    <2>7. FeedCursor' = Feed!CursorsOf(subscribers \ slow, FeedCursor)
        BY <1>0, <2>2, <2>6, CursorsLeft
    <2>8. Feed!Tell(told, slow)
        BY <1>0, <2>2, <2>3, <2>5, <2>7 DEF Feed!Tell, external
    <2>9. told \in SUBSET Subscriber /\ slow \in SUBSET Subscriber
        BY <2>4, <2>5
    <2> QED BY <2>8, <2>9 DEF FeedStep, Feed!Next
<1> QED BY <1>1, <1>2

\* Accepting a page leaves the cursor, for the watchers, at its first item.
LEMMA PollItemsFeed ==
    ASSUME HubInv, HubInv', CursorInv, NEW l \in Subscriber, HandlePollItems(l)
    PROVE  FeedStep
<1> DEFINE lp == loop[l]
           m == lp.market
           st == states[m]
           n == NextStart(lp.start, lp.items)
           new == [st EXCEPT !.inError = FALSE, !.nextStart = n]
<1>0. /\ TypeOK /\ PollLoop(l) /\ Polling(l) /\ lp.pc = "handle"
      /\ UNCHANGED <<external, subscribers, targets, messages, received>>
    <2>1. TypeOK /\ PollLoop(l) /\ Polling(l) /\ lp.pc = "handle"
        BY DEF HubInv, RegistryInv, PollLoop, Polling, HandlePollItems
    <2> QED BY <2>1 DEF HandlePollItems
<1>1. /\ lp \in LoopState /\ m \in Market /\ lp.start \in Nat /\ lp.items \in Seq(Item)
      /\ PollAt(lp, st, feed[m], day)
      /\ st # NoState => st \in MarketState
    BY <1>0, AtMarket
<1>2. CASE states' = states /\ loop'[l] = BetweenMarkets(lp)
    <2>1. loop'[l].pc = "next"
        BY <1>1, <1>2, LoopTypes
    <2> QED BY <1>0, <1>2, <2>1, QuietFeed DEF FeedStep
<1>3. CASE /\ st # NoState /\ st.initialized /\ st.nextStart = lp.start
           /\ loop'[l] = [lp EXCEPT !.pc = "fanout"]
           /\ states' = [states EXCEPT ![m] = new]
    <2>1. lp.items # <<>> => IsPage(lp.items, feed[m], day) /\ lp.items[1].index = lp.start
        BY <1>0, <1>1 DEF PollAt
    <2>2. n = lp.start + Len(lp.items)
        BY <1>1, <2>1, PageEnd
    <2> HIDE DEF n
    <2>3. /\ new.date = st.date /\ new.initialized = st.initialized /\ new.nextStart = n
        BY <1>1, <1>3 DEF MarketState
    <2>4. states'[m] = new /\ \A k \in Market : k # m => states'[k] = states[k]
        BY <1>0, <1>1, <1>3 DEF TypeOK
    <2>5. /\ loop'[l].pc = "fanout" /\ loop'[l].market = m /\ loop'[l].items = lp.items
        BY <1>1, <1>3 DEF LoopState, LoopLocals
    <2>6. \A k \in Subscriber : loop[k].pc # "fanout" /\ (k # l => loop'[k].pc # "fanout")
        BY <1>0, OnlyLoop DEF Polling
    <2>7. new # NoState
        <3>1. states'[m] # NoState
            BY <1>0, <1>1, <1>3, StateIfAsked
        <3> QED BY <2>4, <3>1
    <2> HIDE DEF new
    <2>8. CursorAt(loop, st, m) = CursorWith(st, lp.start)
        BY <1>3, <2>6, CursorIdle DEF Fanning
    <2>9. CursorAt(loop', new, m) = CursorWith(st, lp.start)
        <3> DEFINE next == loop'
        <3>1. /\ next[l].pc = "fanout" /\ next[l].market = m /\ next[l].items = lp.items
              /\ \A k \in Subscriber : k # l => next[k].pc # "fanout"
            BY <2>5, <2>6
        <3> HIDE DEF next
        <3>2. NextAt(next, new, m) = lp.start
            <4>1. CASE lp.items = <<>>
                <5>1. \A k \in Subscriber : ~Fanning(next[k], m)
                    BY <3>1, <4>1 DEF Fanning
                <5>2. n = lp.start
                    BY <1>1, <2>2, <4>1, EmptySeq
                <5> QED BY <2>3, <5>1, <5>2 DEF NextAt
            <4>2. CASE lp.items # <<>>
                <5>1. {k \in Subscriber : Fanning(next[k], m)} = {l}
                    BY <3>1, <4>2 DEF Fanning
                <5>2. Head(next[l].items) = lp.items[1]
                    BY <1>1, <3>1, <4>2, HeadTailProperties
                <5> QED BY <2>1, <4>2, <5>1, <5>2 DEF NextAt
            <4> QED BY <4>1, <4>2
        <3>3. CursorAt(next, new, m) = CursorWith(st, lp.start)
            BY <1>3, <2>3, <2>7, <3>2 DEF CursorAt, CursorWith
        <3> QED BY <3>3 DEF next
    <2>10. ASSUME NEW k \in Market, k # m
           PROVE  CursorAt(loop', states'[k], k) = CursorAt(loop, states[k], k)
        <3>1. \A q \in Subscriber : ~Fanning(loop[q], k) /\ ~Fanning(loop'[q], k)
            BY <2>5, <2>6, <2>10 DEF Fanning
        <3>2. states'[k] = states[k]
            BY <2>4, <2>10
        <3> QED BY <3>1, <3>2 DEF CursorAt, NextAt
    <2>11. FeedCursor' = FeedCursor
        BY <2>4, <2>8, <2>9, <2>10, FeedCursorIs
    <2> QED BY <1>0, <2>11 DEF FeedStep, Feed!vars, external
<1> QED BY <1>0, <1>2, <1>3, PollItemsStates

\* A turn of the fan-out hands the event under the cursor to those who asked
\* for its stock, and moves the cursor over it.
LEMMA FanOutFeed ==
    ASSUME HubInv, HubInv', CursorInv, NEW l \in Subscriber, FanOutItem(l)
    PROVE  FeedStep
<1> DEFINE lp == loop[l]
           m == lp.market
           st == states[m]
           it == Head(lp.items)
           i == lp.items[1].index
           key == <<it.code, it.index>>
           rest == Tail(lp.items)
           asked == {s \in subscribers : <<m, it.code>> \in targets[s]}
           marked == IF st = NoState THEN states ELSE [states EXCEPT ![m].seen = @ \cup {key}]
           slow == {s \in asked : Full(s)}
           moved == [FeedCursor EXCEPT ![m].next = i + 1]
<1>0. /\ TypeOK /\ PollLoop(l) /\ Polling(l) /\ lp.pc = "fanout" /\ lp.items # <<>>
      /\ UNCHANGED <<external, targets, received>>
    BY LoopOutside DEF HubInv, RegistryInv, PollLoop, Polling, FanOutItem
<1>1. /\ lp \in LoopState /\ m \in Market /\ lp.items \in Seq(Item)
      /\ PollAt(lp, st, feed[m], day)
      /\ st # NoState => st \in MarketState
    BY <1>0, AtMarket
<1>2. /\ it = lp.items[1] /\ rest \in Seq(Item) /\ Len(rest) \in Nat /\ Len(rest) + 1 = Len(lp.items)
      /\ IsPage(lp.items, feed[m], day) /\ it.day >= lp.today
      /\ rest # <<>> => Head(rest).index = i + 1
    <2>1. /\ it = lp.items[1] /\ rest \in Seq(Item) /\ Len(rest) \in Nat
          /\ Len(rest) + 1 = Len(lp.items)
          /\ IsPage(lp.items, feed[m], day) /\ it.day >= lp.today
          /\ rest # <<>> => rest[1].index = i + 1
        BY <1>0, <1>1, PageTail DEF PollAt
    <2>2. rest # <<>> => Head(rest) = rest[1]
        BY <2>1, HeadTailProperties
    <2> QED BY <2>1, <2>2
<1>3. /\ it \in Item /\ it.index = i /\ i \in Nat /\ i < MaxEvents
      /\ it.day \in 1..MaxDay /\ it.day <= day
      /\ it.day = day => i < Len(feed[m]) /\ it.code = feed[m][i + 1]
      /\ it = [code |-> it.code, index |-> i, day |-> it.day] /\ it.code \in Code
    <2>1. 1 \in 1..Len(lp.items)
        BY <1>2
    <2>2. it \in Item /\ i \in Nat /\ 1 \in DOMAIN lp.items
        BY <2>1, <1>1, <1>2, ItemIndex, LenProperties
    <2>3. it = [code |-> it.code, index |-> it.index, day |-> it.day] /\ it.code \in Code
          /\ it.day \in 1..MaxDay
        <3> HIDE DEF it
        <3> QED BY <2>2 DEF Item
    <2>4. /\ i < MaxEvents /\ it.day <= day
          /\ it.day = day => i < Len(feed[m]) /\ it.code = feed[m][i + 1]
        BY <1>2, <2>2 DEF IsPage
    <2> QED BY <1>2, <2>2, <2>3, <2>4
<1>4. /\ loop'[l].pc = "fanout" /\ loop'[l].market = m /\ loop'[l].items = rest
      /\ \A k \in Subscriber : k # l => loop[k].pc # "fanout" /\ loop'[k].pc # "fanout"
    <2>1. loop'[l] = [lp EXCEPT !.items = rest]
        BY FanOutStates
    <2>2. \A k \in Subscriber : k # l => loop[k].pc # "fanout" /\ loop'[k].pc # "fanout"
        BY <1>0, OnlyLoop DEF Polling
    <2> HIDE DEF rest
    <2> QED BY <2>1, <2>2, <1>0, <1>1 DEF LoopState, LoopLocals
<1> HIDE DEF rest
\* Nobody else's cursor moves.
<1>5. ASSUME NEW k \in Market, k # m, states'[k] # NoState
      PROVE  CursorAt(loop', states'[k], k) = FeedCursor[k]
    <2>1. states'[k] = states[k]
        BY <1>5, FanOutStates
    <2>2. \A q \in Subscriber : ~Fanning(loop[q], k) /\ ~Fanning(loop'[q], k)
        BY <1>0, <1>4, <1>5 DEF Fanning
    <2>3. CursorAt(loop', states'[k], k) = CursorAt(loop, states[k], k)
        BY <2>1, <2>2 DEF CursorAt, NextAt
    <2> QED BY <2>3, FeedCursorIs
<1>6. CASE st = NoState
    <2>1. asked = {}
        BY <1>1, <1>3, <1>6, StateIfAsked
    <2>2. Broadcast({}, UnusualMessage(m, it), states)
        BY <2>1, <1>6 DEF FanOutItem
    <2>3. subscribers' = subscribers /\ messages' = messages
        BY <2>2, <1>0 DEF Broadcast, RemoveLocked, TypeOK
    <2>4. FeedCursor' = Feed!CursorsOf(subscribers, FeedCursor)
        <3>1. \A s \in subscribers' : targets'[s] = targets[s]
            BY <1>0
        <3>2. states'[m] = NoState
            BY <1>1, <1>6, FanOutStates
        <3>3. \A k \in Market : states'[k] # NoState => CursorAt(loop', states'[k], k) = FeedCursor[k]
            BY <1>5, <3>2
        <3> QED BY <2>3, <3>1, <3>3, CursorsLeft
    <2>5. Feed!CursorsOf(subscribers, FeedCursor) = FeedCursor
        <3>1. \A k \in Market : states[k] = NoState => FeedCursor[k] = NoState
            BY FeedCursorIs DEF CursorAt, CursorWith
        <3>2. \A k \in Market : (\E s \in subscribers, c \in Code : <<k, c>> \in targets[s])
                                  <=> states[k] # NoState
            BY StateIfAsked
        <3>3. FeedCursor = [k \in Market |-> FeedCursor[k]]
            BY FeedCursorIs
        <3> QED BY <3>1, <3>2, <3>3 DEF Feed!CursorsOf
    <2> QED BY <1>0, <2>3, <2>4, <2>5 DEF FeedStep, Feed!vars, external
<1>7. CASE st # NoState
    <2>1. /\ st.initialized /\ st.date = lp.today /\ st.nextStart = i + Len(lp.items)
          /\ \A q \in st.seen : q[2] < i
        BY <1>0, <1>1, <1>7 DEF PollAt
    <2>2. key \notin st.seen
        <3>1. key[2] = i
            BY <1>3
        <3> QED BY <1>3, <2>1, <3>1
    <2>3. Broadcast(asked, UnusualMessage(m, it), marked)
        <3> HIDE DEF key
        <3> QED BY <1>7, <2>2 DEF FanOutItem, key
    <2>4. subscribers' = subscribers \ slow
        BY <2>3 DEF Broadcast, RemoveLocked
    <2>5. messages' = Feed!GivenTo(asked \ slow, UnusualMessage(m, it))
        BY <2>3 DEF Broadcast, Feed!GivenTo
    <2>6. FeedCursor[m] = [date |-> st.date, next |-> i] /\ FeedCursor[m] # NoState
        <3>1. Fanning(loop[l], m) /\ \A k \in Subscriber : k # l => ~Fanning(loop[k], m)
            BY <1>0, <1>4 DEF Fanning
        <3>2. CursorAt(loop, st, m) = CursorWith(st, i)
            <4>1. CursorAt(loop, st, m) = CursorWith(st, Head(loop[l].items).index)
                <5> DEFINE lps == loop
                           now == st
                           k == m
                <5>1. Fanning(lps[l], k) /\ \A q \in Subscriber : q # l => ~Fanning(lps[q], k)
                    BY <3>1
                <5> HIDE DEF lps, now, k
                <5>2. CursorAt(lps, now, k) = CursorWith(now, Head(lps[l].items).index)
                    BY <5>1, CursorFanning
                <5> QED BY <5>2 DEF lps, now, k
            <4> QED BY <1>2, <4>1
        <3>3. FeedCursor[m] = [date |-> st.date, next |-> i]
            BY <1>1, <1>7, <2>1, <3>2, FeedCursorIs DEF CursorWith
        <3>4. st.date \in 0..MaxDay /\ i \in 0..MaxEvents
            BY <1>1, <1>3, <1>7, HubAssumption DEF MarketState
        <3> QED BY <3>3, <3>4, FeedAssumption
    <2>7. moved = [k \in Market |-> IF k = m THEN [date |-> st.date, next |-> i + 1] ELSE FeedCursor[k]]
        <3> DEFINE cur == FeedCursor
        <3>1. cur = [k \in Market |-> cur[k]] /\ cur[m] = [date |-> st.date, next |-> i]
            BY <2>6, FeedCursorIs
        <3> HIDE DEF cur
        <3>2. [cur[m] EXCEPT !.next = i + 1] = [date |-> st.date, next |-> i + 1]
            BY <3>1
        <3>3. [cur EXCEPT ![m].next = i + 1]
                = [k \in Market |-> IF k = m THEN [cur[m] EXCEPT !.next = i + 1] ELSE cur[k]]
            BY <3>1
        <3> QED BY <3>2, <3>3 DEF cur
    <2> HIDE DEF moved
    <2>8. ASSUME states'[m] # NoState
          PROVE  CursorAt(loop', states'[m], m) = [date |-> st.date, next |-> i + 1]
        <3> DEFINE new == states'[m]
                   next == loop'
        <3>1. /\ new.date = st.date /\ new.initialized = st.initialized
              /\ new.nextStart = st.nextStart
            <4>1. new = st \/ new = [st EXCEPT !.seen = @ \cup {key}]
                BY <1>1, <2>8, FanOutStates
            <4> HIDE DEF key, new
            <4> QED BY <1>1, <1>7, <4>1 DEF MarketState
        <3>2. /\ next[l].pc = "fanout" /\ next[l].market = m /\ next[l].items = rest
              /\ \A k \in Subscriber : k # l => next[k].pc # "fanout"
            BY <1>4
        <3>3. new # NoState
            BY <2>8
        <3> HIDE DEF new, next
        <3>4. NextAt(next, new, m) = i + 1
            <4>1. CASE rest = <<>>
                <5>1. \A k \in Subscriber : ~Fanning(next[k], m)
                    BY <3>2, <4>1 DEF Fanning
                <5>2. Len(lp.items) = 1
                    BY <1>2, <4>1, EmptySeq
                <5> QED BY <2>1, <3>1, <5>1, <5>2 DEF NextAt
            <4>2. CASE rest # <<>>
                <5>1. {k \in Subscriber : Fanning(next[k], m)} = {l}
                    BY <3>2, <4>2 DEF Fanning
                <5> QED BY <1>2, <3>2, <4>2, <5>1 DEF NextAt
            <4> QED BY <4>1, <4>2
        <3>5. CursorAt(next, new, m) = [date |-> st.date, next |-> i + 1]
            BY <2>1, <3>1, <3>3, <3>4 DEF CursorAt, CursorWith
        <3> QED BY <3>5 DEF new, next
    <2>9. FeedCursor' = Feed!CursorsOf(subscribers \ slow, moved)
        <3>1. \A s \in subscribers' : targets'[s] = targets[s]
            BY <1>0
        <3>2. \A k \in Market : states'[k] # NoState => CursorAt(loop', states'[k], k) = moved[k]
            BY <1>5, <2>7, <2>8
        <3> HIDE DEF slow
        <3>3. FeedCursor' = Feed!CursorsOf(subscribers', moved)
            BY <3>1, <3>2, CursorsLeft
        <3> QED BY <2>4, <3>3
    <2>10. slow \in SUBSET asked
        OBVIOUS
    <2>11. Feed!Handed(m, it, i + 1)
        <3>1. UNCHANGED <<day, feed, targets, received>>
            BY <1>0 DEF external
        <3>2. UnusualMessage(m, it) = [event |-> "unusual", market |-> m, item |-> it]
            BY DEF UnusualMessage
        <3> HIDE DEF slow, it
        <3> QED BY <2>4, <2>5, <2>9, <2>10, <3>1, <3>2 DEF Feed!Handed, moved
    <2>12. CASE lp.today = day
        <3>1. it.day = day
            BY <1>0, <1>2, <1>3, <2>12 DEF TypeOK
        <3>2. it = [code |-> feed[m][i + 1], index |-> i, day |-> day]
            BY <1>3, <3>1
        <3>3. FeedCursor[m].date = day /\ FeedCursor[m].next = i
            BY <2>1, <2>6, <2>12
        <3> HIDE DEF it, i
        <3>4. Feed!Offer(m)
            BY <1>3, <2>6, <2>11, <3>1, <3>2, <3>3 DEF Feed!Offer
        <3> QED BY <1>1, <3>4 DEF FeedStep, Feed!Next
    <2>13. CASE lp.today # day
        <3>1. FeedCursor[m].date < day
            <4>1. lp.today <= day /\ lp.today \in Nat /\ day \in Nat
                BY <1>0, <1>1, AtMarket DEF PollAt, TypeOK
            <4> QED BY <2>1, <2>6, <2>13, <4>1
        <3>2. i \in 0..MaxEvents /\ i + 1 \in 0..MaxEvents /\ it.day \in 1..day
            BY <1>0, <1>3, HubAssumption DEF TypeOK
        <3> HIDE DEF it, i
        <3>3. Feed!Handed(m, [code |-> it.code, index |-> i, day |-> it.day], i + 1)
            BY <1>3, <2>11
        <3>4. Feed!OfferStale(m)
            BY <1>3, <2>6, <3>1, <3>2, <3>3 DEF Feed!OfferStale
        <3> QED BY <1>1, <3>4 DEF FeedStep, Feed!Next
    <2> QED BY <2>12, <2>13
<1> QED BY <1>6, <1>7

\* A step of the loop sets a cursor, tells, offers, or is invisible in the stream.
LEMMA LoopFeed ==
    ASSUME HubInv, HubInv', CursorInv, NEW l \in Subscriber, PollLoop(l)
    PROVE  FeedStep
<1>0. TypeOK /\ loop \in [Subscriber -> LoopState]
    BY DEF HubInv, RegistryInv, TypeOK
<1>1. CASE ActiveMarkets(l) \/ Timer(l) \/ WakeUp(l)
    <2>1. UNCHANGED <<subscribers, states, messages>>
        BY <1>1 DEF ActiveMarkets, Timer, WakeUp, registry, conns
    <2>2. loop[l].pc # "fanout" /\ loop'[l].pc \in {"none", "next", "top"}
        BY <1>0, <1>1, LoopTypes DEF ActiveMarkets, Timer, WakeUp, Waiting, LoopState, LoopLocals
    <2> QED BY <1>0, <2>1, <2>2, QuietFeed DEF FeedStep
<1>2. CASE \E m \in Market : PollMarket(l, m)
    <2>1. PICK m \in Market : PollMarket(l, m)
        BY <1>2
    <2>2. UNCHANGED <<subscribers, states, messages>>
        BY <2>1 DEF PollMarket, registry, conns
    <2>3. loop[l].pc # "fanout" /\ loop'[l].pc = "read"
        BY <1>0, <2>1 DEF PollMarket, LoopState, LoopLocals
    <2> QED BY <1>0, <2>2, <2>3, QuietFeed DEF FeedStep
<1>3. CASE ReadState(l) \/ PageDone(l)
    <2>1. UNCHANGED <<subscribers, states, messages>>
        BY <1>3 DEF ReadState, PageDone, registry, conns
    <2>2. loop[l] \in LoopState /\ BetweenMarkets(loop[l]).pc = "next"
        BY <1>0, LoopTypes
    <2>3. loop'[l].pc \in {"next", "tail", "query"}
        <3>1. CASE ReadState(l)
            BY <1>0, <2>2, <3>1 DEF ReadState, LoopState, LoopLocals
        <3>2. CASE PageDone(l)
            BY <1>0, <2>2, <3>2 DEF PageDone, LoopState, LoopLocals
        <3> QED BY <1>3, <3>1, <3>2
    <2>4. loop[l].pc = "fanout" => loop[l].items = <<>>
        BY <1>3 DEF ReadState, PageDone
    <2> QED BY <1>0, <2>1, <2>3, <2>4, QuietFeed DEF FeedStep
<1>4. CASE QueryPage(l)
    <2>1. UNCHANGED <<subscribers, states, messages>>
        BY <1>4 DEF QueryPage, registry, conns
    <2>2. loop[l].pc # "fanout" /\ loop'[l].pc = "handle"
        <3> DEFINE items == Page(loop[l].market, loop[l].start)
        <3>1. loop[l].pc # "fanout"
            BY <1>4 DEF QueryPage
        <3>2. loop' = [loop EXCEPT ![l].pc = "handle", ![l].items = items,
                                   ![l].full = (Len(items) >= PageSize)]
            BY <1>4 DEF QueryPage
        <3> HIDE DEF items
        <3> QED BY <1>0, <3>1, <3>2 DEF LoopState, LoopLocals
    <2> QED BY <1>0, <2>1, <2>2, QuietFeed DEF FeedStep
<1> QED BY <1>1, <1>2, <1>3, <1>4, BaselineFeed, PollErrorFeed, PollItemsFeed, FanOutFeed DEF PollLoop

\* The server and the clock are the same in both.
LEMMA EnvironmentFeed ==
    ASSUME Environment
    PROVE  FeedStep
<1>1. UNCHANGED <<subscribers, targets, messages, received, states, loop>>
    BY DEF Environment, Publish, Midnight, registry, conns
<1>2. FeedCursor' = FeedCursor
    BY <1>1, CursorsStay
<1>3. ASSUME NEW m \in Market, NEW c \in Code, Publish(m, c) PROVE Feed!Publish(m, c)
    BY <1>1, <1>2, <1>3 DEF Publish, Feed!Publish
<1>4. Midnight => Feed!Midnight
    BY <1>1, <1>2 DEF Midnight, Feed!Midnight
<1> QED BY <1>3, <1>4 DEF Environment, FeedStep, Feed!Next

\* The hub begins as the stream does.
LEMMA InitFeed == Init => Feed!Init
<1> SUFFICES ASSUME Init PROVE Feed!Init
    OBVIOUS
<1>1. \A m \in Market : CursorAt(loop, states[m], m) = NoState
    BY DEF Init, CursorAt, CursorWith
<1>2. FeedCursor = [m \in Market |-> NoState]
    BY <1>1, FeedCursorIs
<1> QED BY <1>2 DEF Init, Feed!Init

\* The hub implements the stream: every step of subscribe, unsubscribe and the poll
\* loop is one of UnusualFeed, or leaves all that it speaks of alone.
THEOREM HubImplementsFeed == ASSUME Fits PROVE Spec => ImplementsFeed
<1>1. HubInv /\ HubInv' /\ CursorInv /\ [Next]_vars => [Feed!Next]_Feed!vars
    <2> SUFFICES ASSUME HubInv, HubInv', CursorInv, [Next]_vars
                 PROVE FeedStep
        BY DEF FeedStep
    <2>1. CASE UNCHANGED vars
        <3>1. FeedCursor' = FeedCursor
            BY <2>1, FeedCursorIs DEF vars, registry
        <3> QED BY <2>1, <3>1 DEF vars, external, registry, conns, FeedStep, Feed!vars
    <2>2. CASE Next
        BY <2>2, ConnectionFeed, LoopFeed, EnvironmentFeed DEF Next
    <2> QED BY <2>1, <2>2
<1> QED BY InitFeed, HubInvariant, CursorsSafe, <1>1, PTL DEF Spec, ImplementsFeed, Feed!Spec

-----------------------------------------------------------------------------
(* Error notices *)

\* What a step may do to a connection that is registered before and after it.
NoticeRight(s) ==
    (failed[s] = {} /\ failed'[s] # {}) <=> messages'[s] = Append(messages[s], ErrorMessage)

\* A step that fails no market for a connection and appends nothing, takes the first
\* message, or appends an event, gives no notice.
LEMMA NoNotice ==
    ASSUME TypeOK, NEW s \in Subscriber,
           failed'[s] \subseteq failed[s],
           \/ messages'[s] = messages[s]
           \/ messages[s] # <<>> /\ messages'[s] = Tail(messages[s])
           \/ \E m, it : messages'[s] = Append(messages[s], UnusualMessage(m, it))
    PROVE  NoticeRight(s)
<1> DEFINE q == messages[s]
<1>1. q \in Seq(Message)
    BY DEF TypeOK
<1> SUFFICES messages'[s] # Append(q, ErrorMessage)
    BY DEF NoticeRight
<1>2. Len(Append(q, ErrorMessage)) = Len(q) + 1 /\ Len(q) \in Nat
    BY <1>1, ElementsAppend
<1>3. CASE messages'[s] = q
    BY <1>2, <1>3
<1>4. CASE q # <<>> /\ messages'[s] = Tail(q)
    <2>1. Len(Tail(q)) \in Nat /\ Len(Tail(q)) + 1 = Len(q)
        BY <1>1, <1>4, HeadTailProperties, LenProperties
    <2> QED BY <1>2, <1>4, <2>1
<1>5. ASSUME NEW m, NEW it, messages'[s] = Append(q, UnusualMessage(m, it))
      PROVE  messages'[s] # Append(q, ErrorMessage)
    <2>1. UnusualMessage(m, it) # ErrorMessage
        <3>1. UnusualMessage(m, it).event = "unusual" /\ ErrorMessage.event = "error"
            BY DEF UnusualMessage, ErrorMessage
        <3> QED BY <3>1
    <2>2. /\ Append(q, ErrorMessage)[Len(q) + 1] = ErrorMessage
          /\ Append(q, UnusualMessage(m, it))[Len(q) + 1] = UnusualMessage(m, it)
        BY <1>1, ElementsAppend
    <2> QED BY <1>5, <2>1, <2>2
<1> QED BY <1>3, <1>4, <1>5

\* subscribe, ServeHTTP and unsubscribe give a notice only to the connection they
\* register.
LEMMA ConnectionNotice ==
    ASSUME HubInv, NEW t \in Subscriber, Connection(t), NEW s \in subscribers \cap subscribers'
    PROVE  NoticeRight(s)
<1>0. TypeOK /\ PcConsistent /\ s \in Subscriber
    BY DEF HubInv, RegistryInv, TypeOK
<1>1. ASSUME NEW T \in TargetSets, Subscribe(t, T) PROVE NoticeRight(s)
    <2>1. s # t
        BY <1>0, <1>1 DEF Subscribe, PcConsistent
    <2>2. failed'[s] = failed[s] /\ messages'[s] = messages[s]
        BY <1>0, <1>1, <2>1 DEF Subscribe, TypeOK
    <2> QED BY <1>0, <2>2, NoNotice
<1>2. CASE StartLoop(t) \/ NotifyPollLoop(t)
    <2>1. failed' = failed /\ messages' = messages
        BY <1>2 DEF StartLoop, NotifyPollLoop
    <2> QED BY <1>0, <2>1, NoNotice
<1>3. CASE SendNext(t)
    <2>1. failed' = failed
        BY <1>3 DEF SendNext
    <2>2. messages'[s] = messages[s] \/ (messages[s] # <<>> /\ messages'[s] = Tail(messages[s]))
        BY <1>0, <1>3 DEF SendNext, TypeOK
    <2> QED BY <1>0, <2>1, <2>2, NoNotice
<1>4. CASE Disconnect(t)
    <2>1. subscribers' = subscribers \ {t}
        BY <1>4 DEF Disconnect, RemoveLocked, Registered
    <2>2. failed'[s] = failed[s] /\ messages'[s] = messages[s]
        BY <1>0, <1>4, <2>1 DEF Disconnect, TypeOK
    <2> QED BY <1>0, <2>2, NoNotice
<1> QED BY <1>1, <1>2, <1>3, <1>4 DEF Connection

\* handlePollError gives one to every watcher that had no failed market before and
\* still has a place in its buffer; the others it drops or leaves alone.
LEMMA PollErrorNotice ==
    ASSUME HubInv, NEW l \in Subscriber, HandlePollError(l), NEW s \in subscribers \cap subscribers'
    PROVE  NoticeRight(s)
<1> DEFINE m == loop[l].market
           watchers == {t \in subscribers : Watches(t, m)}
           marked == [states EXCEPT ![m].inError = TRUE]
<1>0. TypeOK /\ s \in Subscriber
    BY DEF HubInv, RegistryInv, TypeOK
<1>1. CASE states[m] = NoState \/ states[m].inError
    <2>1. failed' = failed /\ messages' = messages
        BY <1>1 DEF HandlePollError
    <2> QED BY <1>0, <2>1, NoNotice
<1>2. CASE ~(states[m] = NoState \/ states[m].inError)
    <2>1. /\ failed'[s] = IF s \in watchers THEN failed[s] \cup {m} ELSE failed[s]
          /\ Broadcast(Notified(watchers), ErrorMessage, marked)
        BY <1>0, <1>2 DEF HandlePollError
    <2> HIDE DEF marked
    <2>2. s \in Notified(watchers) => ~Full(s)
        BY <2>1 DEF Broadcast, RemoveLocked
    <2>3. messages'[s] = IF s \in Notified(watchers) THEN Append(messages[s], ErrorMessage)
                         ELSE messages[s]
        BY <1>0, <2>1, <2>2 DEF Broadcast
    <2>4. CASE s \in Notified(watchers)
        BY <2>1, <2>3, <2>4 DEF Notified, NoticeRight
    <2>5. CASE s \notin Notified(watchers)
        <3>1. Append(messages[s], ErrorMessage) # messages[s]
            <4>1. messages[s] \in Seq(Message)
                BY <1>0 DEF TypeOK
            <4>2. Len(Append(messages[s], ErrorMessage)) = Len(messages[s]) + 1 /\ Len(messages[s]) \in Nat
                BY <4>1, ElementsAppend
            <4> QED BY <4>2
        <3>2. ~(failed[s] = {} /\ failed'[s] # {})
            BY <2>1, <2>5 DEF Notified
        <3> QED BY <2>3, <2>5, <3>1, <3>2 DEF NoticeRight
    <2> QED BY <2>4, <2>5
<1> QED BY <1>1, <1>2

\* The other steps of the loop give none: a recovery is silent.
LEMMA LoopNotice ==
    ASSUME HubInv, NEW l \in Subscriber, PollLoop(l), NEW s \in subscribers \cap subscribers'
    PROVE  NoticeRight(s)
<1>0. TypeOK /\ s \in Subscriber
    BY DEF HubInv, RegistryInv, TypeOK
<1>1. CASE \/ ActiveMarkets(l) \/ Timer(l) \/ WakeUp(l) \/ ReadState(l) \/ QueryPage(l)
           \/ PageDone(l) \/ \E m \in Market : PollMarket(l, m)
    <2>1. failed' = failed /\ messages' = messages
        BY <1>1 DEF ActiveMarkets, Timer, WakeUp, ReadState, QueryPage, PageDone, PollMarket, conns
    <2> QED BY <1>0, <2>1, NoNotice
<1>2. CASE HandleBaseline(l) \/ HandlePollItems(l)
    <2>1. messages' = messages
        BY <1>2 DEF HandleBaseline, HandlePollItems
    <2>2. failed' = failed \/ failed' = Recovered(loop[l].market)
        BY <1>2 DEF HandleBaseline, HandlePollItems
    <2>3. failed'[s] \subseteq failed[s]
        BY <1>0, <2>2 DEF Recovered
    <2> QED BY <1>0, <2>1, <2>3, NoNotice
<1>3. CASE FanOutItem(l)
    <2>1. failed' = failed
        BY <1>3 DEF FanOutItem
    <2>2. \/ messages'[s] = messages[s]
          \/ \E m, it : messages'[s] = Append(messages[s], UnusualMessage(m, it))
        BY <1>0, <1>3, FanOutHands
    <2> QED BY <1>0, <2>1, <2>2, NoNotice
<1> QED BY <1>1, <1>2, <1>3, PollErrorNotice DEF PollLoop

\* enqueueLocked gives a registered connection an error event exactly when its first
\* market fails: one notice per outage, none lost, none repeated.
THEOREM NoticePerOutage == Spec => OneErrorPerOutage
<1>1. HubInv /\ [Next]_vars =>
        [\A s \in subscribers \cap subscribers' :
           (failed[s] = {} /\ failed'[s] # {})
             <=> messages'[s] = Append(messages[s], ErrorMessage)]_vars
    <2> SUFFICES ASSUME HubInv, Next, NEW s \in subscribers \cap subscribers'
                 PROVE NoticeRight(s)
        BY DEF NoticeRight
    <2>1. CASE Environment
        <3>1. failed' = failed /\ messages' = messages
            BY <2>1 DEF Environment, Publish, Midnight, conns
        <3>2. TypeOK /\ s \in Subscriber
            BY DEF HubInv, RegistryInv, TypeOK
        <3> QED BY <3>1, <3>2, NoNotice
    <2> QED BY <2>1, ConnectionNotice, LoopNotice DEF Next
<1> QED BY HubInvariant, <1>1, PTL DEF Spec, OneErrorPerOutage
=============================================================================
