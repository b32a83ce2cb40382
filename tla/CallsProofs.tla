----------------------------- MODULE CallsProofs -----------------------------
(***************************************************************************)
(* The cache of decimal points, and the calls that take several queries    *)
(* side by side (MCCalls).                                                 *)
(***************************************************************************)
EXTENDS MCCalls, PagingProofs, RoutesProofs, SequenceTheorems, TLAPS

-----------------------------------------------------------------------------
(***************************************************************************)
(* MissingMeansFailure and ScaleIsKept for any goroutines, markets, lists, *)
(* batches and length of a page, proved with TLAPS.                        *)
(*                                                                         *)
(* The argument: nothing is taken out of the cache, so that a key a call   *)
(* was given stays (ScaleOf).  While a list is read page by page, codes    *)
(* only move towards its end: each of those listed from the beginning is   *)
(* cached, on the page just read, or beyond what was read (LoadSoFar), so  *)
(* that a page that is not full leaves none out, and a market that is      *)
(* marked has them all (MarkedIsWhole).  What a call still misses is       *)
(* therefore to be looked up, to be loaded, loaded by somebody, or lost    *)
(* with a request of its own (MissingOf).                                  *)
(***************************************************************************)

\* The codes that a market listed from the beginning.
AtFirst(m) == ToSet(Lists[m])

\* All places of code x in the list are after the first n.
Beyond(m, x, n) == \A i \in 1..Len(listed[m]) : listed[m][i] = x => i > n

CachedOf(m) == \A x \in AtFirst(m) : <<m, x>> \in cached

\* No code is taken off a list, and a code that is added was not on it.
NothingDelisted == \A m \in Market : AtFirst(m) \subseteq ToSet(listed[m])

MarkedIsWhole == \A m \in loaded : CachedOf(m)

CacheTyped ==
  /\ cached \subseteq Key /\ loaded \subseteq Market /\ given \subseteq cached /\ calls \in Nat
  /\ listed \in [Market -> Seq(Code)]
  /\ caller \in [Caller -> Call]

CallTyped(c) ==
  /\ caller[c] \in Call
  /\ caller[c].out \cup caller[c].todo \subseteq caller[c].keys
  /\ caller[c].pc \in {"loaded", "page", "store", "mark"} => caller[c].market \in Market

\* What a call found is cached, and so is what was once given.
ScaleOf(c) ==
  /\ caller[c].out \subseteq cached
  /\ caller[c].owed \subseteq cached \cap caller[c].keys
  /\ At(c, "again") => caller[c].owed \subseteq caller[c].out \cup caller[c].todo
  /\ At(c, "done") => caller[c].owed \subseteq caller[c].out

\* Where the codes of the list being read are.
LoadSoFar(c) ==
  LET r == caller[c] IN
  /\ At(c, "page") => \A x \in AtFirst(r.market) :
       <<r.market, x>> \in cached \/ Beyond(r.market, x, r.start)
  /\ At(c, "store") => \A x \in AtFirst(r.market) :
       \/ <<r.market, x>> \in cached
       \/ x \in ToSet(r.items)
       \/ ListPage <= Len(r.items) /\ Beyond(r.market, x, r.start + ListPage)
  /\ At(c, "mark") => CachedOf(r.market)

\* The code is cached, or its market's list is to be read, or was asked for in vain.
Held(c, m, x) == <<m, x>> \in cached \/ m \in caller[c].markets \/ m \in caller[c].failed

\* What becomes of the codes a call misses.
MissingOf(c) ==
  \A m \in Market, x \in Code :
    x \in AtFirst(m) /\ <<m, x>> \in caller[c].keys \ caller[c].out =>
      /\ At(c, "cached") => <<m, x>> \in caller[c].todo \/ Held(c, m, x)
      /\ At(c, "loaded") => <<m, x>> \in caller[c].todo \/ m = caller[c].market \/ Held(c, m, x)
      /\ At(c, "markets") => Held(c, m, x)
      /\ caller[c].pc \in {"page", "store", "mark"} => m = caller[c].market \/ Held(c, m, x)
      /\ At(c, "again") => m \in caller[c].failed \/ <<m, x>> \in caller[c].todo \cap cached
      /\ At(c, "done") => m \in caller[c].failed

CallInv(c) == CallTyped(c) /\ ScaleOf(c) /\ LoadSoFar(c) /\ MissingOf(c)

DecimalInv ==
  /\ CacheTyped /\ NothingDelisted /\ MarkedIsWhole
  /\ \A c \in Caller : CallInv(c)

-----------------------------------------------------------------------------
(* Lemmas about the operators.                                             *)

\* The keys of a market, given what its list begins with.
LEMMA AtFirstCodes == ASSUME NEW m \in Market PROVE AtFirst(m) \subseteq Code
BY DecimalAssumption, ElementOfSeq DEF AtFirst, ToSet

\* A page holds the codes between its places, and is full unless the list ends on it.
LEMMA ListPageFacts ==
  ASSUME NEW m \in Market, listed[m] \in Seq(Code), NEW n \in Nat
  PROVE  /\ PageAt(m, n) \in Seq(Code)
         /\ Len(listed[m]) >= n + ListPage => Len(PageAt(m, n)) = ListPage
         /\ \A i \in 1..Len(listed[m]) : n < i /\ i <= n + ListPage => listed[m][i] \in ToSet(PageAt(m, n))
<1> DEFINE l    == listed[m]
           last == IF n + ListPage < Len(l) THEN n + ListPage ELSE Len(l)
<1>1. l \in Seq(Code) /\ Len(l) \in Nat /\ ListPage \in Nat \ {0} /\ last \in Nat /\ last <= Len(l)
  BY DecimalAssumption, LenProperties
<1>2. PageAt(m, n) = SubSeq(l, n + 1, last)
  BY DEF PageAt
<1>3. \A i \in (n + 1)..last : i \in 1..Len(l)
  BY <1>1
<1> HIDE DEF l, last
<1>4. /\ SubSeq(l, n + 1, last) \in Seq(Code)
      /\ Len(SubSeq(l, n + 1, last)) = IF n + 1 <= last THEN last - (n + 1) + 1 ELSE 0
      /\ \A i \in 1..(last - (n + 1) + 1) : SubSeq(l, n + 1, last)[i] = l[n + 1 + i - 1]
  BY <1>1, <1>3, SubSeqProperties
<1>5. Len(l) >= n + ListPage => Len(PageAt(m, n)) = ListPage
  BY <1>1, <1>2, <1>4 DEF last
<1>6. ASSUME NEW i \in 1..Len(l), n < i, i <= n + ListPage
      PROVE  l[i] \in ToSet(PageAt(m, n))
  <2>1. i <= last /\ i - n \in 1..(last - (n + 1) + 1) /\ n + 1 + (i - n) - 1 = i
    BY <1>1, <1>6 DEF last
  <2>2. PageAt(m, n)[i - n] = l[i]
    BY <1>2, <1>4, <2>1
  <2>3. i - n \in DOMAIN PageAt(m, n)
    BY <1>1, <1>2, <1>4, <2>1
  <2> QED BY <2>2, <2>3 DEF ToSet
<1> QED BY <1>2, <1>4, <1>5, <1>6 DEF l

\* A code that was not on a list moves the others towards its end, where it is put in.
LEMMA InsertFacts ==
  ASSUME NEW l \in Seq(Code), NEW i \in 1..(Len(l) + 1), NEW y \in Code
  PROVE  /\ InsertAt(l, i, y) \in Seq(Code)
         /\ ToSet(l) \subseteq ToSet(InsertAt(l, i, y))
         /\ \A j \in 1..Len(InsertAt(l, i, y)) :
              InsertAt(l, i, y)[j] = y
                \/ \E k \in 1..Len(l) : k <= j /\ InsertAt(l, i, y)[j] = l[k]
<1> DEFINE n     == Len(l)
           front == SubSeq(l, 1, i - 1)
           back  == SubSeq(l, i, n)
           upto  == front \o <<y>>
           all   == upto \o back
<1>1. n \in Nat /\ i \in Nat /\ i <= n + 1 /\ \A k \in 1..n : l[k] \in Code
  BY LenProperties, ElementOfSeq
<1>2. /\ front \in Seq(Code) /\ Len(front) = i - 1
      /\ \A k \in 1..(i - 1) : front[k] = l[k]
  <2>1. \A k \in 1..(i - 1) : l[k] \in Code
    BY <1>1
  <2>2. /\ SubSeq(l, 1, i - 1) \in Seq(Code)
        /\ Len(SubSeq(l, 1, i - 1)) = IF 1 <= i - 1 THEN i - 1 - 1 + 1 ELSE 0
        /\ \A k \in 1..(i - 1 - 1 + 1) : SubSeq(l, 1, i - 1)[k] = l[1 + k - 1]
    BY <1>1, <2>1, SubSeqProperties
  <2> QED BY <1>1, <2>2
<1>3. /\ back \in Seq(Code) /\ Len(back) = n - i + 1
      /\ \A k \in 1..(n - i + 1) : back[k] = l[i + k - 1]
  <2>1. \A k \in i..n : l[k] \in Code
    BY <1>1
  <2> HIDE DEF n
  <2>2. /\ SubSeq(l, i, n) \in Seq(Code)
        /\ Len(SubSeq(l, i, n)) = IF i <= n THEN n - i + 1 ELSE 0
        /\ \A k \in 1..(n - i + 1) : SubSeq(l, i, n)[k] = l[i + k - 1]
    BY <1>1, <2>1, SubSeqProperties
  <2> QED BY <1>1, <2>2 DEF n
<1> HIDE DEF front, back, n
<1>4. /\ upto \in Seq(Code) /\ Len(upto) = i
      /\ \A k \in 1..i : upto[k] = IF k < i THEN l[k] ELSE y
  <2>1. <<y>> \in Seq(Code) /\ Len(<<y>>) = 1 /\ <<y>>[1] = y
    OBVIOUS
  <2>2. /\ front \o <<y>> \in Seq(Code) /\ Len(front \o <<y>>) = Len(front) + Len(<<y>>)
        /\ \A k \in 1..(Len(front) + Len(<<y>>)) :
             (front \o <<y>>)[k] = IF k <= Len(front) THEN front[k] ELSE <<y>>[k - Len(front)]
    BY <1>2, <2>1, ConcatProperties
  <2> QED BY <1>1, <1>2, <2>1, <2>2
<1> HIDE DEF upto
<1>5. /\ all \in Seq(Code) /\ Len(all) = n + 1
      /\ \A k \in 1..(n + 1) : all[k] = IF k < i THEN l[k] ELSE IF k = i THEN y ELSE l[k - 1]
  <2>1. /\ upto \o back \in Seq(Code) /\ Len(upto \o back) = Len(upto) + Len(back)
        /\ \A k \in 1..(Len(upto) + Len(back)) :
             (upto \o back)[k] = IF k <= Len(upto) THEN upto[k] ELSE back[k - Len(upto)]
    BY <1>3, <1>4, ConcatProperties
  <2>2. Len(upto) + Len(back) = n + 1
    BY <1>1, <1>3, <1>4
  <2>3. ASSUME NEW k \in 1..(n + 1)
        PROVE  all[k] = IF k < i THEN l[k] ELSE IF k = i THEN y ELSE l[k - 1]
    <3>1. CASE k <= i
      BY <1>1, <1>4, <2>1, <2>2, <3>1
    <3>2. CASE ~(k <= i)
      <4>1. k - i \in 1..(n - i + 1) /\ i + (k - i) - 1 = k - 1
        BY <1>1, <3>2
      <4>2. all[k] = back[k - i]
        BY <1>1, <1>4, <2>1, <2>2, <3>2
      <4> QED BY <1>1, <1>3, <3>2, <4>1, <4>2
    <3> QED BY <3>1, <3>2
  <2> QED BY <2>1, <2>2, <2>3
<1>6. InsertAt(l, i, y) = all
  BY DEF InsertAt, upto, front, back, n
<1> HIDE DEF all
<1>7. ToSet(l) \subseteq ToSet(all)
  <2> SUFFICES ASSUME NEW k \in 1..n PROVE l[k] \in ToSet(all)
    BY LenProperties DEF ToSet, n
  <2>1. DOMAIN all = 1..(n + 1)
    BY <1>5, LenProperties
  <2>2. IF k < i THEN k \in DOMAIN all /\ all[k] = l[k] ELSE k + 1 \in DOMAIN all /\ all[k + 1] = l[k]
    BY <1>1, <1>5, <2>1
  <2> QED BY <2>2 DEF ToSet
<1>8. \A j \in 1..Len(all) : all[j] = y \/ \E k \in 1..n : k <= j /\ all[j] = l[k]
  <2> SUFFICES ASSUME NEW j \in 1..Len(all)
               PROVE  all[j] = y \/ \E k \in 1..n : k <= j /\ all[j] = l[k]
    OBVIOUS
  <2>1. CASE j < i
    <3>1. j \in 1..n /\ j <= j /\ all[j] = l[j]
      BY <1>1, <1>5, <2>1
    <3> QED BY <3>1
  <2>2. CASE j > i
    <3>1. j - 1 \in 1..n /\ j - 1 <= j /\ all[j] = l[j - 1]
      BY <1>1, <1>5, <2>2
    <3> QED BY <3>1
  <2>3. CASE j = i
    BY <1>1, <1>5, <2>3
  <2>4. j \in Int /\ i \in Int
    BY <1>1
  <2> QED BY <2>1, <2>2, <2>3, <2>4
<1> QED BY <1>5, <1>6, <1>7, <1>8 DEF n

-----------------------------------------------------------------------------
(* The steps.                                                              *)

\* The invariant holds of an empty cache.
LEMMA InitDecimal == DecimalInit => DecimalInv
<1> SUFFICES ASSUME DecimalInit PROVE DecimalInv
  OBVIOUS
<1>1. CacheTyped /\ NothingDelisted /\ MarkedIsWhole
  <2>1. << >> \in Seq(Code)
    OBVIOUS
  <2>2. Idle \in Call
    BY <2>1 DEF Idle, Call
  <2> QED BY <2>2, DecimalAssumption DEF DecimalInit, CacheTyped, NothingDelisted, AtFirst, MarkedIsWhole
<1>2. ASSUME NEW c \in Caller PROVE CallInv(c)
  <2>1. caller[c] = Idle
    BY DEF DecimalInit
  <2>2. << >> \in Seq(Code)
    OBVIOUS
  <2>3. CallTyped(c)
    BY <2>1, <2>2 DEF CallTyped, Call, Idle
  <2> QED BY <2>1, <2>3 DEF CallInv, ScaleOf, LoadSoFar, MissingOf, Idle, At
<1> QED BY <1>1, <1>2 DEF DecimalInv

\* A goroutine that does nothing loses nothing by what is cached or listed meanwhile.
LEMMA OthersKeep ==
  ASSUME NEW q \in Caller, CallInv(q), caller'[q] = caller[q], cached \subseteq cached',
         \A m \in Market : \A x \in AtFirst(m), n \in Nat : Beyond(m, x, n) => Beyond(m, x, n)'
  PROVE  CallInv(q)'
<1> DEFINE r == caller[q]
<1>1. CallTyped(q)'
  BY DEF CallInv, CallTyped
<1>2. ScaleOf(q)'
  BY DEF CallInv, ScaleOf, At
<1>3. LoadSoFar(q)'
  <2>1. CASE At(q, "page")
    <3>1. r.market \in Market /\ r.start \in Nat
      BY <2>1 DEF CallInv, CallTyped, Call, At
    <3> QED BY <2>1, <3>1 DEF CallInv, LoadSoFar, At, Beyond, AtFirst
  <2>2. CASE At(q, "store")
    <3>1. r.market \in Market /\ r.start + ListPage \in Nat
      BY <2>2, DecimalAssumption DEF CallInv, CallTyped, Call, At
    <3> QED BY <2>2, <3>1 DEF CallInv, LoadSoFar, At, Beyond, AtFirst
  <2>3. CASE At(q, "mark")
    BY <2>3 DEF CallInv, LoadSoFar, At, CachedOf, AtFirst
  <2> QED BY <2>1, <2>2, <2>3 DEF LoadSoFar, At
<1>4. MissingOf(q)'
  BY DEF CallInv, MissingOf, Held, At
<1> QED BY <1>1, <1>2, <1>3, <1>4 DEF CallInv

\* A step of one goroutine that changes nothing but its own call.
LEMMA OwnStep ==
  ASSUME DecimalInv, NEW c \in Caller, UNCHANGED <<cached, loaded, listed, given>>, calls' \in Nat,
         caller' \in [Caller -> Call], \A q \in Caller \ {c} : caller'[q] = caller[q],
         CallInv(c)'
  PROVE  DecimalInv'
<1>1. CacheTyped' /\ NothingDelisted' /\ MarkedIsWhole'
  BY DEF DecimalInv, CacheTyped, NothingDelisted, MarkedIsWhole, CachedOf, AtFirst
<1>2. \A m \in Market : \A x \in AtFirst(m), n \in Nat : Beyond(m, x, n) => Beyond(m, x, n)'
  BY DEF Beyond
<1>3. \A q \in Caller \ {c} : CallInv(q)'
  BY <1>2, OthersKeep DEF DecimalInv
<1> QED BY <1>1, <1>3 DEF DecimalInv

\* The call of a goroutine after a step that gives it the record r.
LEMMA Updated ==
  ASSUME CacheTyped, NEW c \in Caller, NEW r \in Call, Update(c, r)
  PROVE  /\ caller'[c] = r /\ caller' \in [Caller -> Call]
         /\ \A q \in Caller \ {c} : caller'[q] = caller[q]
BY DEF Update, CacheTyped

\* A step that changes nothing but the call of one goroutine.
LEMMA CallStep ==
  ASSUME DecimalInv, NEW c \in Caller, NEW r \in Call, Update(c, r),
         UNCHANGED <<cached, loaded, listed, given>>, calls' \in Nat,
         caller'[c] = r => CallInv(c)'
  PROVE  DecimalInv'
<1>1. caller'[c] = r /\ caller' \in [Caller -> Call] /\ \A q \in Caller \ {c} : caller'[q] = caller[q]
  BY Updated DEF DecimalInv
<1> QED BY <1>1, OwnStep

\* A new call keeps the invariant: it remembers which of its keys had been given.
LEMMA QuoteStep ==
  ASSUME DecimalInv, NEW c \in Caller, Quote(c)
  PROVE  DecimalInv'
<1>1. PICK keys \in Batches :
        Update(c, [Idle EXCEPT !.pc = "cached", !.keys = keys, !.todo = keys, !.owed = given \cap keys])
  BY DEF Quote
<1> DEFINE r == [Idle EXCEPT !.pc = "cached", !.keys = keys, !.todo = keys, !.owed = given \cap keys]
<1>2. keys \subseteq Key /\ << >> \in Seq(Code) /\ CacheTyped
  BY DecimalAssumption DEF Key, DecimalInv
<1>3. r \in Call /\ r.pc = "cached" /\ r.keys = keys /\ r.todo = keys /\ r.out = {} /\ r.owed = given \cap keys
  BY <1>2 DEF Call, Idle
<1> HIDE DEF r
<1>4. UNCHANGED <<cached, loaded, listed, given>> /\ calls' \in Nat
  BY <1>2 DEF Quote, CacheTyped
<1>5. caller'[c] = r => CallInv(c)'
  BY <1>2, <1>3, <1>4 DEF CallInv, CallTyped, ScaleOf, LoadSoFar, MissingOf, At, CacheTyped
<1> QED BY <1>1, <1>3, <1>4, <1>5, CallStep DEF r

\* Looking a key up keeps the invariant: a key that is given is in the cache.
LEMMA LookUpStep ==
  ASSUME DecimalInv, NEW c \in Caller, LookUp(c)
  PROVE  DecimalInv'
<1> DEFINE r == caller[c]
<1>1. CacheTyped /\ CallInv(c) /\ r.pc = "cached" /\ r \in Call
  BY DEF DecimalInv, LookUp, At, CallInv, CallTyped
<1>2. UNCHANGED <<cached, loaded, listed, given>> /\ calls' \in Nat
  BY <1>1 DEF LookUp, CacheTyped
<1>3. ASSUME r.todo = {}, Update(c, [r EXCEPT !.pc = "markets"])
      PROVE  DecimalInv'
  <2> DEFINE s == [r EXCEPT !.pc = "markets"]
  <2>1. s \in Call
    BY <1>1 DEF Call, Key
  <2>2. caller'[c] = s => CallInv(c)'
    BY <1>1, <1>2, <1>3, <2>1 DEF CallInv, CallTyped, ScaleOf, LoadSoFar, MissingOf, Held, At, Call
  <2> QED BY <1>2, <1>3, <2>1, <2>2, CallStep
<1>4. ASSUME NEW k \in r.todo, k \in cached,
             Update(c, [r EXCEPT !.todo = @ \ {k}, !.out = @ \cup {k}])
      PROVE  DecimalInv'
  <2> DEFINE s == [r EXCEPT !.todo = @ \ {k}, !.out = @ \cup {k}]
  <2>1. s \in Call
    BY <1>1 DEF Call, Key
  <2>2. caller'[c] = s => CallInv(c)'
    BY <1>1, <1>2, <1>4, <2>1 DEF CallInv, CallTyped, ScaleOf, LoadSoFar, MissingOf, Held, At, Call
  <2> QED BY <1>2, <1>4, <2>1, <2>2, CallStep
<1>5. ASSUME NEW k \in r.todo, k \notin cached,
             Update(c, [r EXCEPT !.todo = @ \ {k}, !.market = k[1], !.pc = "loaded"])
      PROVE  DecimalInv'
  <2> DEFINE s == [r EXCEPT !.todo = @ \ {k}, !.market = k[1], !.pc = "loaded"]
  <2>1. s \in Call /\ k[1] \in Market
    BY <1>1 DEF Call, Key
  <2>2. caller'[c] = s => CallInv(c)'
    BY <1>1, <1>2, <1>5, <2>1 DEF CallInv, CallTyped, ScaleOf, LoadSoFar, MissingOf, Held, At, Call
  <2> QED BY <1>2, <1>5, <2>1, <2>2, CallStep
<1> QED BY <1>3, <1>4, <1>5 DEF LookUp

\* So does noting which markets have to be loaded.
LEMMA NeedsMarketStep ==
  ASSUME DecimalInv, NEW c \in Caller, NeedsMarket(c)
  PROVE  DecimalInv'
<1> DEFINE r == caller[c]
<1>1. CacheTyped /\ CallInv(c) /\ r.pc = "loaded" /\ r \in Call
  BY DEF DecimalInv, NeedsMarket, At, CallInv, CallTyped
<1>2. UNCHANGED <<cached, loaded, listed, given>> /\ calls' \in Nat
  BY <1>1 DEF NeedsMarket, CacheTyped
<1>3. MarkedIsWhole /\ r.market \in Market
  BY <1>1 DEF DecimalInv, CallInv, CallTyped
<1>4. ASSUME r.market \in loaded, Update(c, [r EXCEPT !.pc = "cached", !.markets = @])
      PROVE  DecimalInv'
  <2> DEFINE s == [r EXCEPT !.pc = "cached", !.markets = @]
  <2>1. s \in Call
    BY <1>1 DEF Call, Key
  <2>2. caller'[c] = s => CallInv(c)'
    BY <1>1, <1>2, <1>3, <1>4, <2>1 DEF CallInv, CallTyped, ScaleOf, LoadSoFar, MissingOf, Held, At, Call, MarkedIsWhole, CachedOf
  <2> QED BY <1>2, <1>3, <1>4, <2>1, <2>2, CallStep
<1>5. ASSUME Update(c, [r EXCEPT !.pc = "cached", !.markets = @ \cup {r.market}])
      PROVE  DecimalInv'
  <2> DEFINE s == [r EXCEPT !.pc = "cached", !.markets = @ \cup {r.market}]
  <2>1. s \in Call
    BY <1>1, <1>3 DEF Call, Key
  <2>2. caller'[c] = s => CallInv(c)'
    BY <1>1, <1>2, <1>3, <1>5, <2>1 DEF CallInv, CallTyped, ScaleOf, LoadSoFar, MissingOf, Held, At, Call
  <2> QED BY <1>2, <1>3, <1>5, <2>1, <2>2, CallStep
<1> QED BY <1>4, <1>5 DEF NeedsMarket

\* So does starting to load a market: nothing of it has been read.
LEMMA StartLoadStep ==
  ASSUME DecimalInv, NEW c \in Caller, StartLoad(c)
  PROVE  DecimalInv'
<1> DEFINE r == caller[c]
<1>1. CacheTyped /\ CallInv(c) /\ r.pc = "markets" /\ r \in Call
  BY DEF DecimalInv, StartLoad, At, CallInv, CallTyped
<1>2. UNCHANGED <<cached, loaded, listed, given>> /\ calls' \in Nat
  BY <1>1 DEF StartLoad, CacheTyped
<1>3. MarkedIsWhole
  BY DEF DecimalInv
<1>4. ASSUME NEW m \in r.markets, m \in loaded, Update(c, [r EXCEPT !.markets = @ \ {m}, !.market = m, !.start = 0])
      PROVE  DecimalInv'
  <2> DEFINE s == [r EXCEPT !.markets = @ \ {m}, !.market = m, !.start = 0]
  <2>1. s \in Call
    BY <1>1 DEF Call, Key
  <2>2. caller'[c] = s => CallInv(c)'
    BY <1>1, <1>2, <1>3, <1>4, <2>1 DEF CallInv, CallTyped, ScaleOf, LoadSoFar, MissingOf, Held, At, Call, MarkedIsWhole, CachedOf
  <2> QED BY <1>2, <1>3, <1>4, <2>1, <2>2, CallStep
<1>5. ASSUME NEW m \in r.markets,
             Update(c, [r EXCEPT !.markets = @ \ {m}, !.market = m, !.start = 0, !.pc = "page"])
      PROVE  DecimalInv'
  <2> DEFINE s == [r EXCEPT !.markets = @ \ {m}, !.market = m, !.start = 0, !.pc = "page"]
  <2>1. s \in Call /\ m \in Market
    BY <1>1 DEF Call, Key
  <2>2. caller'[c] = s => CallInv(c)'
    BY <1>1, <1>2, <1>5, <2>1 DEF CallInv, CallTyped, ScaleOf, LoadSoFar, MissingOf, Held, At, Call, Beyond
  <2> QED BY <1>2, <1>5, <2>1, <2>2, CallStep
<1> QED BY <1>4, <1>5 DEF StartLoad

\* So does a page: what was listed is cached, on this page or beyond it.
LEMMA LoadPageStep ==
  ASSUME DecimalInv, NEW c \in Caller, LoadPage(c)
  PROVE  DecimalInv'
<1> DEFINE r == caller[c]
<1>1. CacheTyped /\ CallInv(c) /\ r.pc = "page" /\ r \in Call
  BY DEF DecimalInv, LoadPage, At, CallInv, CallTyped
<1>2. UNCHANGED <<cached, loaded, listed, given>> /\ calls' \in Nat
  BY <1>1 DEF LoadPage, CacheTyped
<1> DEFINE page == PageAt(r.market, r.start)
           s    == [r EXCEPT !.pc = "store", !.items = page]
<1>3. r.market \in Market /\ r.start \in Nat /\ listed[r.market] \in Seq(Code) /\ ListPage \in Nat
      /\ Len(listed[r.market]) \in Nat /\ DOMAIN listed[r.market] = 1..Len(listed[r.market])
  BY <1>1, DecimalAssumption, LenProperties DEF CacheTyped, CallInv, CallTyped, Call
<1>4. /\ page \in Seq(Code)
      /\ Len(listed[r.market]) >= r.start + ListPage => Len(page) = ListPage
      /\ \A i \in 1..Len(listed[r.market]) :
           r.start < i /\ i <= r.start + ListPage => listed[r.market][i] \in ToSet(page)
  BY <1>3, ListPageFacts
<1> HIDE DEF page
<1>5. s \in Call /\ s.pc = "store" /\ s.items = page /\ s.market = r.market /\ s.start = r.start
      /\ s.keys = r.keys /\ s.todo = r.todo /\ s.out = r.out /\ s.owed = r.owed
      /\ s.markets = r.markets /\ s.failed = r.failed
  BY <1>1, <1>4 DEF Call
\* A code that is not on the page is beyond it, and the page is full.
<1>6. ASSUME NEW x \in AtFirst(r.market), <<r.market, x>> \notin cached, x \notin ToSet(page)
      PROVE  ListPage <= Len(page) /\ Beyond(r.market, x, r.start + ListPage)
  <2>1. Beyond(r.market, x, r.start)
    BY <1>1, <1>6 DEF CallInv, LoadSoFar, At
  <2>2. Beyond(r.market, x, r.start + ListPage)
    BY <1>3, <1>4, <1>6, <2>1 DEF Beyond
  <2>3. PICK i \in 1..Len(listed[r.market]) : listed[r.market][i] = x
    BY <1>3, <1>6 DEF DecimalInv, NothingDelisted, ToSet
  <2>4. Len(listed[r.market]) >= r.start + ListPage
    BY <1>3, <2>2, <2>3 DEF Beyond
  <2> QED BY <1>3, <1>4, <2>2, <2>4
<1>7. ASSUME caller'[c] = s PROVE CallInv(c)'
  <2>1. LoadSoFar(c)'
    <3>1. \A x \in AtFirst(r.market) :
            \/ <<r.market, x>> \in cached \/ x \in ToSet(page)
            \/ ListPage <= Len(page) /\ Beyond(r.market, x, r.start + ListPage)
      BY <1>6
    <3> QED BY <1>2, <1>5, <1>7, <3>1 DEF LoadSoFar, At, Beyond, AtFirst
  <2>2. CallTyped(c)' /\ ScaleOf(c)' /\ MissingOf(c)'
    BY <1>1, <1>2, <1>3, <1>5, <1>7 DEF CallInv, CallTyped, ScaleOf, MissingOf, Held, At
  <2> QED BY <2>1, <2>2 DEF CallInv
<1> QED BY <1>2, <1>5, <1>7, CallStep DEF LoadPage, page

\* So does a load that fails, which the call remembers.
LEMMA LoadFailsStep ==
  ASSUME DecimalInv, NEW c \in Caller, LoadFails(c)
  PROVE  DecimalInv'
<1> DEFINE r == caller[c]
<1>1. CacheTyped /\ CallInv(c) /\ r.pc = "page" /\ r \in Call
  BY DEF DecimalInv, LoadFails, At, CallInv, CallTyped
<1>2. UNCHANGED <<cached, loaded, listed, given>> /\ calls' \in Nat
  BY <1>1 DEF LoadFails, CacheTyped
<1>3. r.market \in Market
  BY <1>1 DEF CallInv, CallTyped
<1>4. Update(c, [r EXCEPT !.pc = "markets", !.failed = @ \cup {r.market}, !.start = 0])
  BY DEF LoadFails, AfterFailure
<1> QED
  <2> DEFINE s == [r EXCEPT !.pc = "markets", !.failed = @ \cup {r.market}, !.start = 0]
  <2>1. s \in Call
    BY <1>1, <1>3 DEF Call, Key
  <2>2. caller'[c] = s => CallInv(c)'
    BY <1>1, <1>2, <1>4, <2>1 DEF CallInv, CallTyped, ScaleOf, LoadSoFar, MissingOf, Held, At, Call
  <2> QED BY <1>2, <1>4, <2>1, <2>2, CallStep

\* So does going on when no market is left to load.
LEMMA LoadsDoneStep ==
  ASSUME DecimalInv, NEW c \in Caller, LoadsDone(c)
  PROVE  DecimalInv'
<1> DEFINE r == caller[c]
<1>1. CacheTyped /\ CallInv(c) /\ r.pc = "markets" /\ r \in Call
  BY DEF DecimalInv, LoadsDone, At, CallInv, CallTyped
<1>2. UNCHANGED <<cached, loaded, listed, given>> /\ calls' \in Nat
  BY <1>1 DEF LoadsDone, CacheTyped
<1>3. r.markets = {} /\ Update(c, [r EXCEPT !.pc = "again", !.todo = r.keys \ r.out])
  BY DEF LoadsDone
<1> QED
  <2> DEFINE s == [r EXCEPT !.pc = "again", !.todo = r.keys \ r.out]
  <2>1. s \in Call
    BY <1>1 DEF Call, Key
  <2>2. caller'[c] = s => CallInv(c)'
    BY <1>1, <1>2, <1>3, <2>1 DEF CallInv, CallTyped, ScaleOf, LoadSoFar, MissingOf, Held, At, Call
  <2> QED BY <1>2, <1>3, <2>1, <2>2, CallStep

\* So does the second look: a key still missing has a market that failed or is new.
LEMMA LookUpAgainStep ==
  ASSUME DecimalInv, NEW c \in Caller, LookUpAgain(c)
  PROVE  DecimalInv'
<1> DEFINE r == caller[c]
<1>1. CacheTyped /\ CallInv(c) /\ r.pc = "again" /\ r \in Call
  BY DEF DecimalInv, LookUpAgain, At, CallInv, CallTyped
<1>2. UNCHANGED <<cached, loaded, listed, given>> /\ calls' \in Nat
  BY <1>1 DEF LookUpAgain, CacheTyped
<1>3. PICK k \in r.todo : Update(c, [r EXCEPT !.todo = @ \ {k}, !.out = @ \cup ({k} \cap cached)])
  BY DEF LookUpAgain
<1> QED
  <2> DEFINE s == [r EXCEPT !.todo = @ \ {k}, !.out = @ \cup ({k} \cap cached)]
  <2>1. s \in Call
    BY <1>1 DEF Call, Key
  <2>2. caller'[c] = s => CallInv(c)'
    BY <1>1, <1>2, <1>3, <2>1 DEF CallInv, CallTyped, ScaleOf, LoadSoFar, MissingOf, Held, At, Call
  <2> QED BY <1>2, <1>3, <2>1, <2>2, CallStep

\* So does returning.
LEMMA ReturnStep ==
  ASSUME DecimalInv, NEW c \in Caller, Return(c)
  PROVE  DecimalInv'
<1> DEFINE r == caller[c]
<1>1. CacheTyped /\ CallInv(c) /\ r.pc = "done" /\ r \in Call
  BY DEF DecimalInv, Return, At, CallInv, CallTyped
<1>2. UNCHANGED <<cached, loaded, listed, given>> /\ calls' \in Nat
  BY <1>1 DEF Return, CacheTyped
<1>3. Idle \in Call /\ Update(c, Idle)
  <2>1. << >> \in Seq(Code)
    OBVIOUS
  <2> QED BY <2>1 DEF Return, Idle, Call
<1>4. caller'[c] = Idle => CallInv(c)'
  BY <1>1, <1>2, <1>3 DEF CallInv, CallTyped, ScaleOf, LoadSoFar, MissingOf, At, Idle
<1> QED BY <1>2, <1>3, <1>4, CallStep

\* So does storing a page: the cache only grows.
LEMMA StorePageStep ==
  ASSUME DecimalInv, NEW c \in Caller, StorePage(c)
  PROVE  DecimalInv'
<1> DEFINE r == caller[c]
<1>1. CacheTyped /\ CallInv(c) /\ r.pc = "store" /\ r \in Call /\ NothingDelisted /\ MarkedIsWhole
  BY DEF DecimalInv, StorePage, At, CallInv, CallTyped
<1> DEFINE s == [r EXCEPT !.pc = IF Len(r.items) < ListPage THEN "mark" ELSE "page",
                          !.start = @ + ListPage, !.items = << >>]
<1>2. /\ r.market \in Market /\ r.items \in Seq(Code) /\ r.start \in Nat
      /\ Len(r.items) \in Nat /\ ListPage \in Nat
  BY <1>1, DecimalAssumption, LenProperties DEF CallInv, CallTyped, Call
<1>3. /\ s \in Call /\ s.pc = IF Len(r.items) < ListPage THEN "mark" ELSE "page"
      /\ s.start = r.start + ListPage /\ s.market = r.market
      /\ s.keys = r.keys /\ s.todo = r.todo /\ s.out = r.out /\ s.owed = r.owed
      /\ s.markets = r.markets /\ s.failed = r.failed
  <2>1. << >> \in Seq(Code) /\ r.start + ListPage \in Nat
    BY <1>2
  <2> QED BY <1>1, <2>1 DEF Call
<1>4. UNCHANGED <<loaded, listed, given>> /\ calls' \in Nat /\ Update(c, s)
  BY <1>1 DEF StorePage, CacheTyped
<1>5. cached' = cached \cup ({r.market} \X ToSet(r.items))
  BY DEF StorePage, Stored
<1>6. ToSet(r.items) \subseteq Code
  BY <1>2, LenProperties, ElementOfSeq DEF ToSet
<1>7. cached \subseteq cached' /\ cached' \subseteq Key
  BY <1>1, <1>2, <1>5, <1>6 DEF CacheTyped, Key
<1> HIDE DEF s
<1>8. caller'[c] = s /\ caller' \in [Caller -> Call] /\ \A q \in Caller \ {c} : caller'[q] = caller[q]
  BY <1>1, <1>3, <1>4, Updated
<1>9. CallInv(c)'
  <2>1. CallTyped(c)' /\ ScaleOf(c)' /\ MissingOf(c)'
    BY <1>1, <1>2, <1>3, <1>7, <1>8 DEF CallInv, CallTyped, ScaleOf, MissingOf, Held, At
  <2>2. \A x \in AtFirst(r.market) :
          \/ <<r.market, x>> \in cached'
          \/ ListPage <= Len(r.items) /\ Beyond(r.market, x, r.start + ListPage)
    BY <1>1, <1>5 DEF CallInv, LoadSoFar, At
  <2>3. LoadSoFar(c)'
    <3>1. CASE Len(r.items) < ListPage
      BY <1>2, <1>3, <1>8, <2>2, <3>1 DEF LoadSoFar, At, CachedOf, AtFirst
    <3>2. CASE ~(Len(r.items) < ListPage)
      BY <1>3, <1>4, <1>8, <2>2, <3>2 DEF LoadSoFar, At, Beyond, AtFirst
    <3> QED BY <3>1, <3>2
  <2> QED BY <2>1, <2>3 DEF CallInv
<1>10. CacheTyped' /\ NothingDelisted' /\ MarkedIsWhole'
  BY <1>1, <1>4, <1>7, <1>8 DEF CacheTyped, NothingDelisted, MarkedIsWhole, CachedOf, AtFirst
<1>11. \A q \in Caller \ {c} : CallInv(q)'
  <2>1. \A m \in Market : \A x \in AtFirst(m), n \in Nat : Beyond(m, x, n) => Beyond(m, x, n)'
    BY <1>4 DEF Beyond
  <2> QED BY <1>7, <1>8, <2>1, OthersKeep DEF DecimalInv
<1> QED BY <1>9, <1>10, <1>11 DEF DecimalInv

\* So does marking a market whose whole list has been read.
LEMMA MarkLoadedStep ==
  ASSUME DecimalInv, NEW c \in Caller, MarkLoaded(c)
  PROVE  DecimalInv'
<1> DEFINE r == caller[c]
<1>1. CacheTyped /\ CallInv(c) /\ r.pc = "mark" /\ r \in Call /\ NothingDelisted /\ MarkedIsWhole
  BY DEF DecimalInv, MarkLoaded, At, CallInv, CallTyped
<1> DEFINE s == [r EXCEPT !.pc = "markets", !.start = 0]
<1>2. r.market \in Market /\ CachedOf(r.market)
  BY <1>1 DEF CallInv, CallTyped, LoadSoFar, At
<1>3. s \in Call /\ Update(c, s)
  BY <1>1 DEF Call, MarkLoaded
<1>4. UNCHANGED <<cached, listed, given>> /\ calls' \in Nat /\ loaded' = loaded \cup {r.market}
  BY <1>1 DEF MarkLoaded, CacheTyped
<1>5. caller'[c] = s /\ caller' \in [Caller -> Call] /\ \A q \in Caller \ {c} : caller'[q] = caller[q]
  BY <1>1, <1>3, Updated
<1>6. CallInv(c)'
  BY <1>1, <1>2, <1>3, <1>4, <1>5
     DEF CallInv, CallTyped, ScaleOf, LoadSoFar, MissingOf, Held, At, Call, CachedOf
<1>7. CacheTyped' /\ NothingDelisted' /\ MarkedIsWhole'
  BY <1>1, <1>2, <1>4, <1>5 DEF CacheTyped, NothingDelisted, MarkedIsWhole, CachedOf, AtFirst
<1>8. \A q \in Caller \ {c} : CallInv(q)'
  <2>1. \A m \in Market : \A x \in AtFirst(m), n \in Nat : Beyond(m, x, n) => Beyond(m, x, n)'
    BY <1>4 DEF Beyond
  <2> QED BY <1>4, <1>5, <2>1, OthersKeep DEF DecimalInv
<1> QED BY <1>6, <1>7, <1>8 DEF DecimalInv

\* So does answering: what is given is in the cache.
LEMMA AnswerQuoteStep ==
  ASSUME DecimalInv, NEW c \in Caller, AnswerQuote(c)
  PROVE  DecimalInv'
<1> DEFINE r == caller[c]
<1>1. CacheTyped /\ CallInv(c) /\ r.pc = "again" /\ r \in Call /\ NothingDelisted /\ MarkedIsWhole
  BY DEF DecimalInv, AnswerQuote, At, CallInv, CallTyped
<1> DEFINE s == [r EXCEPT !.pc = "done"]
<1>2. s \in Call /\ Update(c, s) /\ r.todo = {}
  BY <1>1 DEF Call, AnswerQuote
<1>3. UNCHANGED <<cached, loaded, listed>> /\ calls' \in Nat /\ given' = given \cup r.out
  BY <1>1 DEF AnswerQuote, CacheTyped
<1>4. caller'[c] = s /\ caller' \in [Caller -> Call] /\ \A q \in Caller \ {c} : caller'[q] = caller[q]
  BY <1>1, <1>2, Updated
<1>5. CallInv(c)'
  BY <1>1, <1>2, <1>3, <1>4 DEF CallInv, CallTyped, ScaleOf, LoadSoFar, MissingOf, At, Call
<1>6. CacheTyped' /\ NothingDelisted' /\ MarkedIsWhole'
  BY <1>1, <1>3, <1>4 DEF CacheTyped, NothingDelisted, MarkedIsWhole, CachedOf, AtFirst, CallInv, ScaleOf
<1>7. \A q \in Caller \ {c} : CallInv(q)'
  <2>1. \A m \in Market : \A x \in AtFirst(m), n \in Nat : Beyond(m, x, n) => Beyond(m, x, n)'
    BY <1>3 DEF Beyond
  <2> QED BY <1>3, <1>4, <2>1, OthersKeep DEF DecimalInv
<1> QED BY <1>5, <1>6, <1>7 DEF DecimalInv

\* The exchange lists another code: what was read stays read.
LEMMA ListCodeStep ==
  ASSUME DecimalInv, ListCode
  PROVE  DecimalInv'
<1>1. PICK m \in Market, y \in Code : y \notin ToSet(listed[m]) /\
        \E i \in 1..(Len(listed[m]) + 1) : listed' = [listed EXCEPT ![m] = InsertAt(@, i, y)]
  BY DEF ListCode
<1>2. PICK i \in 1..(Len(listed[m]) + 1) : listed' = [listed EXCEPT ![m] = InsertAt(@, i, y)]
  BY <1>1
<1> DEFINE l   == listed[m]
           new == InsertAt(l, i, y)
<1>3. CacheTyped /\ NothingDelisted /\ MarkedIsWhole /\ l \in Seq(Code)
  BY DEF DecimalInv, CacheTyped
<1>4. UNCHANGED <<cached, loaded, caller, calls, given>>
  BY DEF ListCode
<1>5. /\ new \in Seq(Code) /\ ToSet(l) \subseteq ToSet(new)
      /\ \A j \in 1..Len(new) : new[j] = y \/ \E k \in 1..Len(l) : k <= j /\ new[j] = l[k]
  BY <1>2, <1>3, InsertFacts
<1> HIDE DEF new, l
<1>6. listed'[m] = new /\ listed[m] = l /\ \A n \in Market \ {m} : listed'[n] = listed[n]
  BY <1>2, <1>3 DEF CacheTyped, new, l
<1>7. listed' \in [Market -> Seq(Code)]
  BY <1>2, <1>3, <1>5 DEF CacheTyped, new, l
<1>8. CacheTyped' /\ NothingDelisted' /\ MarkedIsWhole'
  BY <1>3, <1>4, <1>5, <1>6, <1>7 DEF CacheTyped, NothingDelisted, MarkedIsWhole, CachedOf, AtFirst
<1>9. ASSUME NEW o \in Market, NEW x \in AtFirst(o), NEW n \in Nat, Beyond(o, x, n)
      PROVE  Beyond(o, x, n)'
  <2>1. CASE o # m
    BY <1>6, <1>9, <2>1 DEF Beyond
  <2>2. CASE o = m
    <3>1. x # y
      BY <1>1, <1>3, <2>2 DEF NothingDelisted
    <3>2. \A j \in 1..Len(new) : new[j] = x => j > n
      <4> SUFFICES ASSUME NEW j \in 1..Len(new), new[j] = x PROVE j > n
        OBVIOUS
      <4>1. PICK k \in 1..Len(l) : k <= j /\ l[k] = x
        BY <1>5, <3>1
      <4>2. k > n
        BY <1>6, <1>9, <2>2, <4>1 DEF Beyond
      <4> QED BY <4>1, <4>2
    <3> QED BY <1>6, <2>2, <3>2 DEF Beyond
  <2> QED BY <2>1, <2>2
<1>10. \A q \in Caller : CallInv(q)'
  BY <1>4, <1>9, OthersKeep DEF DecimalInv
<1> QED BY <1>8, <1>10 DEF DecimalInv

-----------------------------------------------------------------------------
(* What follows from the invariant.                                        *)

\* Every step of a call, and every code that is listed, keeps the invariant.
LEMMA DecimalKeeps ==
  ASSUME DecimalInv, [DecimalNext]_decimalVars
  PROVE  DecimalInv'
<1>1. ASSUME NEW c \in Caller, Quote(c) \/ Step(c) PROVE DecimalInv'
  BY <1>1, QuoteStep, LookUpStep, NeedsMarketStep, StartLoadStep, LoadPageStep, LoadFailsStep, StorePageStep,
     MarkLoadedStep, LoadsDoneStep, LookUpAgainStep, AnswerQuoteStep, ReturnStep DEF Step
<1>2. CASE ListCode
  BY <1>2, ListCodeStep
<1>3. CASE UNCHANGED decimalVars
  BY <1>3 DEF decimalVars, DecimalInv, CacheTyped, NothingDelisted, MarkedIsWhole, CachedOf, AtFirst, CallInv,
              CallTyped, ScaleOf, LoadSoFar, MissingOf, Held, Beyond, At
<1> QED BY <1>1, <1>2, <1>3 DEF DecimalNext

\* DecimalInv is an invariant of any number of goroutines that ask for quotations.
THEOREM DecimalInvariant == DecimalSpec => []DecimalInv
<1> QED BY InitDecimal, DecimalKeeps, PTL DEF DecimalSpec

\* A call that is done misses only what is of a market whose load failed.
LEMMA MissingFailed == DecimalInv => MissingMeansFailure
<1> SUFFICES ASSUME DecimalInv, NEW c \in Caller, At(c, "done"),
                    NEW k \in caller[c].keys \ caller[c].out, k[2] \in ToSet(Lists[k[1]])
             PROVE  k[1] \in caller[c].failed
  BY DEF MissingMeansFailure
<1>1. k[1] \in Market /\ k[2] \in Code /\ k = <<k[1], k[2]>>
  BY DEF DecimalInv, CallInv, CallTyped, Call, Key
<1> QED BY <1>1 DEF DecimalInv, CallInv, MissingOf, AtFirst

\* loadDecimalPointMap: a quotation lacks the decimal point of a code listed from the beginning
\* only if a request of its own failed, whatever other goroutines load at the same time.
THEOREM MissingExplained == DecimalSpec => []MissingMeansFailure
BY MissingFailed, DecimalInvariant, PTL

\* A call that is done has what had a scale when it began.
LEMMA ScaleHeld == DecimalInv => ScaleIsKept
BY DEF DecimalInv, CallInv, ScaleOf, ScaleIsKept

\* Once a quotation had the decimal point of a code, every later one has it.
THEOREM ScaleStays == DecimalSpec => []ScaleIsKept
BY ScaleHeld, DecimalInvariant, PTL
-----------------------------------------------------------------------------
(* The calls side by side.                                                 *)
(*                                                                         *)
(* The state in which a component rests while a behaviour is of another    *)
(* one satisfies its invariant, and a step of one leaves the others as     *)
(* they are, so that what was proved of each holds of the composition.     *)

CallsInv == PagingInv /\ DecimalInv /\ AuctionInv /\ RangeInv

\* A paged call that has failed before anything was read of an empty list.
LEMMA NoPagingHolds == NoPaging => PagingInv
<1> SUFFICES ASSUME NoPaging PROVE PagingInv
  OBVIOUS
<1>1. /\ op = StockAll /\ call.op = StockAll /\ call.start = 0 /\ call.count = 0 /\ call.until = 0
      /\ call \in [op : {StockAll}, start : {0}, count : {0}, until : {0}]
      /\ pc = "error" /\ start = 0 /\ left = 0 /\ result = << >>
      /\ list = << >> /\ before = << >> /\ inserted = 0 /\ removed = 0
  BY DEF NoPaging, op
<1>2. op \in Operation /\ op.range = Wide /\ op.limit = "none" /\ op.newest = FALSE
  BY <1>1 DEF Operation, StockAll, Plain
<1>3. Starts(op) = {0} /\ Counts(op) = {0} /\ 0 \in Stops(op)
  BY <1>2, PageSizes DEF Starts, Counts, Stops
<1>4. 0 \in 0..MaxLen /\ 0 \in 0..(op.range - 1)
  BY <1>2, PageSizes
<1>5. call \in [op : Operation, start : 0..MaxLen, count : 0..MaxLen, until : 0..MaxLen]
  BY <1>1, <1>2, <1>4
<1>6. PagedTyped
  BY <1>1, <1>2, <1>3, <1>4, <1>5 DEF PagedTyped
<1>7. ListTyped
  BY <1>1, <1>2, PageSizes DEF ListTyped
<1>8. NothingOfNothing /\ OpeningsInPlace
  BY <1>1 DEF NothingOfNothing, OpeningsInPlace
<1>9. Placed /\ PagesSoFar /\ MovedSoFar /\ HasRead /\ HasMoved
  BY <1>1 DEF Open, Placed, PagesSoFar, MovedSoFar, HasRead, HasMoved
<1> QED BY <1>6, <1>7, <1>8, <1>9 DEF PagingInv

\* A request to the auction service that has failed before anything was found.
LEMMA NoAuctionHolds == NoAuction => AuctionInv
<1> SUFFICES ASSUME NoAuction PROVE AuctionInv
  OBVIOUS
<1>1. /\ step = "failed" /\ days = 1 /\ offset = 0 /\ found = {} /\ read = {} /\ dates = << >> /\ rows = << >>
      /\ today = 1 /\ minute = 1 /\ deals = {} /\ firstDay = 1
  BY DEF NoAuction
<1>2. ToSet(dates) = {} /\ DOMAIN rows = {} /\ DOMAIN dates = {} /\ Len(rows) = 0 /\ Len(dates) = 0
      /\ dates \in Seq(Nat) /\ rows \in Seq(Nat \X Nat)
  BY <1>1 DEF ToSet
<1>3. 1 \in 1..MaxDays /\ 1 \in 1..LastDay /\ 1 \in 1..Minutes /\ 1 \in 1..1
  BY AuctionAssumption
<1>4. Typed
  BY <1>1, <1>2, <1>3 DEF Typed
<1> QED BY <1>1, <1>2, <1>4
        DEF AuctionInv, InOrder, NotYet, FoundSoFar, DatesLatest, DailyReadSoFar, RowsRight, NoneLeftOut, Enough

\* A query for an interval that has failed before there was any bar.
LEMMA NoRangeHolds == NoRange => RangeInv
<1> SUFFICES ASSUME NoRange PROVE RangeInv
  OBVIOUS
<1>1. RangeTypeOK
  BY RangeAssumption DEF NoRange, RangeTypeOK
<1> QED BY <1>1 DEF NoRange, RangeInv, HighBelowLimit, LowIsLater, ReadSoFar, NoHoles, OnlyInRange, TooManyIsTrue

\* A step of one of them leaves the variables of the others as they are.
LEMMA CallsKeep ==
  ASSUME CallsInv, [Next]_callsVars
  PROVE  CallsInv'
<1>1. PagingInv /\ DecimalInv /\ AuctionInv /\ RangeInv
  BY DEF CallsInv
<1>2. [PagingNext]_pagingVars /\ [DecimalNext]_decimalVars /\ [AuctionNext]_auctionVars /\ [RangeNext]_rangeVars
  BY DEF Next, PagingStep, DecimalStep, AuctionStep, RangeStep, callsVars
<1>3. PagingInv' /\ DecimalInv' /\ AuctionInv' /\ RangeInv'
  BY <1>1, <1>2, PagingKeeps, DecimalKeeps, AuctionKeeps, RangeKeeps
<1> QED BY <1>3 DEF CallsInv

\* In every reachable state of the composition each component's invariant holds.
THEOREM CallsInvariant == Spec => []CallsInv
<1>1. Init => CallsInv
  BY InitPaging, InitDecimal, InitAuction, InitRange, NoPagingHolds, NoAuctionHolds, NoRangeHolds DEF Init, CallsInv
<1> QED BY <1>1, CallsKeep, PTL DEF Spec

\* In the composition, too, no call's variable leaves its type, whatever sizes, lists and answers.
THEOREM CallsTypes == Spec => []TypeOK
<1>1. DecimalInv => DecimalTypeOK
  BY DEF DecimalInv, CacheTyped, CallInv, CallTyped, DecimalTypeOK
<1>2. CallsInv => TypeOK
  BY <1>1, PagingTyped, AuctionTyped DEF CallsInv, RangeInv, TypeOK
<1> QED BY <1>2, CallsInvariant, PTL
\* Each of the properties of a single component holds in the composition: what is returned of a
\* list at rest, decimal points, dates and turnover, and the bars of an interval.
THEOREM CallsSafe ==
  Spec => [](/\ Exact
             /\ MissingMeansFailure /\ ScaleIsKept
             /\ PreviousIsAdjacent /\ LatestDays
             /\ Complete /\ WholeBars /\ TooManyIsTrue /\ SearchBrackets)
<1>1. CallsInv => /\ Exact
                  /\ MissingMeansFailure /\ ScaleIsKept
                  /\ PreviousIsAdjacent /\ LatestDays
                  /\ Complete /\ WholeBars /\ TooManyIsTrue /\ SearchBrackets
  BY PagingExact, MissingFailed, ScaleHeld, TurnoverRight, DaysLatest,
     AnswerComplete, BarsWhole, RefusalTrue, SearchBracketed DEF CallsInv
<1> QED BY <1>1, CallsInvariant, PTL

\* So does Drift, of a stock that has a bar: whether it has does not change during a call.
THEOREM CallsDrift == Spec /\ HasBars => []Drift
<1>1. [Next]_callsVars => [PagingNext]_pagingVars
  BY DEF Next, PagingStep, DecimalStep, AuctionStep, RangeStep, callsVars
<1>2. HasBars /\ [Next]_callsVars => HasBars'
  BY <1>1, HasBarsStays
<1>3. CallsInv /\ HasBars => Drift
  BY PagingDrift DEF CallsInv
<1> QED BY <1>2, <1>3, CallsInvariant, PTL DEF Spec
=============================================================================
