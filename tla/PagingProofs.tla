---------------------------- MODULE PagingProofs ----------------------------
(***************************************************************************)
(* PagingTypeOK, Exact and Drift for any sizes of pages, offsets and       *)
(* lists, and for every operation that reads its list by pages, proved     *)
(* with TLAPS.                                                             *)
(*                                                                         *)
(* The argument.  A call whose offsets fit is always at the start of a     *)
(* page: the offset it goes on with was neither cut to its type nor        *)
(* carried past the end, and a count is used up by as much (Placed).       *)
(*                                                                         *)
(* While the list stays as it was, what has been read is its stretch from  *)
(* where the call began to where it is, in the order in which the call     *)
(* gives it (PagesSoFar), and a page puts the next stretch to it,          *)
(* whichever end it is put to (JoinedInOrder).  The page that ends the     *)
(* call is the one that reaches the end of the list, the end of the count, *)
(* or the bar looked for, and then the stretch is what was wanted          *)
(* (HasRead); the opening bars that are put in between take nothing from   *)
(* it (Openings).                                                          *)
(*                                                                         *)
(* While the list moves, what can be read twice is what has been read and  *)
(* has come to lie ahead again: each entry that is added pushes at most    *)
(* one over the offset, and reading a page turns those ahead into those    *)
(* read twice.  What can be missed is what was wanted, lies before the     *)
(* offset and was not read: each entry that is removed pulls at most one   *)
(* over it (MovedSoFar).                                                   *)
(***************************************************************************)
EXTENDS Paging, FiniteSetTheorems, SequenceTheorems, NaturalsInduction, WellFoundedInduction, TLAPS

\* The entries of a list that a call can be given: of bars, all but the oldest.
Shown(entries) == IF op.bars /\ entries # << >> THEN Front(entries) ELSE entries

\* The entries at and before an offset's place in the list, and those after it.
Passed(n) == {list[i] : i \in {i \in DOMAIN list : i <= n}}
Ahead(n) == {list[i] : i \in {i \in DOMAIN list : i > n}}

\* A stock whose bars are asked for has one.
HasBars == op = StockFullKLine => before # << >>

\* In which order a call gives the entries that it has read in the order of the list.
InOrderOfCall(entries) ==
  IF op.front THEN Reverse(entries) ELSE IF op.newest THEN ByPages(entries) ELSE entries

\* What a sequence has between two offsets.
Stretch(s, from, to) == SubSeq(s, from + 1, to)

\* From one offset to the other are whole pages.
WholePages(from, to) == \E k \in Nat : to = from + k * Page

\* The call and its variables.
PagedTyped ==
  /\ call \in [op : Operation, start : 0..MaxLen, count : 0..MaxLen, until : 0..MaxLen]
  /\ call.start \in Starts(op) /\ call.count \in Counts(op) /\ call.until \in Stops(op)
  /\ pc \in {"meta", "reading", "opening", "done", "error", "panic"}
  /\ start \in 0..(op.range - 1) /\ left \in 0..MaxLen
  /\ result \in Seq(Int) /\ (pc # "done" => result \in Seq(1..(MaxLen + inserted)))
  /\ pc = "meta" => op.limit = "size"
  /\ pc = "opening" => op = StockFullKLine
  /\ pc = "reading" /\ op.limit = "count" => left > 0

\* What became of the list.
ListTyped ==
  /\ inserted \in Nat /\ removed \in Nat /\ inserted + removed <= MaxChanges
  /\ before \in Seq(1..MaxLen) /\ list \in Seq(1..(MaxLen + inserted))
  /\ Len(before) <= MaxLen /\ Len(list) <= MaxLen /\ Len(list) + removed = Len(before) + inserted
  /\ \A i, j \in DOMAIN before : before[i] = before[j] => i = j
  /\ \A i, j \in DOMAIN list : list[i] = list[j] => i = j
  /\ inserted + removed = 0 => list = before
  /\ op.newest => /\ removed = 0
                  /\ \A i \in 1..inserted : list[i] > MaxLen
                  /\ \A i \in DOMAIN before : list[inserted + i] = before[i]

\* Nothing is read of a stock without bars.
NothingOfNothing == op = StockFullKLine /\ list = << >> => result = << >>

\* Every opening bar is directly before its bar.
OpeningsInPlace ==
  \A i \in DOMAIN result : result[i] < 0 => i < Len(result) /\ result[i + 1] = -result[i]

\* Where a call is whose offsets fit.
AtPage ==
  /\ start < op.wire /\ call.start <= start
  /\ op.stop = "short" => WholePages(call.start, start)
  /\ op = StockFullKLine => start < Len(list)
  /\ op.limit = "count" => start + left = call.start + call.count

\* A call whose offsets fit is at a page of its list.
Placed == Open /\ Fits /\ HasBars => AtPage

\* What has been read of a list that stayed as it was, and that the bar to stop at is not in it.
PagesSoFar ==
  Open /\ inserted + removed = 0 /\ Fits /\ HasBars =>
    /\ start = call.start \/ start <= Len(Shown(before))
    /\ result = InOrderOfCall(Stretch(Shown(before), call.start, start))
    /\ \A i \in DOMAIN Shown(before) : i <= start => Shown(before)[i] # call.until

\* What has been read of a list that moved, and what was passed over or pushed out of reach.
MovedSoFar ==
  Open /\ Fits /\ HasBars /\ op.limit # "size" =>
    /\ Repeated(result) + Cardinality(ToSet(result) \cap Ahead(start)) <= inserted
    /\ Cardinality((ToSet(Wanted) \cap Passed(start)) \ ToSet(result)) <= removed
    /\ op.limit = "count" => Cardinality(ToSet(Wanted) \cap Ahead(call.start + call.count)) <= inserted

\* What has been read when the call is over: of a list that stayed, and of one that moved.
HasRead ==
  pc \in {"opening", "done"} /\ inserted + removed = 0 /\ Fits => AsItWas(Entries(result))

HasMoved ==
  pc \in {"opening", "done"} /\ Fits /\ HasBars /\ op.limit # "size" =>
    /\ Repeated(Entries(result)) <= inserted
    /\ Cardinality(Missed(Entries(result))) <= removed + (IF op.limit = "count" THEN inserted ELSE 0)

\* The inductive invariant.
PagingInv ==
  /\ PagedTyped /\ ListTyped /\ NothingOfNothing /\ OpeningsInPlace
  /\ Placed /\ PagesSoFar /\ MovedSoFar /\ HasRead /\ HasMoved

-----------------------------------------------------------------------------
(* Constants and operations.                                               *)

\* What is assumed of the sizes, one by one.
LEMMA PageSizes ==
    /\ Page \in Nat /\ Page > 0 /\ Narrow \in Nat /\ Wide \in Nat /\ MaxLen \in Nat /\ MaxLen > 0
    /\ Page <= Narrow /\ Narrow < Wide /\ MaxLen < Wide /\ Narrow > 0 /\ Wide > 0 /\ Narrow # Wide
    /\ MaxChanges \in Nat
BY PagingAssumption

\* What the operations have in common.
Regular(o) ==
  /\ o.limit \in {"none", "count", "size"} /\ o.stop \in {"short", "empty"}
  /\ o.range \in {Narrow, Wide} /\ o.wire \in {Narrow, Wide} /\ o.reach \in {Narrow, Wide}
  /\ o.newest \in BOOLEAN /\ o.front \in BOOLEAN /\ o.bars \in BOOLEAN
  /\ o.stop = "empty" => o.wire = Wide /\ o.range = Wide /\ ~o.newest /\ o.limit # "count"
  /\ o.limit = "size" => o.stop = "empty"
  /\ o.limit = "count" => o.range = Wide
  /\ o.front \/ o.bars => o.newest
  /\ o.newest /\ ~o.front => o.limit = "count"
  /\ o = StockFullKLine => o.front /\ o.bars /\ o.limit = "none" /\ o.range = Narrow
  /\ o.limit = "count" /\ o.wire = Narrow => o = MACBoardList

\* Every operation is regular.
LEMMA Operations == \A o \in Operation : Regular(o)
<1> SUFFICES ASSUME NEW o \in Operation PROVE Regular(o)
    OBVIOUS
<1>a. /\ StockFullKLine.range = Narrow /\ StockFullKLine.wire = Narrow /\ StockFullKLine.reach = Wide
      /\ StockFullKLine.limit = "none" /\ StockFullKLine.stop = "short" /\ StockFullKLine.newest = TRUE
      /\ StockFullKLine.front = TRUE /\ StockFullKLine.bars = TRUE
    BY DEF StockFullKLine, NewestFirst, Plain
<1>b. /\ MACBoardList.range = Wide /\ MACBoardList.wire = Narrow /\ MACBoardList.reach = Wide
      /\ MACBoardList.limit = "count" /\ MACBoardList.stop = "short" /\ MACBoardList.newest = FALSE
      /\ MACBoardList.front = FALSE /\ MACBoardList.bars = FALSE
    BY DEF MACBoardList, Counted, Plain
<1>1. CASE o = StockAll
    <2>1. /\ o.range = Wide /\ o.wire = Wide /\ o.reach = Wide /\ o.limit = "none" /\ o.stop = "short"
          /\ o.newest = FALSE /\ o.front = FALSE /\ o.bars = FALSE
        BY <1>1 DEF StockAll, Plain
    <2> QED BY <1>a, <2>1, PageSizes DEF Regular
<1>2. CASE o = StockFullKLine
    BY <1>2, <1>a, PageSizes DEF Regular
<1>3. CASE o = StockFullAuction
    <2>1. /\ o.range = Wide /\ o.wire = Wide /\ o.reach = Wide /\ o.limit = "none" /\ o.stop = "short"
          /\ o.newest = TRUE /\ o.front = TRUE /\ o.bars = FALSE
        BY <1>3 DEF StockFullAuction, NewestFirst, Plain
    <2>2. o # StockFullKLine
        BY <1>a, <2>1
    <2> QED BY <2>1, <2>2, PageSizes DEF Regular
<1>4. CASE o = StockFullTransaction
    <2>1. /\ o.range = Narrow /\ o.wire = Narrow /\ o.reach = Wide /\ o.limit = "none" /\ o.stop = "short"
          /\ o.newest = TRUE /\ o.front = TRUE /\ o.bars = FALSE
        BY <1>4 DEF StockFullTransaction, NewestFirst, Plain
    <2>2. o # StockFullKLine
        BY <1>a, <2>1
    <2> QED BY <2>1, <2>2, PageSizes DEF Regular
<1>5. CASE o = MACBoardList
    BY <1>5, <1>a, <1>b, PageSizes DEF Regular
<1>6. CASE o = MACMarketMonitor
    <2>1. /\ o.range = Wide /\ o.wire = Wide /\ o.reach = Narrow /\ o.limit = "count" /\ o.stop = "short"
          /\ o.newest = FALSE /\ o.front = FALSE /\ o.bars = FALSE
        BY <1>6 DEF MACMarketMonitor, Counted, Plain
    <2> QED BY <1>a, <2>1, PageSizes DEF Regular
<1>7. CASE o = MACSymbolBars
    <2>1. /\ o.range = Wide /\ o.wire = Wide /\ o.reach = Wide /\ o.limit = "count" /\ o.stop = "short"
          /\ o.newest = TRUE /\ o.front = FALSE /\ o.bars = TRUE
        BY <1>7 DEF MACSymbolBars, Counted, Plain
    <2> QED BY <1>a, <2>1, PageSizes DEF Regular
<1>8. CASE o = DownloadFullFile
    <2>1. /\ o.range = Wide /\ o.wire = Wide /\ o.reach = Wide /\ o.limit = "size" /\ o.stop = "empty"
          /\ o.newest = FALSE /\ o.front = FALSE /\ o.bars = FALSE
        BY <1>8 DEF DownloadFullFile, File, Plain
    <2> QED BY <1>a, <2>1, PageSizes DEF Regular
<1>9. CASE o = getExTable
    <2>1. /\ o.range = Wide /\ o.wire = Wide /\ o.reach = Wide /\ o.limit = "none" /\ o.stop = "empty"
          /\ o.newest = FALSE /\ o.front = FALSE /\ o.bars = FALSE
        BY <1>9 DEF getExTable, File, Plain
    <2> QED BY <1>a, <2>1, PageSizes DEF Regular
<1> QED BY <1>1, <1>2, <1>3, <1>4, <1>5, <1>6, <1>7, <1>8, <1>9 DEF Operation

\* What callers may ask for.
LEMMA Arguments ==
    ASSUME NEW o \in Operation
    PROVE  /\ Starts(o) \subseteq 0..MaxLen
           /\ o.limit # "count" \/ o.wire = Narrow => Starts(o) = {0}
           /\ Counts(o) \subseteq 0..MaxLen
           /\ o.limit = "count" => Counts(o) = 1..MaxLen
           /\ o.limit = "none" => Counts(o) = {0}
           /\ Stops(o) \subseteq 0..MaxLen
           /\ o # StockFullKLine => Stops(o) = {0}
<1>1. 0 \in 0..MaxLen /\ 1..MaxLen \subseteq 0..MaxLen
    BY PageSizes
<1>2. o.limit # "count" \/ o.wire = Narrow => Starts(o) = {0}
    BY Operations DEF Starts, Regular
<1>3. Starts(o) \subseteq 0..MaxLen
    BY <1>1 DEF Starts
<1>4. Counts(o) \subseteq 0..MaxLen /\ (o.limit = "count" => Counts(o) = 1..MaxLen) /\ (o.limit = "none" => Counts(o) = {0})
    BY <1>1 DEF Counts
<1>5. Stops(o) \subseteq 0..MaxLen /\ (o # StockFullKLine => Stops(o) = {0})
    BY <1>1 DEF Stops
<1> QED BY <1>2, <1>3, <1>4, <1>5

-----------------------------------------------------------------------------
(* Sequences.                                                              *)

\* The first entries of what follows the first m of a sequence.
LEMMA Cut ==
    ASSUME NEW S, NEW s \in Seq(S), NEW m \in Nat, NEW n \in Nat, n <= Len(s)
    PROVE  /\ SubSeq(s, m + 1, n) \in Seq(S)
           /\ Len(SubSeq(s, m + 1, n)) = IF m < n THEN n - m ELSE 0
           /\ \A i \in 1..Len(SubSeq(s, m + 1, n)) : SubSeq(s, m + 1, n)[i] = s[m + i]
<1>1. \A i \in (m + 1)..n : s[i] \in S
    OBVIOUS
<1> QED BY <1>1, SubSeqProperties

\* Front leaves out the last.
LEMMA WithoutLast ==
    ASSUME NEW S, NEW s \in Seq(S), s # << >>
    PROVE  Front(s) \in Seq(S) /\ Len(Front(s)) = Len(s) - 1 /\ \A i \in 1..(Len(s) - 1) : Front(s)[i] = s[i]
<1> DEFINE n == Len(s) - 1
<1>1. n \in Nat /\ \A i \in 1..n : s[i] \in S
    <2>1. Len(s) \in Nat /\ Len(s) # 0
        BY EmptySeq
    <2> QED BY <2>1
<1>2. Front(s) = SubSeq(s, 1, n)
    BY DEF Front
<1> HIDE DEF n
<1>3. /\ SubSeq(s, 1, n) \in Seq(S) /\ Len(SubSeq(s, 1, n)) = n
      /\ \A i \in 1..n : SubSeq(s, 1, n)[i] = s[i]
    BY <1>1, SubSeqProperties
<1> QED BY <1>2, <1>3 DEF n

\* Reverse.
LEMMA Backwards ==
    ASSUME NEW S, NEW s \in Seq(S)
    PROVE  /\ Reverse(s) \in Seq(S) /\ Len(Reverse(s)) = Len(s)
           /\ \A i \in 1..Len(s) : Reverse(s)[i] = s[Len(s) + 1 - i]
           /\ ToSet(Reverse(s)) = ToSet(s)
<1>1. Len(s) \in Nat
    OBVIOUS
<1>2. \A i \in 1..Len(s) : Len(s) - i + 1 \in 1..Len(s) /\ Len(s) - i + 1 = Len(s) + 1 - i
    BY <1>1
<1>3. Reverse(s) \in Seq(S) /\ Len(Reverse(s)) = Len(s) /\ \A i \in 1..Len(s) : Reverse(s)[i] = s[Len(s) + 1 - i]
    BY <1>1, <1>2 DEF Reverse
<1>4. ASSUME NEW i \in 1..Len(s) PROVE \E j \in 1..Len(s) : Reverse(s)[j] = s[i]
    <2>1. Len(s) + 1 - i \in 1..Len(s) /\ Len(s) + 1 - (Len(s) + 1 - i) = i
        BY <1>1
    <2> QED BY <1>3, <2>1
<1>5. DOMAIN s = 1..Len(s) /\ DOMAIN Reverse(s) = 1..Len(s)
    BY <1>3
<1>6. ToSet(Reverse(s)) = ToSet(s)
    <2>1. ASSUME NEW x \in ToSet(s) PROVE x \in ToSet(Reverse(s))
        BY <1>4, <1>5, <2>1 DEF ToSet
    <2>2. ASSUME NEW x \in ToSet(Reverse(s)) PROVE x \in ToSet(s)
        <3>1. PICK i \in 1..Len(s) : x = Reverse(s)[i]
            BY <1>5, <2>2 DEF ToSet
        <3> QED BY <1>2, <1>3, <1>5, <3>1 DEF ToSet
    <2> QED BY <2>1, <2>2
<1> QED BY <1>3, <1>6

\* What the pages of an offset hold.
LEMMA ShownFacts ==
    ASSUME NEW S, NEW s \in Seq(S), op.bars \in BOOLEAN
    PROVE  /\ Shown(s) \in Seq(S) /\ Len(Shown(s)) = IF op.bars /\ s # << >> THEN Len(s) - 1 ELSE Len(s)
           /\ Len(Shown(s)) <= Len(s)
           /\ \A i \in 1..Len(Shown(s)) : Shown(s)[i] = s[i]
<1>1. CASE op.bars /\ s # << >>
    BY <1>1, WithoutLast DEF Shown
<1>2. CASE ~(op.bars /\ s # << >>)
    BY <1>2 DEF Shown
<1> QED BY <1>1, <1>2

\* The entries of a page are the next ones of the list, as far as it is shown.
LEMMA PageEntries ==
    ASSUME NEW S, list \in Seq(S), op.bars \in BOOLEAN, NEW o \in Nat, Asked \in Nat
    PROVE  /\ PageOf(o) \in Seq(S)
           /\ Len(PageOf(o)) = IF o >= Len(Shown(list)) THEN 0 ELSE Least(Asked, Len(Shown(list)) - o)
           /\ \A i \in 1..Len(PageOf(o)) : PageOf(o)[i] = list[o + i]
           /\ Answer(o, Asked + 1) = << >> <=> o >= Len(list)
           /\ op.bars /\ o < Len(list) => Len(Answer(o, Asked + 1)) = Len(PageOf(o)) + 1
<1> DEFINE n == Len(list)
           a(c) == Least(o + c, n)
<1>0. n \in Nat /\ (list = << >> <=> n = 0)
    BY EmptySeq
<1>1. ASSUME NEW c \in Nat
      PROVE  /\ Answer(o, c) \in Seq(S) /\ a(c) \in Nat /\ a(c) <= n
             /\ Len(Answer(o, c)) = IF o < a(c) THEN a(c) - o ELSE 0
             /\ \A i \in 1..Len(Answer(o, c)) : Answer(o, c)[i] = list[o + i]
    <2>1. a(c) \in Nat /\ a(c) <= n /\ Answer(o, c) = SubSeq(list, o + 1, a(c))
        BY <1>0 DEF Least, Answer
    <2> HIDE DEF a, n
    <2>2. a(c) <= Len(list)
        BY <2>1 DEF n
    <2> QED BY <2>1, <2>2, Cut
<1>2. Len(Answer(o, Asked + 1)) = IF o < n THEN a(Asked + 1) - o ELSE 0
    <2>1. Asked + 1 \in Nat /\ (o < a(Asked + 1) <=> o < n)
        BY <1>0 DEF Least
    <2> QED BY <1>1, <2>1
<1>3. Len(Answer(o, Asked)) = IF o < n THEN a(Asked) - o ELSE 0
    <2>1. ~(o < n) => ~(o < a(Asked))
        BY <1>0 DEF Least
    <2>2. o < n /\ ~(o < a(Asked)) => a(Asked) - o = 0
        BY <1>0 DEF Least
    <2> QED BY <1>1, <2>1, <2>2
<1>4. Answer(o, Asked + 1) = << >> <=> o >= n
    <2>1. o < n => a(Asked + 1) - o > 0
        BY <1>0 DEF Least
    <2>2. Answer(o, Asked + 1) \in Seq(S)
        BY <1>1
    <2> QED BY <1>0, <1>2, <2>1, <2>2, EmptySeq
<1>5. CASE op.bars /\ o < n
    <2>1. PageOf(o) = Front(Answer(o, Asked + 1))
        BY <1>4, <1>5, <1>0 DEF PageOf
    <2>2. /\ PageOf(o) \in Seq(S) /\ Len(PageOf(o)) = Len(Answer(o, Asked + 1)) - 1
          /\ \A i \in 1..Len(PageOf(o)) : PageOf(o)[i] = Answer(o, Asked + 1)[i]
        <3> DEFINE w == Answer(o, Asked + 1)
        <3>1. w \in Seq(S) /\ w # << >>
            BY <1>0, <1>1, <1>4, <1>5
        <3>2. Len(w) \in Nat
            BY <3>1
        <3> HIDE DEF w
        <3>3. Front(w) \in Seq(S) /\ Len(Front(w)) = Len(w) - 1 /\ \A i \in 1..(Len(w) - 1) : Front(w)[i] = w[i]
            BY <3>1, WithoutLast
        <3>4. PageOf(o) = Front(w)
            BY <2>1 DEF w
        <3>5. /\ PageOf(o) \in Seq(S) /\ Len(PageOf(o)) = Len(w) - 1
              /\ \A i \in 1..Len(PageOf(o)) : PageOf(o)[i] = w[i]
            BY <3>3, <3>4
        <3> QED BY <3>5 DEF w
    <2>3. Len(Shown(list)) = n - 1
        BY <1>0, <1>5, ShownFacts
    <2>4. Len(PageOf(o)) = IF o >= n - 1 THEN 0 ELSE Least(Asked, n - 1 - o)
        BY <1>0, <1>2, <1>5, <2>2 DEF Least
    <2>5. Len(Answer(o, Asked + 1)) = Len(PageOf(o)) + 1
        BY <1>0, <1>2, <1>5, <2>2 DEF Least
    <2>6. \A i \in 1..Len(PageOf(o)) : PageOf(o)[i] = list[o + i]
        <3>1. Len(PageOf(o)) \in Nat /\ \A i \in 1..Len(PageOf(o)) : i \in 1..Len(Answer(o, Asked + 1))
            BY <1>0, <2>2, <2>5
        <3>2. \A i \in 1..Len(Answer(o, Asked + 1)) : Answer(o, Asked + 1)[i] = list[o + i]
            BY <1>1
        <3> QED BY <2>2, <3>1, <3>2
    <2> QED BY <1>4, <2>2, <2>3, <2>4, <2>5, <2>6
<1>6. CASE ~(op.bars /\ o < n)
    <2>1. PageOf(o) = Answer(o, Asked)
        BY <1>4, <1>6, <1>0 DEF PageOf
    <2>2. Len(Shown(list)) <= n /\ Len(Shown(list)) \in Nat /\ (~op.bars => Len(Shown(list)) = n)
        BY <1>0, ShownFacts
    <2>3. Len(PageOf(o)) = IF o >= Len(Shown(list)) THEN 0 ELSE Least(Asked, Len(Shown(list)) - o)
        BY <1>0, <1>3, <1>6, <2>1, <2>2 DEF Least
    <2>4. \A i \in 1..Len(PageOf(o)) : PageOf(o)[i] = list[o + i]
        BY <1>1, <2>1
    <2> QED BY <1>0, <1>1, <1>4, <1>6, <2>1, <2>3, <2>4
<1> QED BY <1>5, <1>6

-----------------------------------------------------------------------------
(* Opening bars.                                                           *)

\* Natural induction, for a set of numbers: there is no least number missing.
LEMMA SetInduction ==
    ASSUME NEW S, 0 \in S, \A n \in Nat : n \in S => n + 1 \in S
    PROVE  Nat \subseteq S
<1> DEFINE lt == {p \in Nat \X Nat : p[1] < p[2]}
           missing == Nat \ S
<1> SUFFICES ASSUME missing # {} PROVE FALSE
    OBVIOUS
<1>1. IsWellFoundedOn(lt, Nat)
    BY NatLessThanWellFounded DEF OpToRel
<1>2. PICK t \in missing : \A y \in missing : <<y, t>> \notin lt
    <2>1. missing \subseteq Nat
        OBVIOUS
    <2> HIDE DEF lt, missing
    <2> QED BY <1>1, <2>1, WFMin
<1>3. t \in Nat /\ t # 0
    OBVIOUS
<1>4. t - 1 \in Nat /\ (t - 1) + 1 = t /\ t - 1 < t
    BY <1>3
<1>5. t - 1 \in S
    <2>1. <<t - 1, t>> \in lt
        BY <1>3, <1>4
    <2> QED BY <1>2, <1>4, <2>1
<1> QED BY <1>4, <1>5, <1>2

\* KeptUpTo is what it says.
LEMMA KeptUpToIs ==
    ASSUME NEW s \in Seq(Int)
    PROVE  /\ KeptUpTo(s)[0] = << >>
           /\ \A i \in 1..Len(s) : KeptUpTo(s)[i] = IF s[i] > 0 THEN Append(KeptUpTo(s)[i - 1], s[i]) ELSE KeptUpTo(s)[i - 1]
<1> DEFINE Grown(k, i) == IF s[i] > 0 THEN Append(k, s[i]) ELSE k
           Keeps(n, u) == u = [i \in 0..n |-> IF i = 0 THEN << >> ELSE Grown(u[i - 1], i)]
           S == {n \in Nat : \E u : Keeps(n, u)}
<1>1. 0 \in S
    <2> DEFINE z == [i \in 0..0 |-> << >>]
    <2>1. z = [i \in 0..0 |-> IF i = 0 THEN << >> ELSE Grown(z[i - 1], i)]
        OBVIOUS
    <2> QED BY <2>1
<1>2. ASSUME NEW n \in Nat, n \in S PROVE n + 1 \in S
    <2>1. PICK u : Keeps(n, u)
        BY <1>2
    <2> HIDE DEF Grown
    <2> DEFINE v == [i \in 0..(n + 1) |-> IF i = n + 1 THEN Grown(u[n], n + 1) ELSE u[i]]
    <2>2. ASSUME NEW i \in 0..(n + 1)
          PROVE  v[i] = IF i = 0 THEN << >> ELSE Grown(v[i - 1], i)
        <3>1. CASE i = n + 1
            BY <3>1
        <3>2. CASE i # n + 1
            <4>1. i \in 0..n /\ v[i] = u[i]
                BY <3>2
            <4>2. u[i] = IF i = 0 THEN << >> ELSE Grown(u[i - 1], i)
                BY <2>1, <4>1
            <4>3. i # 0 => v[i - 1] = u[i - 1]
                BY <4>1
            <4> QED BY <4>1, <4>2, <4>3
        <3> QED BY <3>1, <3>2
    <2>3. Keeps(n + 1, v)
        BY <2>2
    <2> HIDE DEF Keeps
    <2> QED BY <2>3
<1>3. Nat \subseteq S
    <2> HIDE DEF S
    <2> QED BY <1>1, <1>2, SetInduction
<1>4. \E u : Keeps(Len(s), u)
    <2> HIDE DEF Keeps
    <2> QED BY <1>3
<1>5. Keeps(Len(s), KeptUpTo(s))
    BY <1>4 DEF KeptUpTo
<1> DEFINE u == KeptUpTo(s)
<1>6. \A i \in 0..Len(s) : u[i] = IF i = 0 THEN << >> ELSE Grown(u[i - 1], i)
    BY <1>5
<1> HIDE DEF u
<1>7. u[0] = << >> /\ \A i \in 1..Len(s) : u[i] = Grown(u[i - 1], i)
    BY <1>6
<1> QED BY <1>7 DEF u

\* One more bar.
LEMMA EntriesAppend ==
    ASSUME NEW s \in Seq(Int), NEW e \in Int
    PROVE  Entries(Append(s, e)) = IF e > 0 THEN Append(Entries(s), e) ELSE Entries(s)
<1> DEFINE t == Append(s, e)
           S == {n \in Nat : n <= Len(s) => KeptUpTo(t)[n] = KeptUpTo(s)[n]}
<1>1. t \in Seq(Int) /\ Len(t) = Len(s) + 1 /\ t[Len(s) + 1] = e /\ \A i \in 1..Len(s) : t[i] = s[i]
    OBVIOUS
<1>2. Len(s) \in Nat
    OBVIOUS
<1> HIDE DEF t
<1>3. 0 \in S
    BY <1>1, KeptUpToIs
<1>4. ASSUME NEW n \in Nat, n \in S PROVE n + 1 \in S
    <2> SUFFICES ASSUME n + 1 <= Len(s) PROVE KeptUpTo(t)[n + 1] = KeptUpTo(s)[n + 1]
        OBVIOUS
    <2>1. n + 1 \in 1..Len(s) /\ n + 1 \in 1..Len(t) /\ (n + 1) - 1 = n /\ n <= Len(s)
        BY <1>1, <1>2
    <2>2. KeptUpTo(t)[n] = KeptUpTo(s)[n]
        BY <1>4, <2>1
    <2>3. KeptUpTo(t)[n + 1] = IF t[n + 1] > 0 THEN Append(KeptUpTo(t)[n], t[n + 1]) ELSE KeptUpTo(t)[n]
        BY <1>1, <2>1, KeptUpToIs
    <2>4. KeptUpTo(s)[n + 1] = IF s[n + 1] > 0 THEN Append(KeptUpTo(s)[n], s[n + 1]) ELSE KeptUpTo(s)[n]
        BY <1>1, <2>1, KeptUpToIs
    <2> QED BY <1>1, <2>1, <2>2, <2>3, <2>4
<1>5. Nat \subseteq S
    <2> HIDE DEF S
    <2> QED BY <1>3, <1>4, SetInduction
<1>6. KeptUpTo(t)[Len(s)] = KeptUpTo(s)[Len(s)]
    BY <1>2, <1>5
<1>7. KeptUpTo(t)[Len(s) + 1] = IF e > 0 THEN Append(KeptUpTo(t)[Len(s)], e) ELSE KeptUpTo(t)[Len(s)]
    <2>1. Len(s) + 1 \in 1..Len(t) /\ (Len(s) + 1) - 1 = Len(s)
        BY <1>1, <1>2
    <2> QED BY <1>1, <2>1, KeptUpToIs
<1>8. Entries(t) = KeptUpTo(t)[Len(s) + 1] /\ Entries(s) = KeptUpTo(s)[Len(s)]
    BY <1>1 DEF Entries
<1>9. Entries(t) = IF e > 0 THEN Append(Entries(s), e) ELSE Entries(s)
    BY <1>6, <1>7, <1>8
<1> QED BY <1>9 DEF t

\* The first entries and one more.
LEMMA OneMore ==
    ASSUME NEW S, NEW s \in Seq(S), NEW n \in Nat, n + 1 <= Len(s)
    PROVE  /\ SubSeq(s, 1, n) \in Seq(S) /\ Len(SubSeq(s, 1, n)) = n
           /\ SubSeq(s, 1, n + 1) = Append(SubSeq(s, 1, n), s[n + 1])
<1>1. \A i \in 1..(n + 1) : s[i] \in S
    OBVIOUS
<1>2. /\ SubSeq(s, 1, n) \in Seq(S) /\ Len(SubSeq(s, 1, n)) = n
      /\ \A i \in 1..n : SubSeq(s, 1, n)[i] = s[i]
    BY <1>1, SubSeqProperties
<1>3. /\ SubSeq(s, 1, n + 1) \in Seq(S) /\ Len(SubSeq(s, 1, n + 1)) = n + 1
      /\ \A i \in 1..(n + 1) : SubSeq(s, 1, n + 1)[i] = s[i]
    BY <1>1, SubSeqProperties
<1> DEFINE a == SubSeq(s, 1, n)
           b == SubSeq(s, 1, n + 1)
<1> HIDE DEF a, b
<1>4. a \in Seq(S) /\ Len(a) = n /\ \A i \in 1..n : a[i] = s[i]
    BY <1>2 DEF a
<1>5. b \in Seq(S) /\ Len(b) = n + 1 /\ \A i \in 1..(n + 1) : b[i] = s[i]
    BY <1>3 DEF b
<1>6. Append(a, s[n + 1]) \in Seq(S) /\ Len(Append(a, s[n + 1])) = n + 1
      /\ \A i \in 1..(n + 1) : Append(a, s[n + 1])[i] = s[i]
    BY <1>1, <1>4
<1>7. b = Append(a, s[n + 1])
    BY <1>5, <1>6, SeqEqual
<1> QED BY <1>2, <1>7 DEF a, b

\* Without opening bars all are kept.
LEMMA AllEntries ==
    ASSUME NEW s \in Seq(Nat \ {0})
    PROVE  Entries(s) = s
<1> DEFINE S == {n \in Nat : n <= Len(s) => KeptUpTo(s)[n] = SubSeq(s, 1, n)}
<1>0. s \in Seq(Int) /\ Len(s) \in Nat /\ \A i \in 1..Len(s) : s[i] \in Int /\ s[i] > 0
    OBVIOUS
<1>1. 0 \in S
    <2>1. SubSeq(s, 1, 0) = << >>
        OBVIOUS
    <2> QED BY <1>0, <2>1, KeptUpToIs
<1>2. ASSUME NEW n \in Nat, n \in S PROVE n + 1 \in S
    <2> SUFFICES ASSUME n + 1 <= Len(s) PROVE KeptUpTo(s)[n + 1] = SubSeq(s, 1, n + 1)
        OBVIOUS
    <2>1. n + 1 \in 1..Len(s) /\ (n + 1) - 1 = n
        BY <1>0
    <2>2. KeptUpTo(s)[n + 1] = Append(KeptUpTo(s)[n], s[n + 1])
        BY <1>0, <2>1, KeptUpToIs
    <2>3. KeptUpTo(s)[n] = SubSeq(s, 1, n)
        BY <1>0, <1>2
    <2> QED BY <2>2, <2>3, OneMore
<1>3. Nat \subseteq S
    <2> HIDE DEF S
    <2> QED BY <1>1, <1>2, SetInduction
<1>4. KeptUpTo(s)[Len(s)] = SubSeq(s, 1, Len(s))
    BY <1>0, <1>3
<1> QED BY <1>4, SubSeqFull DEF Entries

\* FlattenSeq puts one piece after the other.
LEMMA FlattenIs ==
    ASSUME NEW pieces \in Seq(Seq(Int)), Len(pieces) # 0
    PROVE  \E f : /\ f[1] = pieces[1]
                  /\ \A i \in 2..Len(pieces) : f[i] = f[i - 1] \o pieces[i]
                  /\ FlattenSeq(pieces) = f[Len(pieces)]
<1> DEFINE Flat(n, u) == u = [i \in 1..n |-> IF i = 1 THEN pieces[i] ELSE u[i - 1] \o pieces[i]]
           S == {n \in Nat : \E u : Flat(n, u)}
<1>1. 0 \in S
    <2> DEFINE z == [i \in 1..0 |-> << >>]
    <2>1. z = [i \in 1..0 |-> IF i = 1 THEN pieces[i] ELSE z[i - 1] \o pieces[i]]
        OBVIOUS
    <2> QED BY <2>1
<1>2. ASSUME NEW n \in Nat, n \in S PROVE n + 1 \in S
    <2>1. PICK u : Flat(n, u)
        BY <1>2
    <2> DEFINE v == [i \in 1..(n + 1) |-> IF i = n + 1 THEN (IF n = 0 THEN pieces[1] ELSE u[n] \o pieces[n + 1])
                                          ELSE u[i]]
    <2>2. ASSUME NEW i \in 1..(n + 1)
          PROVE  v[i] = IF i = 1 THEN pieces[i] ELSE v[i - 1] \o pieces[i]
        <3>1. CASE i = n + 1
            BY <3>1
        <3>2. CASE i # n + 1
            <4>1. i \in 1..n /\ v[i] = u[i]
                BY <3>2
            <4>2. u[i] = IF i = 1 THEN pieces[i] ELSE u[i - 1] \o pieces[i]
                BY <2>1, <4>1
            <4>3. i # 1 => v[i - 1] = u[i - 1]
                BY <4>1
            <4> QED BY <4>1, <4>2, <4>3
        <3> QED BY <3>1, <3>2
    <2>3. Flat(n + 1, v)
        BY <2>2
    <2> HIDE DEF Flat
    <2> QED BY <2>3
<1>3. Nat \subseteq S
    <2> HIDE DEF S
    <2> QED BY <1>1, <1>2, SetInduction
<1>4. \E u : Flat(Len(pieces), u)
    <2> HIDE DEF Flat
    <2> QED BY <1>3
<1> DEFINE f == CHOOSE u : Flat(Len(pieces), u)
<1>5. Flat(Len(pieces), f)
    BY <1>4
<1>6. FlattenSeq(pieces) = f[Len(pieces)]
    BY DEF FlattenSeq
<1> HIDE DEF f
<1>7. \A i \in 1..Len(pieces) : f[i] = IF i = 1 THEN pieces[i] ELSE f[i - 1] \o pieces[i]
    BY <1>5
<1>8. f[1] = pieces[1] /\ \A i \in 2..Len(pieces) : f[i] = f[i - 1] \o pieces[i]
    <2>1. Len(pieces) \in Nat
        OBVIOUS
    <2>2. 1 \in 1..Len(pieces) /\ \A i \in 2..Len(pieces) : i \in 1..Len(pieces) /\ i # 1
        BY <2>1
    <2> QED BY <1>7, <2>2
<1> QED BY <1>6, <1>8

InPlace(s) == \A i \in 1..Len(s) : s[i] < 0 => i < Len(s) /\ s[i + 1] = -s[i]

\* A bar, or a bar with its opening bar, is put behind.
LEMMA OneBar ==
    ASSUME NEW s \in Seq(Int), InPlace(s), NEW r \in Nat \ {0}
    PROVE  /\ s \o <<r>> \in Seq(Int) /\ InPlace(s \o <<r>>) /\ Entries(s \o <<r>>) = Append(Entries(s), r)
           /\ s \o <<-r, r>> \in Seq(Int) /\ InPlace(s \o <<-r, r>>) /\ Entries(s \o <<-r, r>>) = Append(Entries(s), r)
<1>1. s \o <<r>> = Append(s, r)
    OBVIOUS
<1>2. s \o <<-r, r>> = Append(Append(s, -r), r)
    OBVIOUS
<1>3. Entries(Append(s, r)) = Append(Entries(s), r)
    BY EntriesAppend
<1>4. Entries(Append(Append(s, -r), r)) = Append(Entries(s), r)
    <2>1. -r \in Int /\ ~(-r > 0) /\ Append(s, -r) \in Seq(Int) /\ r \in Int /\ r > 0
        OBVIOUS
    <2>2. Entries(Append(s, -r)) = Entries(s)
        BY <2>1, EntriesAppend
    <2> QED BY <2>1, <2>2, EntriesAppend
<1>5. Append(s, r) \in Seq(Int) /\ InPlace(Append(s, r))
    <2>1. /\ Append(s, r) \in Seq(Int) /\ Len(Append(s, r)) = Len(s) + 1 /\ Append(s, r)[Len(s) + 1] = r
          /\ \A i \in 1..Len(s) : Append(s, r)[i] = s[i]
        OBVIOUS
    <2> QED BY <2>1 DEF InPlace
<1>6. Append(Append(s, -r), r) \in Seq(Int) /\ InPlace(Append(Append(s, -r), r))
    <2> DEFINE t == Append(Append(s, -r), r)
    <2>1. /\ t \in Seq(Int) /\ Len(t) = Len(s) + 2 /\ t[Len(s) + 1] = -r /\ t[Len(s) + 2] = r
          /\ \A i \in 1..Len(s) : t[i] = s[i]
        OBVIOUS
    <2> HIDE DEF t
    <2>2. ASSUME NEW i \in 1..Len(t), t[i] < 0
          PROVE  i < Len(t) /\ t[i + 1] = -t[i]
        <3>1. CASE i \in 1..Len(s)
            <4>1. t[i] = s[i] /\ i < Len(s) /\ s[i + 1] = -s[i] /\ i + 1 \in 1..Len(s)
                BY <2>1, <2>2, <3>1 DEF InPlace
            <4> QED BY <2>1, <4>1
        <3>2. CASE i = Len(s) + 1
            BY <2>1, <3>2
        <3>3. CASE i = Len(s) + 2
            BY <2>1, <2>2, <3>3
        <3> QED BY <2>1, <3>1, <3>2, <3>3
    <2> QED BY <2>1, <2>2 DEF t, InPlace
<1> QED BY <1>1, <1>2, <1>3, <1>4, <1>5, <1>6

\* The opening bars leave the others as they were, and each is before its own.
LEMMA Openings ==
    ASSUME result \in Seq(Nat \ {0}), NEW days
    PROVE  /\ WithOpening(days) \in Seq(Int) /\ InPlace(WithOpening(days))
           /\ Entries(WithOpening(days)) = result
           /\ result = << >> => WithOpening(days) = << >>
<1> DEFINE pieces == [i \in DOMAIN result |-> IF result[i] \in days THEN <<-result[i], result[i]>> ELSE <<result[i]>>]
<1>1. /\ Len(result) \in Nat /\ DOMAIN result = 1..Len(result)
      /\ \A i \in 1..Len(result) : result[i] \in Nat \ {0}
    OBVIOUS
<1>2. pieces \in Seq(Seq(Int)) /\ Len(pieces) = Len(result)
    BY <1>1
<1>3. \A i \in 1..Len(result) : pieces[i] = IF result[i] \in days THEN <<-result[i], result[i]>> ELSE <<result[i]>>
    BY <1>1
<1>4. WithOpening(days) = FlattenSeq(pieces)
    BY DEF WithOpening
<1> HIDE DEF pieces
<1>5. CASE Len(result) = 0
    <2>1. result = << >> /\ pieces = << >>
        BY <1>2, <1>5
    <2>2. FlattenSeq(pieces) = << >>
        BY <1>2, <1>5, <2>1 DEF FlattenSeq
    <2>3. Entries(result) = result
        BY AllEntries
    <2>4. << >> \in Seq(Int) /\ InPlace(<< >>)
        BY DEF InPlace
    <2> QED BY <1>4, <2>1, <2>2, <2>3, <2>4
<1>6. CASE Len(result) # 0
    <2>1. PICK f : /\ f[1] = pieces[1]
                   /\ \A i \in 2..Len(pieces) : f[i] = f[i - 1] \o pieces[i]
                   /\ FlattenSeq(pieces) = f[Len(pieces)]
        BY <1>2, <1>6, FlattenIs
    <2> DEFINE Right(s, n) == s \in Seq(Int) /\ InPlace(s) /\ Entries(s) = SubSeq(result, 1, n)
               S == {n \in Nat : n + 1 <= Len(result) => Right(f[n + 1], n + 1)}
    <2>2. ASSUME NEW s, NEW n \in Nat, n + 1 <= Len(result), Right(s, n)
          PROVE  Right(s \o pieces[n + 1], n + 1)
        <3>1. SubSeq(result, 1, n + 1) = Append(SubSeq(result, 1, n), result[n + 1])
            BY <2>2, OneMore
        <3>2. result[n + 1] \in Nat \ {0} /\ n + 1 \in 1..Len(result)
            BY <1>1, <2>2
        <3>3. pieces[n + 1] = <<-result[n + 1], result[n + 1]>> \/ pieces[n + 1] = <<result[n + 1]>>
            BY <1>3, <3>2
        <3> QED BY <2>2, <3>1, <3>2, <3>3, OneBar
    <2>3. 0 \in S
        <3>1. Right(<< >>, 0)
            <4>1. << >> \in Seq(Nat \ {0}) /\ << >> \in Seq(Int) /\ InPlace(<< >>)
                BY DEF InPlace
            <4>2. Entries(<< >>) = << >>
                BY <4>1, AllEntries
            <4>3. SubSeq(result, 1, 0) = << >>
                OBVIOUS
            <4> QED BY <4>1, <4>2, <4>3
        <3>2. << >> \o pieces[1] = pieces[1]
            BY <1>1, <1>3, <1>6
        <3> HIDE DEF Right
        <3>3. Right(<< >> \o pieces[0 + 1], 0 + 1)
            <4>1. 0 \in Nat /\ 0 + 1 <= Len(result)
                BY <1>1, <1>6
            <4> QED BY <2>2, <3>1, <4>1
        <3>4. 0 + 1 = 1
            OBVIOUS
        <3>5. Right(f[1], 1)
            BY <2>1, <3>2, <3>3, <3>4
        <3> QED BY <3>4, <3>5
    <2>4. ASSUME NEW n \in Nat, n \in S PROVE n + 1 \in S
        <3> HIDE DEF Right
        <3> SUFFICES ASSUME (n + 1) + 1 <= Len(result) PROVE Right(f[(n + 1) + 1], (n + 1) + 1)
            OBVIOUS
        <3>1. Right(f[n + 1], n + 1)
            BY <1>1, <2>4
        <3>2. (n + 1) + 1 \in 2..Len(pieces) /\ ((n + 1) + 1) - 1 = n + 1 /\ n + 1 \in Nat
            BY <1>1, <1>2
        <3>3. f[(n + 1) + 1] = f[n + 1] \o pieces[(n + 1) + 1]
            BY <2>1, <3>2
        <3> QED BY <2>2, <3>1, <3>2, <3>3
    <2>5. Nat \subseteq S
        <3> HIDE DEF S
        <3> QED BY <2>3, <2>4, SetInduction
    <2>6. Right(f[Len(result)], Len(result))
        <3>1. Len(result) - 1 \in Nat /\ (Len(result) - 1) + 1 = Len(result) /\ Len(result) <= Len(result)
            BY <1>1, <1>6
        <3> HIDE DEF Right
        <3> QED BY <2>5, <3>1
    <2>7. SubSeq(result, 1, Len(result)) = result
        BY SubSeqFull
    <2> QED BY <1>2, <1>4, <1>6, <2>1, <2>6, <2>7
<1> QED BY <1>5, <1>6

-----------------------------------------------------------------------------
(* The order of a call's answer.                                           *)

\* Reverse of two pieces.
LEMMA BackwardsConcat ==
    ASSUME NEW S, NEW a \in Seq(S), NEW b \in Seq(S)
    PROVE  Reverse(a \o b) = Reverse(b) \o Reverse(a)
<1> DEFINE c == a \o b
           ra == Reverse(a)
           rb == Reverse(b)
           d == rb \o ra
<1>1. c \in Seq(S) /\ Len(c) = Len(a) + Len(b)
      /\ \A i \in 1..(Len(a) + Len(b)) : c[i] = IF i <= Len(a) THEN a[i] ELSE b[i - Len(a)]
    BY ConcatProperties
<1>2. /\ ra \in Seq(S) /\ Len(ra) = Len(a) /\ \A i \in 1..Len(a) : ra[i] = a[Len(a) + 1 - i]
      /\ rb \in Seq(S) /\ Len(rb) = Len(b) /\ \A i \in 1..Len(b) : rb[i] = b[Len(b) + 1 - i]
    BY Backwards
<1> HIDE DEF ra, rb, c
<1>3. d \in Seq(S) /\ Len(d) = Len(a) + Len(b)
      /\ \A i \in 1..(Len(a) + Len(b)) : d[i] = IF i <= Len(b) THEN rb[i] ELSE ra[i - Len(b)]
    <2>1. d \in Seq(S) /\ Len(d) = Len(rb) + Len(ra)
          /\ \A i \in 1..(Len(rb) + Len(ra)) : d[i] = IF i <= Len(rb) THEN rb[i] ELSE ra[i - Len(rb)]
        <3>1. rb \in Seq(S) /\ ra \in Seq(S)
            BY <1>2
        <3> QED BY <3>1, ConcatProperties
    <2>2. Len(rb) + Len(ra) = Len(a) + Len(b)
        BY <1>2
    <2> QED BY <1>2, <2>1, <2>2
<1>4. Reverse(c) \in Seq(S) /\ Len(Reverse(c)) = Len(c) /\ \A i \in 1..Len(c) : Reverse(c)[i] = c[Len(c) + 1 - i]
    BY <1>1, Backwards
<1> HIDE DEF d
<1>5. Len(a) \in Nat /\ Len(b) \in Nat
    OBVIOUS
<1>6. ASSUME NEW i \in 1..(Len(a) + Len(b)) PROVE Reverse(c)[i] = d[i]
    <2>1. Reverse(c)[i] = c[Len(a) + Len(b) + 1 - i] /\ Len(a) + Len(b) + 1 - i \in 1..(Len(a) + Len(b))
        BY <1>1, <1>4, <1>5
    <2>2. CASE i <= Len(b)
        <3>1. c[Len(a) + Len(b) + 1 - i] = b[Len(b) + 1 - i]
            <4>1. ~(Len(a) + Len(b) + 1 - i <= Len(a)) /\ Len(a) + Len(b) + 1 - i - Len(a) = Len(b) + 1 - i
                BY <1>5, <2>2
            <4> QED BY <1>1, <2>1, <4>1, SMTT(60)
        <3>2. i \in 1..Len(b)
            BY <1>5, <2>2
        <3> QED BY <1>2, <1>3, <2>1, <2>2, <3>1, <3>2
    <2>3. CASE ~(i <= Len(b))
        <3>1. i - Len(b) \in 1..Len(a) /\ Len(a) + 1 - (i - Len(b)) = Len(a) + Len(b) + 1 - i
              /\ Len(a) + Len(b) + 1 - i <= Len(a)
            BY <1>5, <2>3
        <3>2. d[i] = a[Len(a) + Len(b) + 1 - i]
            BY <1>2, <1>3, <2>3, <3>1
        <3> QED BY <1>1, <2>1, <3>1, <3>2
    <2> QED BY <2>2, <2>3
<1>7. Reverse(c) = d
    BY <1>1, <1>3, <1>4, <1>6, SeqEqual
<1> QED BY <1>7 DEF c, d, ra, rb

\* Whole pages.
LEMMA InPages ==
    ASSUME NEW i \in Nat
    PROVE  /\ i \div Page \in Nat /\ (i \div Page) * Page \in Nat
           /\ (i \div Page) * Page <= i /\ i < (i \div Page) * Page + Page
           /\ \A k \in Nat : /\ k * Page \in Nat
                             /\ i < k * Page => (i \div Page) * Page + Page <= k * Page
                             /\ k * Page <= i /\ i < k * Page + Page => i \div Page = k
<1>1. i \div Page \in Nat
    BY PageSizes
<1>2. (i \div Page) * Page \in Nat /\ (i \div Page) * Page <= i /\ i < (i \div Page) * Page + Page
    BY PageSizes
<1>3. ASSUME NEW k \in Nat
      PROVE  /\ k * Page \in Nat
             /\ i < k * Page => (i \div Page) * Page + Page <= k * Page
             /\ k * Page <= i /\ i < k * Page + Page => i \div Page = k
    <2> DEFINE q == i \div Page
    <2>1. q \in Nat /\ q * Page \in Nat /\ q * Page <= i /\ i < q * Page + Page
        BY <1>1, <1>2
    <2> HIDE DEF q
    <2>2. k * Page \in Nat
        BY PageSizes
    <2>3. ASSUME i < k * Page PROVE q * Page + Page <= k * Page
        <3>1. q < k
            BY <2>1, <2>3, PageSizes
        <3> QED BY <2>1, <3>1, PageSizes
    <2>4. ASSUME k * Page <= i, i < k * Page + Page PROVE q = k
        <3>1. ~(q < k)
            BY <2>1, <2>4, PageSizes
        <3>2. ~(k < q)
            BY <2>1, <2>4, PageSizes
        <3> QED BY <2>1, <3>1, <3>2
    <2> QED BY <2>2, <2>3, <2>4 DEF q
<1> QED BY <1>1, <1>2, <1>3

\* ByPages turns every page around.
LEMMA ByPagesIs ==
    ASSUME NEW S, NEW s \in Seq(S)
    PROVE  /\ ByPages(s) \in Seq(S) /\ Len(ByPages(s)) = Len(s)
           /\ \A i \in 1..Len(s) :
                ByPages(s)[i] = s[((i - 1) \div Page) * Page + Least(((i - 1) \div Page) * Page + Page, Len(s)) + 1 - i]
<1>0. Len(s) \in Nat /\ DOMAIN s = 1..Len(s)
    OBVIOUS
<1> DEFINE Place(i) == ((i - 1) \div Page) * Page + Least(((i - 1) \div Page) * Page + Page, Len(s)) + 1 - i
<1>1. ASSUME NEW i \in 1..Len(s) PROVE Place(i) \in 1..Len(s)
    <2> DEFINE f == ((i - 1) \div Page) * Page
    <2>1. f \in Nat /\ f <= i - 1 /\ i - 1 < f + Page
        <3>1. i - 1 \in Nat
            BY <1>0
        <3> QED BY <3>1, InPages
    <2> HIDE DEF f
    <2>2. f + Least(f + Page, Len(s)) + 1 - i \in 1..Len(s)
        BY <1>0, <2>1, PageSizes DEF Least
    <2> QED BY <2>2 DEF f
<1>2. ByPages(s) = [i \in 1..Len(s) |-> s[Place(i)]]
    BY <1>0 DEF ByPages
<1> HIDE DEF Place
<1>3. \A i \in 1..Len(s) : s[Place(i)] \in S
    BY <1>1
<1>4. ByPages(s) \in Seq(S) /\ Len(ByPages(s)) = Len(s) /\ \A i \in 1..Len(s) : ByPages(s)[i] = s[Place(i)]
    BY <1>0, <1>2, <1>3
<1> QED BY <1>4 DEF Place

\* A page behind whole pages.
LEMMA ByPagesConcat ==
    ASSUME NEW S, NEW a \in Seq(S), NEW b \in Seq(S), NEW k \in Nat, Len(a) = k * Page, Len(b) <= Page
    PROVE  ByPages(a \o b) = ByPages(a) \o Reverse(b)
<1> DEFINE c == a \o b
           pa == ByPages(a)
           rb == Reverse(b)
           d == pa \o rb
           First(i) == ((i - 1) \div Page) * Page
<1>0. Len(a) \in Nat /\ Len(b) \in Nat
    OBVIOUS
<1>1. c \in Seq(S) /\ Len(c) = Len(a) + Len(b)
      /\ \A i \in 1..(Len(a) + Len(b)) : c[i] = IF i <= Len(a) THEN a[i] ELSE b[i - Len(a)]
    BY ConcatProperties
<1>2. pa \in Seq(S) /\ Len(pa) = Len(a)
      /\ \A i \in 1..Len(a) : pa[i] = a[First(i) + Least(First(i) + Page, Len(a)) + 1 - i]
    BY ByPagesIs
<1>3. rb \in Seq(S) /\ Len(rb) = Len(b) /\ \A i \in 1..Len(b) : rb[i] = b[Len(b) + 1 - i]
    BY Backwards
<1> HIDE DEF c, pa, rb
<1>4. d \in Seq(S) /\ Len(d) = Len(a) + Len(b)
      /\ \A i \in 1..(Len(a) + Len(b)) : d[i] = IF i <= Len(a) THEN pa[i] ELSE rb[i - Len(a)]
    <2>1. d \in Seq(S) /\ Len(d) = Len(pa) + Len(rb)
          /\ \A i \in 1..(Len(pa) + Len(rb)) : d[i] = IF i <= Len(pa) THEN pa[i] ELSE rb[i - Len(pa)]
        BY <1>2, <1>3, ConcatProperties, ZenonT(60)
    <2> QED BY <1>2, <1>3, <2>1
<1>5. ByPages(c) \in Seq(S) /\ Len(ByPages(c)) = Len(c)
      /\ \A i \in 1..Len(c) : ByPages(c)[i] = c[First(i) + Least(First(i) + Page, Len(c)) + 1 - i]
    BY <1>1, ByPagesIs
<1> HIDE DEF d
<1>6. ASSUME NEW i \in 1..(Len(a) + Len(b)) PROVE ByPages(c)[i] = d[i]
    <2> DEFINE f == First(i)
    <2>1. /\ i - 1 \in Nat /\ f \in Nat /\ f <= i - 1 /\ i - 1 < f + Page
          /\ i - 1 < Len(a) => f + Page <= Len(a)
          /\ Len(a) <= i - 1 => f = Len(a)
        <3>1. i - 1 \in Nat
            BY <1>0
        <3>2. Len(a) <= i - 1 => i - 1 < Len(a) + Page
            BY <1>0, PageSizes
        <3>3. f \in Nat /\ f <= i - 1 /\ i - 1 < f + Page
            BY <3>1, InPages
        <3>4. i - 1 < k * Page => f + Page <= k * Page
            BY <3>1, InPages
        <3>5. k * Page <= i - 1 /\ i - 1 < k * Page + Page => (i - 1) \div Page = k
            BY <3>1, InPages
        <3> QED BY <3>1, <3>2, <3>3, <3>4, <3>5
    <2>2. ByPages(c)[i] = c[f + Least(f + Page, Len(a) + Len(b)) + 1 - i]
        BY <1>1, <1>5
    <2>3. i \in 1..Len(a) => pa[i] = a[f + Least(f + Page, Len(a)) + 1 - i]
        BY <1>2
    <2> HIDE DEF f, First
    <2>4. CASE i <= Len(a)
        <3>1. f + Page <= Len(a)
            BY <1>0, <2>1, <2>4
        <3>2. Least(f + Page, Len(a) + Len(b)) = f + Page /\ Least(f + Page, Len(a)) = f + Page
            BY <1>0, <2>1, <3>1, PageSizes DEF Least
        <3>3. f + (f + Page) + 1 - i \in 1..Len(a)
            BY <1>0, <2>1, <3>1, PageSizes
        <3>4. f + (f + Page) + 1 - i \in 1..(Len(a) + Len(b)) /\ i \in 1..Len(a)
            BY <1>0, <2>4, <3>3
        <3>5. ByPages(c)[i] = a[f + (f + Page) + 1 - i]
            BY <1>1, <2>2, <3>2, <3>3, <3>4
        <3>6. d[i] = pa[i]
            BY <1>4, <2>4
        <3> QED BY <2>3, <3>2, <3>4, <3>5, <3>6
    <2>5. CASE ~(i <= Len(a))
        <3>1. f = Len(a)
            BY <1>0, <2>1, <2>5
        <3>2. Least(f + Page, Len(a) + Len(b)) = Len(a) + Len(b)
            BY <1>0, <3>1, PageSizes DEF Least
        <3> DEFINE j == f + (Len(a) + Len(b)) + 1 - i
        <3>3. /\ j \in 1..(Len(a) + Len(b)) /\ ~(j <= Len(a)) /\ j - Len(a) = Len(b) + 1 - (i - Len(a))
              /\ i - Len(a) \in 1..Len(b)
            BY <1>0, <2>5, <3>1
        <3>4. ByPages(c)[i] = c[j]
            BY <2>2, <3>2
        <3> HIDE DEF j
        <3>5. c[j] = b[j - Len(a)]
            BY <1>1, <3>3
        <3>6. d[i] = rb[i - Len(a)]
            BY <1>4, <2>5
        <3> QED BY <1>3, <3>3, <3>4, <3>5, <3>6
    <2> QED BY <2>4, <2>5
<1>7. ByPages(c) = d
    BY <1>1, <1>4, <1>5, <1>6, SeqEqual
<1> QED BY <1>7 DEF c, d, pa, rb

\* A stretch of what has been read.
LEMMA StretchFacts ==
    ASSUME NEW S, NEW known \in Seq(S), NEW from \in Nat, NEW s \in Nat, from <= s,
           s = from \/ s <= Len(known)
    PROVE  /\ Stretch(known, from, s) \in Seq(S) /\ Len(Stretch(known, from, s)) = s - from
           /\ \A i \in 1..(s - from) : Stretch(known, from, s)[i] = known[from + i]
<1>1. CASE s = from
    <2>1. Stretch(known, from, s) = << >>
        BY <1>1, SubSeqEmpty DEF Stretch
    <2> QED BY <1>1, <2>1, EmptySeq
<1>2. CASE s <= Len(known)
    <2> DEFINE a == SubSeq(known, from + 1, s)
    <2>1. a \in Seq(S) /\ Len(a) = (IF from < s THEN s - from ELSE 0) /\ \A i \in 1..Len(a) : a[i] = known[from + i]
        BY <1>2, Cut
    <2> HIDE DEF a
    <2>2. Len(a) = s - from
        BY <2>1
    <2>3. Stretch(known, from, s) = a
        BY DEF Stretch, a
    <2> QED BY <2>1, <2>2, <2>3
<1> QED BY <1>1, <1>2

\* A page is put behind what was read, all in the order of the list.
LEMMA Adjoin ==
    ASSUME NEW S, NEW known \in Seq(S), NEW from \in Nat, NEW s \in Nat, from <= s,
           s = from \/ s <= Len(known),
           NEW page \in Seq(S), Len(page) = 0 \/ s + Len(page) <= Len(known),
           \A i \in 1..Len(page) : page[i] = known[s + i]
    PROVE  Stretch(known, from, s + Len(page)) = Stretch(known, from, s) \o page
<1> DEFINE a == SubSeq(known, from + 1, s)
<1>0. Len(known) \in Nat /\ Len(page) \in Nat
    OBVIOUS
<1>1. a \in Seq(S)
    BY StretchFacts DEF Stretch
<1>2. SubSeq(known, from + 1, s + Len(page)) = a \o page
    <2>1. CASE Len(page) = 0
        <3>1. page = << >> /\ s + Len(page) = s
            BY <2>1, EmptySeq
        <3> HIDE DEF a
        <3>2. a \o page = a
            BY <1>1, <3>1, ConcatEmptySeq
        <3> QED BY <3>1, <3>2 DEF a
    <2>2. CASE Len(page) # 0
        <3> DEFINE n == s + Len(page)
                   b == SubSeq(known, s + 1, n)
        <3>1. n \in Nat /\ s < n /\ n <= Len(known) /\ n - s = Len(page)
            BY <1>0, <2>2
        <3> HIDE DEF n
        <3>2. b \in Seq(S) /\ Len(b) = Len(page) /\ \A i \in 1..Len(b) : b[i] = known[s + i]
            BY <3>1, Cut
        <3> HIDE DEF b
        <3>3. b = page
            BY <3>2, SeqEqual
        <3>4. from + 1 \in 1..(Len(known) + 1) /\ s \in ((from + 1) - 1)..Len(known) /\ n \in s..Len(known)
            BY <1>0, <3>1
        <3>5. SubSeq(known, from + 1, s) \o SubSeq(known, s + 1, n) = SubSeq(known, from + 1, n)
            BY <3>4, ConcatAdjacentSubSeq
        <3> QED BY <3>3, <3>5 DEF b, n
    <2> QED BY <2>1, <2>2
<1> QED BY <1>2 DEF Stretch

\* Joined keeps the order of the call.
LEMMA JoinedInOrder ==
    ASSUME Regular(op), NEW S, NEW known \in Seq(S), NEW from \in Nat, NEW s \in Nat, from <= s,
           s = from \/ s <= Len(known),
           op.stop = "short" => WholePages(from, s),
           NEW page \in Seq(S), Len(page) = 0 \/ s + Len(page) <= Len(known), Len(page) <= Page,
           \A i \in 1..Len(page) : page[i] = known[s + i],
           result = InOrderOfCall(Stretch(known, from, s))
    PROVE  Joined(page) = InOrderOfCall(Stretch(known, from, s + Len(page)))
<1> DEFINE a == Stretch(known, from, s)
<1>1. a \in Seq(S) /\ Len(a) = s - from /\ Stretch(known, from, s + Len(page)) = a \o page
    <2>1. Stretch(known, from, s) \in Seq(S) /\ Len(Stretch(known, from, s)) = s - from
        BY StretchFacts
    <2>2. Stretch(known, from, s + Len(page)) = Stretch(known, from, s) \o page
        BY Adjoin, ZenonT(60)
    <2> QED BY <2>1, <2>2
<1>2. result = InOrderOfCall(a)
    OBVIOUS
<1> HIDE DEF a
<1>3. CASE op.front
    <2>1. op.newest
        BY <1>3 DEF Regular
    <2>2. Joined(page) = Reverse(page) \o Reverse(a)
        BY <1>2, <1>3, <2>1 DEF Joined, InTime, InOrderOfCall
    <2>3. InOrderOfCall(a \o page) = Reverse(a \o page)
        BY <1>3 DEF InOrderOfCall
    <2> QED BY <1>1, <2>2, <2>3, BackwardsConcat
<1>4. CASE ~op.front /\ op.newest
    <2>1. Joined(page) = ByPages(a) \o Reverse(page) /\ InOrderOfCall(a \o page) = ByPages(a \o page)
        BY <1>2, <1>4 DEF Joined, InTime, InOrderOfCall
    <2>2. PICK k \in Nat : s = from + k * Page
        BY <1>4 DEF Regular, WholePages
    <2>3. Len(a) = k * Page
        <3>1. k * Page \in Nat
            BY PageSizes
        <3> QED BY <1>1, <2>2, <3>1
    <2>4. ByPages(a \o page) = ByPages(a) \o Reverse(page)
        BY <1>1, <2>3, ByPagesConcat
    <2> QED BY <1>1, <2>1, <2>4
<1>5. CASE ~op.front /\ ~op.newest
    BY <1>1, <1>2, <1>5 DEF Joined, InTime, InOrderOfCall
<1> QED BY <1>3, <1>4, <1>5

\* Joined adds the entries of the page.
LEMMA JoinedFacts ==
    ASSUME NEW S, result \in Seq(S), NEW page \in Seq(S)
    PROVE  /\ Joined(page) \in Seq(S) /\ Len(Joined(page)) = Len(result) + Len(page)
           /\ ToSet(Joined(page)) = ToSet(result) \cup ToSet(page)
<1> DEFINE t == InTime(page)
<1>1. t \in Seq(S) /\ Len(t) = Len(page) /\ ToSet(t) = ToSet(page)
    BY Backwards DEF InTime
<1>2. Joined(page) = t \o result \/ Joined(page) = result \o t
    BY DEF Joined
<1> HIDE DEF t
<1>3. ASSUME NEW a \in Seq(S), NEW b \in Seq(S)
      PROVE  a \o b \in Seq(S) /\ Len(a \o b) = Len(a) + Len(b) /\ ToSet(a \o b) = ToSet(a) \cup ToSet(b)
    <2> DEFINE c == a \o b
    <2>0. Len(a) \in Nat /\ Len(b) \in Nat /\ DOMAIN a = 1..Len(a) /\ DOMAIN b = 1..Len(b)
        OBVIOUS
    <2>1. c \in Seq(S) /\ Len(c) = Len(a) + Len(b)
          /\ \A i \in 1..(Len(a) + Len(b)) : c[i] = IF i <= Len(a) THEN a[i] ELSE b[i - Len(a)]
        BY ConcatProperties
    <2> HIDE DEF c
    <2>2. DOMAIN c = 1..(Len(a) + Len(b))
        BY <2>1
    <2>3. ASSUME NEW x \in ToSet(c) PROVE x \in ToSet(a) \cup ToSet(b)
        <3>1. PICK i \in 1..(Len(a) + Len(b)) : x = c[i]
            BY <2>2, <2>3 DEF ToSet
        <3>2. CASE i <= Len(a)
            <4>1. x = a[i] /\ i \in DOMAIN a
                BY <2>0, <2>1, <3>1, <3>2
            <4> QED BY <4>1 DEF ToSet
        <3>3. CASE ~(i <= Len(a))
            <4>1. x = b[i - Len(a)] /\ i - Len(a) \in DOMAIN b
                BY <2>0, <2>1, <3>1, <3>3
            <4> QED BY <4>1 DEF ToSet
        <3> QED BY <3>2, <3>3
    <2>4. ASSUME NEW x \in ToSet(a) PROVE x \in ToSet(c)
        <3>1. PICK i \in DOMAIN a : x = a[i]
            BY <2>4 DEF ToSet
        <3>2. i \in DOMAIN c /\ c[i] = a[i]
            BY <2>0, <2>1, <2>2
        <3> QED BY <3>1, <3>2 DEF ToSet
    <2>5. ASSUME NEW x \in ToSet(b) PROVE x \in ToSet(c)
        <3>1. PICK i \in DOMAIN b : x = b[i]
            BY <2>5 DEF ToSet
        <3>2. Len(a) + i \in 1..(Len(a) + Len(b)) /\ ~(Len(a) + i <= Len(a)) /\ (Len(a) + i) - Len(a) = i
            BY <2>0
        <3>3. Len(a) + i \in DOMAIN c /\ c[Len(a) + i] = b[i]
            BY <2>1, <2>2, <3>2
        <3> QED BY <3>1, <3>3 DEF ToSet
    <2> QED BY <2>1, <2>3, <2>4, <2>5 DEF c
<1>4. Len(result) \in Nat /\ Len(page) \in Nat
    OBVIOUS
<1>5. CASE Joined(page) = t \o result
    <2>1. /\ t \o result \in Seq(S) /\ Len(t \o result) = Len(t) + Len(result)
          /\ ToSet(t \o result) = ToSet(t) \cup ToSet(result)
        BY <1>1, <1>3
    <2> QED BY <1>1, <1>4, <1>5, <2>1
<1>6. CASE Joined(page) = result \o t
    <2>1. /\ result \o t \in Seq(S) /\ Len(result \o t) = Len(result) + Len(t)
          /\ ToSet(result \o t) = ToSet(result) \cup ToSet(t)
        BY <1>1, <1>3
    <2> QED BY <1>1, <1>4, <1>6, <2>1
<1> QED BY <1>2, <1>5, <1>6

-----------------------------------------------------------------------------
(* One page.                                                               *)

\* The operation and how much it asks for.
LEMMA AskedIs ==
    ASSUME PagedTyped
    PROVE  /\ op \in Operation /\ Regular(op)
           /\ call.start \in 0..MaxLen /\ call.count \in 0..MaxLen /\ call.until \in 0..MaxLen
           /\ op.limit # "count" \/ op.wire = Narrow => call.start = 0
           /\ op # StockFullKLine => call.until = 0
           /\ start \in Nat /\ start < op.range /\ left \in Nat /\ left <= MaxLen
           /\ op.limit # "count" => Asked = Page
           /\ pc = "reading" => /\ Asked \in Nat /\ Asked > 0 /\ Asked <= Page
                                /\ op.limit = "count" => /\ Asked <= left
                                                         /\ left # Asked => Asked = Page /\ left > Page
<1>1. op \in Operation /\ call.start \in 0..MaxLen /\ call.count \in 0..MaxLen /\ call.until \in 0..MaxLen
    BY DEF PagedTyped, op
<1>2. Regular(op)
    BY <1>1, Operations
<1>3. op.limit # "count" \/ op.wire = Narrow => call.start = 0
    BY <1>1, Arguments DEF PagedTyped
<1>4. op # StockFullKLine => call.until = 0
    BY <1>1, Arguments DEF PagedTyped
<1>5. op.range \in Nat
    BY <1>2, PageSizes DEF Regular
<1>6. start \in Nat /\ start < op.range /\ left \in Nat /\ left <= MaxLen
    <2>1. start \in 0..(op.range - 1) /\ left \in 0..MaxLen
        BY DEF PagedTyped
    <2> QED BY <1>5, <2>1, PageSizes
<1>7. op.limit # "count" => Asked = Page
    BY DEF Asked
<1>8. ASSUME pc = "reading"
      PROVE  /\ Asked \in Nat /\ Asked > 0 /\ Asked <= Page
             /\ op.limit = "count" => Asked <= left /\ (left # Asked => Asked = Page /\ left > Page)
    <2>1. op.limit = "count" => left > 0
        BY <1>8 DEF PagedTyped
    <2> QED BY <1>6, <1>7, <2>1, PageSizes DEF Asked, Least
<1> QED BY <1>1, <1>2, <1>3, <1>4, <1>6, <1>7, <1>8

\* The next page of a call whose offsets fit can be asked for.
LEMMA NextFits ==
    ASSUME PagedTyped, ListTyped, Fits, WholePages(call.start, start), call.start <= start,
           start + Page <= Len(list), op.limit = "count" => start + Page < call.start + call.count
    PROVE  start + Page < op.wire /\ start + Page < op.range /\ WholePages(call.start, start + Page)
<1>1. start \in Nat /\ call.start \in Nat
    BY AskedIs, PageSizes
<1>2. /\ Len(list) \in Nat /\ Len(before) \in Nat /\ inserted \in Nat /\ removed \in Nat
      /\ Len(list) <= MaxLen /\ Len(list) + removed = Len(before) + inserted
    BY DEF ListTyped
<1>3. PICK k \in Nat : start = call.start + k * Page
    BY DEF WholePages
<1>4. k * Page \in Nat /\ (k + 1) * Page = k * Page + Page /\ k + 1 \in Nat /\ k <= k * Page
    BY PageSizes
<1>5. start + Page = call.start + (k + 1) * Page
    <2> DEFINE p == k * Page
               q == (k + 1) * Page
    <2>1. start = call.start + p /\ q = p + Page /\ p \in Nat
        BY <1>3, <1>4
    <2> HIDE DEF p, q
    <2>2. start + Page = call.start + q
        BY <1>1, <2>1, PageSizes
    <2> QED BY <2>2 DEF q
<1>6. k + 1 \in 0..MaxLen
    <2> DEFINE p == k * Page
    <2>1. p \in Nat /\ start = call.start + p /\ k <= p
        BY <1>3, <1>4
    <2> HIDE DEF p
    <2> QED BY <1>1, <1>2, <2>1, PageSizes
<1>7. start + Page <= Len(before) + inserted
    BY <1>1, <1>2, PageSizes
<1> DEFINE n == start + Page
<1>8. n = call.start + (k + 1) * Page /\ n <= Len(before) + inserted /\ (op.limit = "count" => n < call.start + call.count)
    BY <1>5, <1>7
<1> HIDE DEF n
<1>9. n < op.wire /\ n < op.range
    BY <1>6, <1>8 DEF Fits
<1>10. WholePages(call.start, n)
    BY <1>4, <1>8 DEF WholePages
<1> QED BY <1>9, <1>10 DEF n

\* The page that a call whose offsets fit reads next.
LEMMA PageIs ==
    ASSUME PagedTyped, ListTyped, AtPage, pc = "reading"
    PROVE  LET page == PageOf(start) IN
           /\ start % op.wire = start
           /\ page \in Seq(1..(MaxLen + inserted)) /\ page \in Seq(Nat \ {0}) /\ Len(page) \in Nat
           /\ Len(page) <= Asked
           /\ Len(page) = 0 \/ start + Len(page) <= Len(Shown(list))
           /\ Len(page) < Asked => start + Len(page) >= Len(Shown(list))
           /\ \A i \in 1..Len(page) : page[i] = list[start + i]
           /\ op = StockFullKLine => Len(Answer(start, Asked + 1)) = Len(page) + 1
<1> DEFINE page == PageOf(start)
<1>1. /\ Regular(op) /\ start \in Nat /\ Asked \in Nat /\ Asked > 0
    BY AskedIs
<1>2. start % op.wire = start
    <2>1. op.wire \in Nat /\ op.wire > 0 /\ start < op.wire
        BY <1>1, PageSizes DEF AtPage, Regular
    <2> QED BY <1>1, <2>1
<1>3. op.bars \in BOOLEAN /\ list \in Seq(1..(MaxLen + inserted)) /\ inserted \in Nat
    BY <1>1 DEF Regular, ListTyped
<1>4. /\ page \in Seq(1..(MaxLen + inserted))
      /\ Len(page) = IF start >= Len(Shown(list)) THEN 0 ELSE Least(Asked, Len(Shown(list)) - start)
      /\ \A i \in 1..Len(page) : page[i] = list[start + i]
      /\ op.bars /\ start < Len(list) => Len(Answer(start, Asked + 1)) = Len(page) + 1
    BY <1>1, <1>3, PageEntries
<1>5. Len(Shown(list)) \in Nat
    BY <1>3, ShownFacts
<1>6. page \in Seq(Nat \ {0})
    <2>1. 1..(MaxLen + inserted) \subseteq Nat \ {0}
        BY <1>3, PageSizes
    <2> QED BY <1>4, <2>1, SeqMonotonic
<1>7. op = StockFullKLine => Len(Answer(start, Asked + 1)) = Len(page) + 1
    BY <1>1, <1>4 DEF AtPage, Regular
<1> HIDE DEF page
<1>8. /\ Len(page) \in Nat /\ Len(page) <= Asked
      /\ Len(page) = 0 \/ start + Len(page) <= Len(Shown(list))
      /\ Len(page) < Asked => start + Len(page) >= Len(Shown(list))
    <2>1. Len(page) \in Nat
        BY <1>4
    <2> QED BY <1>1, <1>4, <1>5, <2>1 DEF Least
<1>9. \A i \in 1..Len(page) : page[i] = list[start + i]
    BY <1>4
<1> QED BY <1>2, <1>4, <1>6, <1>7, <1>8, <1>9 DEF page

\* When the code takes a page for the last one.
LEMMA LastIs ==
    ASSUME PagedTyped, ListTyped, AtPage, Fits, pc = "reading"
    PROVE  LastPage(Told(start)) <=> IF op.stop = "empty" THEN Len(PageOf(start)) = 0 ELSE Len(PageOf(start)) < Asked
<1> DEFINE n == Len(PageOf(start))
<1>1. n \in Nat /\ n <= Asked /\ (n = 0 \/ start + n <= Len(Shown(list)))
      /\ (op = StockFullKLine => Len(Answer(start, Asked + 1)) = n + 1)
    BY PageIs
<1>2. Regular(op) /\ Asked \in Nat /\ start \in Nat /\ (op.limit # "count" => Asked = Page)
    BY AskedIs
<1> HIDE DEF n
<1>3. Told(start) = n
    <2>1. CASE op # StockFullKLine
        BY <2>1 DEF Told, n
    <2>2. CASE op = StockFullKLine
        <3>1. Told(start) = ((n + 1) - 1) % Narrow /\ (n + 1) - 1 = n
            BY <1>1, <2>2 DEF Told
        <3>2. n < Narrow
            <4>1. Asked = Page /\ op.range = Narrow /\ op.stop = "short" /\ op.limit = "none"
                BY <1>2, <2>2 DEF Regular
            <4>2. CASE n < Page
                BY <1>1, <4>2, PageSizes
            <4>3. CASE n = Page
                <5>1. Len(Shown(list)) <= Len(list) /\ Len(Shown(list)) \in Nat /\ Len(list) \in Nat
                    BY <1>2, ShownFacts DEF ListTyped, Regular
                <5>2. start + Page <= Len(list)
                    BY <1>1, <1>2, <4>3, <5>1, PageSizes
                <5>3. start + Page < op.range
                    BY <4>1, <5>2, NextFits DEF AtPage
                <5> QED BY <1>2, <4>1, <4>3, <5>3, PageSizes
            <4> QED BY <1>1, <4>1, <4>2, <4>3, PageSizes
        <3> QED BY <1>1, <3>1, <3>2, PageSizes
    <2> QED BY <2>1, <2>2
<1>4. op.stop \in {"short", "empty"}
    BY <1>2 DEF Regular
<1> QED BY <1>3, <1>4 DEF LastPage, n

-----------------------------------------------------------------------------
(* The server's list.                                                      *)

\* InsertAt puts one entry in and moves those behind it.
LEMMA InsertedAt ==
    ASSUME NEW S, NEW s \in Seq(S), NEW i \in 1..(Len(s) + 1), NEW e \in S
    PROVE  /\ InsertAt(s, i, e) \in Seq(S) /\ Len(InsertAt(s, i, e)) = Len(s) + 1
           /\ \A j \in 1..(Len(s) + 1) :
                InsertAt(s, i, e)[j] = IF j < i THEN s[j] ELSE IF j = i THEN e ELSE s[j - 1]
<1> DEFINE a == SubSeq(s, 1, i - 1)
           m == <<e>>
           b == SubSeq(s, i, Len(s))
           am == a \o m
<1>0. Len(s) \in Nat
    OBVIOUS
<1>1. a \in Seq(S) /\ Len(a) = i - 1 /\ \A j \in 1..(i - 1) : a[j] = s[j]
    <2>1. \A j \in 1..(i - 1) : s[j] \in S
        BY <1>0
    <2>2. /\ a \in Seq(S) /\ Len(a) = IF 1 <= i - 1 THEN (i - 1) - 1 + 1 ELSE 0
          /\ \A j \in 1..((i - 1) - 1 + 1) : a[j] = s[1 + j - 1]
        BY <1>0, <2>1, SubSeqProperties
    <2> QED BY <1>0, <2>2
<1>2. b \in Seq(S) /\ Len(b) = Len(s) - i + 1 /\ \A j \in 1..Len(b) : b[j] = s[i + j - 1]
    <2>1. \A j \in i..Len(s) : s[j] \in S
        BY <1>0
    <2>2. /\ b \in Seq(S) /\ Len(b) = IF i <= Len(s) THEN Len(s) - i + 1 ELSE 0
          /\ \A j \in 1..(Len(s) - i + 1) : b[j] = s[i + j - 1]
        BY <1>0, <2>1, SubSeqProperties
    <2> QED BY <1>0, <2>2
<1>3. m \in Seq(S) /\ Len(m) = 1 /\ m[1] = e
    OBVIOUS
<1> HIDE DEF a, m, b
<1>4. am \in Seq(S) /\ Len(am) = i /\ \A j \in 1..i : am[j] = IF j < i THEN s[j] ELSE e
    <2>1. am \in Seq(S) /\ Len(am) = Len(a) + Len(m)
          /\ \A j \in 1..(Len(a) + Len(m)) : am[j] = IF j <= Len(a) THEN a[j] ELSE m[j - Len(a)]
        BY <1>1, <1>3, ConcatProperties
    <2> HIDE DEF am
    <2>2. Len(a) + Len(m) = i
        BY <1>0, <1>1, <1>3
    <2>3. ASSUME NEW j \in 1..i PROVE am[j] = IF j < i THEN s[j] ELSE e
        <3>1. am[j] = IF j <= i - 1 THEN a[j] ELSE m[j - (i - 1)]
            BY <1>1, <2>1, <2>2
        <3>2. CASE j < i
            BY <1>0, <1>1, <3>1, <3>2
        <3>3. CASE j = i
            <4>1. ~(j <= i - 1) /\ j - (i - 1) = 1
                BY <1>0, <3>3
            <4> QED BY <1>3, <3>1, <3>3, <4>1
        <3> QED BY <1>0, <3>2, <3>3
    <2> QED BY <2>1, <2>2, <2>3
<1>5. InsertAt(s, i, e) = am \o b
    BY DEF InsertAt, am, a, b, m
<1> HIDE DEF am
<1> DEFINE t == am \o b
<1>6. t \in Seq(S) /\ Len(t) = Len(am) + Len(b)
      /\ \A j \in 1..(Len(am) + Len(b)) : t[j] = IF j <= Len(am) THEN am[j] ELSE b[j - Len(am)]
    BY <1>2, <1>4, ConcatProperties
<1> HIDE DEF t
<1>7. Len(am) + Len(b) = Len(s) + 1
    BY <1>0, <1>2, <1>4
<1>8. ASSUME NEW j \in 1..(Len(s) + 1)
      PROVE  t[j] = IF j < i THEN s[j] ELSE IF j = i THEN e ELSE s[j - 1]
    <2>1. t[j] = IF j <= i THEN am[j] ELSE b[j - i]
        BY <1>4, <1>6, <1>7
    <2>2. CASE j <= i
        BY <1>0, <1>4, <2>1, <2>2
    <2>3. CASE j > i
        <3>1. j - i \in 1..Len(b) /\ i + (j - i) - 1 = j - 1
            BY <1>0, <1>2, <2>3
        <3> QED BY <1>0, <1>2, <2>1, <2>3, <3>1
    <2> QED BY <1>0, <2>2, <2>3
<1> QED BY <1>5, <1>6, <1>7, <1>8 DEF t

\* RemoveAt takes one entry out and moves those behind it.
LEMMA RemovedAt ==
    ASSUME NEW S, NEW s \in Seq(S), NEW i \in 1..Len(s)
    PROVE  /\ RemoveAt(s, i) \in Seq(S) /\ Len(RemoveAt(s, i)) = Len(s) - 1
           /\ \A j \in 1..(Len(s) - 1) : RemoveAt(s, i)[j] = IF j < i THEN s[j] ELSE s[j + 1]
<1> DEFINE a == SubSeq(s, 1, i - 1)
           b == SubSeq(s, i + 1, Len(s))
           t == a \o b
<1>0. Len(s) \in Nat
    OBVIOUS
<1>1. a \in Seq(S) /\ Len(a) = i - 1 /\ \A j \in 1..(i - 1) : a[j] = s[j]
    <2>1. \A j \in 1..(i - 1) : s[j] \in S
        BY <1>0
    <2>2. /\ a \in Seq(S) /\ Len(a) = IF 1 <= i - 1 THEN (i - 1) - 1 + 1 ELSE 0
          /\ \A j \in 1..((i - 1) - 1 + 1) : a[j] = s[1 + j - 1]
        BY <1>0, <2>1, SubSeqProperties
    <2> QED BY <1>0, <2>2
<1>2. b \in Seq(S) /\ Len(b) = Len(s) - i /\ \A j \in 1..Len(b) : b[j] = s[i + j]
    <2>1. \A j \in (i + 1)..Len(s) : s[j] \in S
        BY <1>0
    <2>2. /\ b \in Seq(S) /\ Len(b) = IF i + 1 <= Len(s) THEN Len(s) - (i + 1) + 1 ELSE 0
          /\ \A j \in 1..(Len(s) - (i + 1) + 1) : b[j] = s[(i + 1) + j - 1]
        BY <1>0, <2>1, SubSeqProperties
    <2> QED BY <1>0, <2>2
<1>3. RemoveAt(s, i) = t
    BY DEF RemoveAt
<1> HIDE DEF a, b
<1>4. t \in Seq(S) /\ Len(t) = Len(a) + Len(b)
      /\ \A j \in 1..(Len(a) + Len(b)) : t[j] = IF j <= Len(a) THEN a[j] ELSE b[j - Len(a)]
    BY <1>1, <1>2, ConcatProperties
<1> HIDE DEF t
<1>5. Len(a) + Len(b) = Len(s) - 1
    BY <1>0, <1>1, <1>2
<1>6. ASSUME NEW j \in 1..(Len(s) - 1) PROVE t[j] = IF j < i THEN s[j] ELSE s[j + 1]
    <2>1. t[j] = IF j <= i - 1 THEN a[j] ELSE b[j - (i - 1)]
        BY <1>1, <1>4, <1>5
    <2>2. CASE j < i
        BY <1>0, <1>1, <2>1, <2>2
    <2>3. CASE ~(j < i)
        <3>1. j - (i - 1) \in 1..Len(b) /\ i + (j - (i - 1)) = j + 1
            BY <1>0, <1>2, <2>3
        <3> QED BY <1>0, <1>2, <2>1, <2>3, <3>1
    <2> QED BY <2>2, <2>3
<1> QED BY <1>3, <1>4, <1>5, <1>6

\* The offsets that fit once more entries are there fit already.
LEMMA FitsBefore ==
    ASSUME ListTyped, PagedTyped, call' = call, before' = before, inserted' \in Int, inserted <= inserted', Fits'
    PROVE  Fits
<1>1. Len(before) \in Nat /\ inserted \in Nat
    BY DEF ListTyped
<1>2. \A n \in Int : n <= Len(before) + inserted => n <= Len(before) + inserted'
    BY <1>1
<1>3. ASSUME NEW k \in 0..MaxLen PROVE call.start + k * Page \in Int
    BY AskedIs, PageSizes
<1> QED BY <1>2, <1>3 DEF Fits, op

\* Neither the call nor the list it began with change what is wanted.
LEMMA WantedStays ==
    ASSUME call' = call, before' = before
    PROVE  Wanted' = Wanted /\ op' = op /\ (HasBars' <=> HasBars)
BY DEF Wanted, op, HasBars

-----------------------------------------------------------------------------
(* Counting.                                                               *)

\* A sequence has at most as many elements as entries, and as many if they are different.
LEMMA SetOfSeq ==
    ASSUME NEW S, NEW s \in Seq(S)
    PROVE  /\ IsFiniteSet(ToSet(s)) /\ Cardinality(ToSet(s)) \in Nat /\ Cardinality(ToSet(s)) <= Len(s)
           /\ (\A i, j \in 1..Len(s) : s[i] = s[j] => i = j) => Cardinality(ToSet(s)) = Len(s)
<1>1. Len(s) \in Nat /\ DOMAIN s = 1..Len(s) /\ s \in [1..Len(s) -> ToSet(s)]
    BY DEF ToSet
<1>2. s \in Surjection(1..Len(s), ToSet(s))
    BY <1>1 DEF Surjection, ToSet
<1>3. IsFiniteSet(1..Len(s)) /\ Cardinality(1..Len(s)) = Len(s)
    BY <1>1, FS_Interval
<1>4. IsFiniteSet(ToSet(s)) /\ Cardinality(ToSet(s)) <= Len(s)
      /\ (Cardinality(ToSet(s)) = Len(s) <=> s \in Injection(1..Len(s), ToSet(s)))
    BY <1>2, <1>3, FS_Surjection
<1>5. Cardinality(ToSet(s)) \in Nat
    BY <1>4, FS_CardinalityType
<1>6. ASSUME \A i, j \in 1..Len(s) : s[i] = s[j] => i = j
      PROVE  s \in Injection(1..Len(s), ToSet(s))
    BY <1>1, <1>6 DEF Injection, IsInjective
<1> QED BY <1>4, <1>5, <1>6

\* A part of a finite set.
LEMMA Part ==
    ASSUME NEW B, IsFiniteSet(B), NEW A, A \subseteq B
    PROVE  IsFiniteSet(A) /\ Cardinality(A) \in Nat /\ Cardinality(B) \in Nat /\ Cardinality(A) <= Cardinality(B)
BY FS_Subset, FS_CardinalityType

\* A part of a finite set with one more element.
LEMMA OneElement ==
    ASSUME NEW B, IsFiniteSet(B), NEW x, NEW A, A \subseteq B \cup {x}
    PROVE  IsFiniteSet(A) /\ Cardinality(A) \in Nat /\ Cardinality(B) \in Nat /\ Cardinality(A) <= Cardinality(B) + 1
<1>1. IsFiniteSet(B \cup {x}) /\ Cardinality(B \cup {x}) <= Cardinality(B) + 1 /\ Cardinality(B) \in Nat
    <2>1. Cardinality(B) \in Nat
        BY FS_CardinalityType
    <2>2. IsFiniteSet(B \cup {x}) /\ Cardinality(B \cup {x}) = IF x \in B THEN Cardinality(B) ELSE Cardinality(B) + 1
        BY FS_AddElement
    <2> QED BY <2>1, <2>2
<1>2. IsFiniteSet(A) /\ Cardinality(A) \in Nat /\ Cardinality(B \cup {x}) \in Nat /\ Cardinality(A) <= Cardinality(B \cup {x})
    BY <1>1, Part
<1> QED BY <1>1, <1>2

\* The sets of entries that are counted are finite.
LEMMA FinitePlaces ==
    ASSUME ListTyped
    PROVE  /\ IsFiniteSet(ToSet(list)) /\ IsFiniteSet(ToSet(before))
           /\ \A n \in Int : /\ Passed(n) \subseteq ToSet(list) /\ Ahead(n) \subseteq ToSet(list)
                             /\ IsFiniteSet(Passed(n)) /\ IsFiniteSet(Ahead(n))
                             /\ ToSet(list) = Passed(n) \cup Ahead(n)
<1>1. IsFiniteSet(ToSet(list)) /\ IsFiniteSet(ToSet(before))
    BY SetOfSeq DEF ListTyped
<1>2. ASSUME NEW n \in Int
      PROVE  Passed(n) \subseteq ToSet(list) /\ Ahead(n) \subseteq ToSet(list) /\ ToSet(list) = Passed(n) \cup Ahead(n)
    <2>1. DOMAIN list \subseteq Int
        BY DEF ListTyped
    <2> QED BY <2>1 DEF Passed, Ahead, ToSet
<1>3. ASSUME NEW n \in Int
      PROVE  IsFiniteSet(Passed(n)) /\ IsFiniteSet(Ahead(n))
    BY <1>1, <1>2, Part
<1> QED BY <1>1, <1>2, <1>3

-----------------------------------------------------------------------------
(* Steps of the server.                                                    *)

\* What one more entry changes.
LEMMA InsertChanges ==
    ASSUME PagedTyped, ListTyped, Insert
    PROVE  /\ UNCHANGED <<call, pc, locals, before, removed>> /\ inserted' = inserted + 1 /\ Open
           /\ ListTyped' /\ Len(list') = Len(list) + 1
           /\ \A n \in Nat : /\ Passed(n)' \subseteq Passed(n) \cup {MaxLen + 1 + inserted}
                             /\ \E x : Ahead(n)' \subseteq (Ahead(n) \cup {x}) \cup {MaxLen + 1 + inserted}
<1> DEFINE e == MaxLen + 1 + inserted
<1>1. PICK i \in 1..(Len(list) + 1) : (op.newest => i = 1) /\ list' = InsertAt(list, i, e)
    BY DEF Insert
<1>2. UNCHANGED <<call, pc, locals, before, removed>> /\ inserted' = inserted + 1 /\ Open /\ Len(list) < MaxLen
      /\ inserted + removed < MaxChanges
    BY DEF Insert, MayChange
<1>3. /\ inserted \in Nat /\ removed \in Nat /\ Len(list) \in Nat /\ Len(before) \in Nat /\ MaxLen \in Nat
      /\ list \in Seq(1..(MaxLen + inserted)) /\ MaxChanges \in Nat
      /\ Len(list) + removed = Len(before) + inserted
    BY PageSizes DEF ListTyped
<1>4. /\ e \in 1..(MaxLen + inserted') /\ list \in Seq(1..(MaxLen + inserted'))
    <2>1. 1..(MaxLen + inserted) \subseteq 1..(MaxLen + inserted')
        BY <1>2, <1>3
    <2> QED BY <1>2, <1>3, <2>1, SeqMonotonic
<1> DEFINE T == 1..(MaxLen + inserted')
<1>5. /\ list' \in Seq(1..(MaxLen + inserted')) /\ Len(list') = Len(list) + 1
      /\ \A j \in 1..(Len(list) + 1) : list'[j] = IF j < i THEN list[j] ELSE IF j = i THEN e ELSE list[j - 1]
    <2>1. list' = InsertAt(list, i, e)
        BY <1>1
    <2>2. e \in T /\ list \in Seq(T) /\ i \in 1..(Len(list) + 1)
        BY <1>4
    <2> HIDE DEF e, T
    <2>3. /\ InsertAt(list, i, e) \in Seq(T) /\ Len(InsertAt(list, i, e)) = Len(list) + 1
          /\ \A j \in 1..(Len(list) + 1) :
                InsertAt(list, i, e)[j] = IF j < i THEN list[j] ELSE IF j = i THEN e ELSE list[j - 1]
        BY ONLY <2>2, InsertedAt, SMTT(30)
    <2> QED BY ONLY <2>1, <2>3 DEF T
<1> HIDE DEF T
<1>6. /\ DOMAIN list' = 1..(Len(list) + 1) /\ DOMAIN list = 1..Len(list)
      /\ \A j \in 1..Len(list) : list[j] \in Nat /\ list[j] # e
    <2>1. \A j \in 1..Len(list) : list[j] \in 1..(MaxLen + inserted)
        BY <1>3
    <2> QED BY <1>3, <1>5, <2>1
<1> HIDE DEF e
<1>7. \A j, k \in DOMAIN list' : list'[j] = list'[k] => j = k
    <2>1. \A j, k \in 1..Len(list) : list[j] = list[k] => j = k
        BY <1>6 DEF ListTyped
    <2>2. SUFFICES ASSUME NEW j \in 1..(Len(list) + 1), NEW k \in 1..(Len(list) + 1), list'[j] = list'[k]
                   PROVE  j = k
        BY <1>6
    <2> DEFINE at(m) == IF m < i THEN m ELSE m - 1
    <2>3. \A m \in 1..(Len(list) + 1) : m # i => at(m) \in 1..Len(list) /\ list'[m] = list[at(m)]
        BY <1>3, <1>5, SMTT(60)
    <2>4. list'[i] = e
        BY <1>5
    <2>5. CASE j = i \/ k = i
        BY <1>6, <2>2, <2>3, <2>4, <2>5
    <2>6. CASE j # i /\ k # i
        <3>1. at(j) = at(k)
            BY <2>1, <2>2, <2>3, <2>6
        <3> QED BY <1>3, <2>6, <3>1
    <2> QED BY <2>5, <2>6
<1>8. op' = op /\ before' = before /\ removed' = removed
    BY <1>2 DEF op
<1>9. ASSUME op.newest
      PROVE  /\ removed' = 0
             /\ \A j \in 1..inserted' : list'[j] > MaxLen
             /\ \A j \in DOMAIN before : list'[inserted' + j] = before[j]
    <2>1. removed = 0 /\ (\A j \in 1..inserted : list[j] > MaxLen) /\ (\A j \in DOMAIN before : list[inserted + j] = before[j])
        BY <1>9 DEF ListTyped
    <2>2. i = 1 /\ list'[1] = e /\ \A j \in 1..Len(list) : list'[j + 1] = list[j]
        <3>1. i = 1
            BY <1>1, <1>9
        <3>2. \A j \in 1..Len(list) : j + 1 \in 1..(Len(list) + 1) /\ ~(j + 1 < 1) /\ j + 1 # 1 /\ (j + 1) - 1 = j
            BY <1>3
        <3>3. 1 \in 1..(Len(list) + 1)
            BY <1>3
        <3> QED BY <1>5, <3>1, <3>2, <3>3
    <2>3. ASSUME NEW j \in 1..inserted' PROVE list'[j] > MaxLen
        <3>1. CASE j = 1
            BY <1>3, <2>2, <3>1 DEF e
        <3>2. CASE j # 1
            <4>1. j - 1 \in 1..inserted /\ j - 1 \in 1..Len(list) /\ (j - 1) + 1 = j
                BY <1>2, <1>3, <2>1, <3>2
            <4> QED BY <2>1, <2>2, <4>1
        <3> QED BY <3>1, <3>2
    <2>4. ASSUME NEW j \in DOMAIN before PROVE list'[inserted' + j] = before[j]
        <3>1. j \in 1..Len(before)
            BY DEF ListTyped
        <3>3. removed = 0
            BY <2>1
        <3>4. Len(list) = Len(before) + inserted
            BY <1>3, <3>3
        <3>5. inserted \in Nat /\ Len(before) \in Nat /\ inserted' = inserted + 1
            BY <1>2, <1>3
        <3>6. j \in Int /\ 1 <= j /\ j <= Len(before)
            BY <3>1, <3>5
        <3>2. inserted + j \in 1..Len(list) /\ inserted' + j = (inserted + j) + 1
            BY <3>4, <3>5, <3>6
        <3> QED BY <2>1, <2>2, <3>2
    <2> QED BY <1>2, <2>1, <2>3, <2>4
<1>10. ListTyped'
    <2>1. inserted' \in Nat /\ removed' \in Nat /\ inserted' + removed' <= MaxChanges /\ inserted' + removed' # 0
          /\ Len(list') <= MaxLen /\ Len(list') + removed' = Len(before') + inserted'
        BY <1>2, <1>3, <1>5, <1>8, SMTT(60)
    <2>2. before' \in Seq(1..MaxLen) /\ Len(before') <= MaxLen /\ \A j, k \in DOMAIN before' : before'[j] = before'[k] => j = k
        BY <1>8 DEF ListTyped
    <2> QED BY <1>5, <1>7, <1>8, <1>9, <2>1, <2>2 DEF ListTyped
<1>11. ASSUME NEW n \in Nat PROVE Passed(n)' \subseteq Passed(n) \cup {e}
    <2> SUFFICES ASSUME NEW j \in DOMAIN list', j <= n PROVE list'[j] \in Passed(n) \cup {e}
        BY DEF Passed
    <2>1. j \in 1..(Len(list) + 1)
        BY <1>6
    <2>2. CASE j < i
        <3>1. list'[j] = list[j] /\ j \in DOMAIN list
            BY <1>3, <1>5, <1>6, <2>1, <2>2
        <3> QED BY <3>1 DEF Passed
    <2>3. CASE j = i
        BY <1>5, <2>1, <2>3
    <2>4. CASE j > i
        <3>1. list'[j] = list[j - 1] /\ j - 1 \in DOMAIN list /\ j - 1 <= n
            BY <1>3, <1>5, <1>6, <2>1, <2>4, SMTT(60)
        <3> QED BY <3>1 DEF Passed
    <2> QED BY <1>3, <2>1, <2>2, <2>3, <2>4
<1>12. ASSUME NEW n \in Nat PROVE Ahead(n)' \subseteq (Ahead(n) \cup {list[n]}) \cup {e}
    <2> SUFFICES ASSUME NEW j \in DOMAIN list', j > n PROVE list'[j] \in (Ahead(n) \cup {list[n]}) \cup {e}
        BY DEF Ahead
    <2>1. j \in 1..(Len(list) + 1)
        BY <1>6
    <2>2. CASE j < i
        <3>1. list'[j] = list[j] /\ j \in DOMAIN list
            BY <1>3, <1>5, <1>6, <2>1, <2>2
        <3> QED BY <3>1 DEF Ahead
    <2>3. CASE j = i
        BY <1>5, <2>1, <2>3
    <2>4. CASE j > i
        <3>1. list'[j] = list[j - 1] /\ j - 1 \in DOMAIN list
            BY <1>3, <1>5, <1>6, <2>1, <2>4, SMTT(60)
        <3>2. j - 1 > n \/ j - 1 = n
            BY <2>1
        <3> QED BY <3>1, <3>2 DEF Ahead
    <2> QED BY <1>3, <2>1, <2>2, <2>3, <2>4
<1> QED BY <1>2, <1>5, <1>10, <1>11, <1>12 DEF e

\* What one entry less changes.
LEMMA RemoveChanges ==
    ASSUME PagedTyped, ListTyped, Remove1
    PROVE  /\ UNCHANGED <<call, pc, locals, before, inserted>> /\ removed' = removed + 1 /\ Open
           /\ ~op.newest /\ ListTyped'
           /\ \A n \in Nat : Ahead(n)' \subseteq Ahead(n) /\ \E x : Passed(n)' \subseteq Passed(n) \cup {x}
<1>1. PICK i \in DOMAIN list : list' = RemoveAt(list, i)
    BY DEF Remove1
<1>2. UNCHANGED <<call, pc, locals, before, inserted>> /\ removed' = removed + 1 /\ Open /\ ~op.newest
      /\ inserted + removed < MaxChanges
    BY DEF Remove1, MayChange
<1>3. /\ inserted \in Nat /\ removed \in Nat /\ Len(list) \in Nat /\ Len(before) \in Nat /\ MaxLen \in Nat
      /\ list \in Seq(1..(MaxLen + inserted)) /\ MaxChanges \in Nat /\ DOMAIN list = 1..Len(list)
      /\ Len(list) + removed = Len(before) + inserted /\ Len(list) <= MaxLen
    BY PageSizes DEF ListTyped
<1>4. /\ list' \in Seq(1..(MaxLen + inserted)) /\ Len(list') = Len(list) - 1
      /\ \A j \in 1..(Len(list) - 1) : list'[j] = IF j < i THEN list[j] ELSE list[j + 1]
    BY <1>1, <1>3, RemovedAt
<1>5. DOMAIN list' = 1..(Len(list) - 1)
    BY <1>4
<1> DEFINE at(m) == IF m < i THEN m ELSE m + 1
<1>6. ASSUME NEW j \in 1..(Len(list) - 1) PROVE at(j) \in 1..Len(list) /\ list'[j] = list[at(j)]
    <2>1. at(j) \in 1..Len(list)
        BY <1>3
    <2>2. list'[j] = IF j < i THEN list[j] ELSE list[j + 1]
        BY <1>4
    <2> QED BY <2>1, <2>2
<1>7. \A j, k \in DOMAIN list' : list'[j] = list'[k] => j = k
    <2>1. \A j, k \in 1..Len(list) : list[j] = list[k] => j = k
        BY <1>3 DEF ListTyped
    <2>2. SUFFICES ASSUME NEW j \in 1..(Len(list) - 1), NEW k \in 1..(Len(list) - 1), list'[j] = list'[k]
                   PROVE  j = k
        BY <1>5
    <2>3. at(j) = at(k)
        BY <1>6, <2>1, <2>2
    <2> QED BY <1>3, <2>3, SMTT(60)
<1>8. op' = op /\ before' = before /\ inserted' = inserted
    BY <1>2 DEF op
<1>9. ListTyped'
    <2>1. inserted' \in Nat /\ removed' \in Nat /\ inserted' + removed' <= MaxChanges /\ inserted' + removed' # 0
        BY <1>2, <1>3, <1>8
    <2>3. Len(list') <= MaxLen /\ Len(list') + removed' = Len(before') + inserted'
        <3>1. Len(list') = Len(list) - 1 /\ removed' = removed + 1 /\ before' = before /\ inserted' = inserted
            BY <1>2, <1>4, <1>8
        <3> QED BY <1>3, <3>1, SMTT(60)
    <2>2. before' \in Seq(1..MaxLen) /\ Len(before') <= MaxLen /\ \A j, k \in DOMAIN before' : before'[j] = before'[k] => j = k
        BY <1>8 DEF ListTyped
    <2> QED BY <1>2, <1>4, <1>7, <1>8, <2>1, <2>2, <2>3 DEF ListTyped
<1>10. ASSUME NEW n \in Nat PROVE Ahead(n)' \subseteq Ahead(n) /\ Passed(n)' \subseteq Passed(n) \cup {list[n + 1]}
    <2>1. ASSUME NEW j \in DOMAIN list', j > n PROVE list'[j] \in Ahead(n)
        <3>1. at(j) \in DOMAIN list /\ list'[j] = list[at(j)] /\ at(j) > n
            BY <1>3, <1>5, <1>6, <2>1, SMTT(60)
        <3> QED BY <3>1 DEF Ahead
    <2>2. ASSUME NEW j \in DOMAIN list', j <= n PROVE list'[j] \in Passed(n) \cup {list[n + 1]}
        <3>1. at(j) \in DOMAIN list /\ list'[j] = list[at(j)] /\ (at(j) <= n \/ at(j) = n + 1)
            BY <1>3, <1>5, <1>6, <2>2, SMTT(60)
        <3> QED BY <3>1 DEF Passed
    <2>3. Ahead(n)' = {list'[j] : j \in {j \in DOMAIN list' : j > n}} /\ Passed(n)' = {list'[j] : j \in {j \in DOMAIN list' : j <= n}}
        BY DEF Ahead, Passed
    <2> QED BY <2>1, <2>2, <2>3
<1> QED BY <1>2, <1>9, <1>10

-----------------------------------------------------------------------------
(* What the caller wants.                                                  *)

\* A stretch up to some offset within the sequence.
LEMMA StretchIs ==
    ASSUME NEW S, NEW s \in Seq(S), NEW from \in Nat, NEW to \in Nat, to <= Len(s)
    PROVE  /\ Stretch(s, from, to) \in Seq(S)
           /\ Len(Stretch(s, from, to)) = IF from < to THEN to - from ELSE 0
           /\ \A i \in 1..Len(Stretch(s, from, to)) : Stretch(s, from, to)[i] = s[from + i]
BY Cut DEF Stretch

\* Wanted is a stretch of the list as it was: of a count what was counted, otherwise all, or what
\* is before the bar at which the caller stops, with that bar.
LEMMA WantedIs ==
    ASSUME PagedTyped, ListTyped
    PROVE  /\ op.limit = "count" =>
                Wanted = Stretch(Shown(before), call.start, Least(call.start + call.count, Len(Shown(before))))
           /\ op.limit # "count" /\ (\A i \in 1..Len(Shown(before)) : Shown(before)[i] # call.until) =>
                Wanted = Shown(before)
           /\ \A m \in 1..Len(Shown(before)) : op.limit # "count" /\ Shown(before)[m] = call.until =>
                Wanted = Stretch(Shown(before), 0, m)
<1> DEFINE known == Shown(before)
           all == IF op.limit = "count"
                  THEN SubSeq(known, call.start + 1, Least(call.start + call.count, Len(known))) ELSE known
           at == {i \in DOMAIN all : all[i] = call.until}
<1>1. Wanted = IF call.until # 0 /\ at # {} THEN SubSeq(all, 1, CHOOSE i \in at : TRUE) ELSE all
    BY DEF Wanted, Shown
<1>2. op \in Operation /\ Regular(op) /\ (op # StockFullKLine => call.until = 0) /\ call.until \in 0..MaxLen
    BY AskedIs
<1>3. known \in Seq(1..MaxLen) /\ Len(known) <= Len(before) /\ \A i \in 1..Len(known) : known[i] = before[i]
    <2>1. before \in Seq(1..MaxLen) /\ op.bars \in BOOLEAN
        BY <1>2 DEF ListTyped, Regular
    <2> QED BY <2>1, ShownFacts
<1>4. DOMAIN known = 1..Len(known) /\ \A i \in 1..Len(known) : known[i] \in 1..MaxLen /\ known[i] # 0
    <2> HIDE DEF known
    <2>1. DOMAIN known = 1..Len(known)
        BY <1>3
    <2>2. \A i \in 1..Len(known) : known[i] \in 1..MaxLen
        BY <1>3, ElementOfSeq
    <2> QED BY <2>1, <2>2
<1>5. \A i, j \in 1..Len(known) : known[i] = known[j] => i = j
    <2>1. Len(before) \in Nat /\ DOMAIN before = 1..Len(before) /\ Len(known) \in Nat
        BY <1>3 DEF ListTyped
    <2>2. \A i \in 1..Len(known) : i \in DOMAIN before
        BY <1>3, <2>1
    <2> QED BY <1>3, <2>2 DEF ListTyped
<1>6. op.limit = "count" => call.until = 0
    BY <1>2 DEF Regular
<1>7. ASSUME op.limit # "count", \A i \in 1..Len(known) : known[i] # call.until
      PROVE  Wanted = known
    <2>1. all = known
        BY <1>7
    <2>2. at = {}
        BY <1>4, <1>7, <2>1
    <2> QED BY <1>1, <2>1, <2>2
<1>8. ASSUME NEW m \in 1..Len(known), op.limit # "count", known[m] = call.until
      PROVE  Wanted = Stretch(known, 0, m)
    <2>1. all = known
        BY <1>8
    <2>2. at = {m}
        BY <1>4, <1>5, <1>8, <2>1
    <2>3. call.until # 0
        BY <1>4, <1>8
    <2>4. (CHOOSE i \in at : TRUE) = m
        BY <2>2
    <2>5. Wanted = SubSeq(known, 1, m)
        BY <1>1, <2>1, <2>2, <2>3, <2>4
    <2> QED BY <2>5 DEF Stretch
<1>9. op.limit = "count" => Wanted = Stretch(known, call.start, Least(call.start + call.count, Len(known)))
    BY <1>1, <1>6 DEF Stretch
<1> QED BY <1>7, <1>8, <1>9

\* Every entry that is wanted was in the list, and of a count within what was counted.
LEMMA WantedWas ==
    ASSUME PagedTyped, ListTyped
    PROVE  /\ ToSet(Wanted) \subseteq ToSet(before) /\ ToSet(Wanted) \subseteq 1..MaxLen
           /\ \A x \in ToSet(Wanted) : \E i \in 1..Len(Shown(before)) :
                /\ x = before[i]
                /\ op.limit = "count" => call.start < i /\ i <= call.start + call.count
<1> DEFINE known == Shown(before)
<1>1. op \in Operation /\ Regular(op) /\ call.start \in 0..MaxLen /\ call.count \in 0..MaxLen
    BY AskedIs
<1>2. before \in Seq(1..MaxLen) /\ op.bars \in BOOLEAN /\ MaxLen \in Nat
    BY <1>1, PageSizes DEF ListTyped, Regular
<1>3. known \in Seq(1..MaxLen) /\ Len(known) <= Len(before) /\ \A i \in 1..Len(known) : known[i] = before[i]
    BY <1>2, ShownFacts
<1>4. \A x \in ToSet(Wanted) : \E i \in 1..Len(known) :
        /\ x = known[i]
        /\ op.limit = "count" => call.start < i /\ i <= call.start + call.count
    <2> HIDE DEF known
    <2>1. CASE op.limit = "count"
        <3> DEFINE to == Least(call.start + call.count, Len(known))
        <3>0. Wanted = Stretch(known, call.start, to)
            BY <2>1, WantedIs DEF known
        <3>1. to \in Nat /\ to <= Len(known) /\ to <= call.start + call.count /\ call.start \in Nat
            BY <1>1, <1>2, <1>3 DEF Least
        <3> HIDE DEF to
        <3>2. /\ Wanted \in Seq(1..MaxLen) /\ Len(Wanted) = (IF call.start < to THEN to - call.start ELSE 0)
              /\ \A i \in 1..Len(Wanted) : Wanted[i] = known[call.start + i]
            <4>1. known \in Seq(1..MaxLen)
                BY <1>3
            <4>2. /\ Stretch(known, call.start, to) \in Seq(1..MaxLen)
                  /\ Len(Stretch(known, call.start, to)) = (IF call.start < to THEN to - call.start ELSE 0)
                BY <3>1, <4>1, StretchIs
            <4>3. \A i \in 1..Len(Stretch(known, call.start, to)) : Stretch(known, call.start, to)[i] = known[call.start + i]
                BY <3>1, <4>1, StretchIs, SMTT(60)
            <4> QED BY <3>0, <4>2, <4>3
        <3>3. ASSUME NEW x \in ToSet(Wanted) PROVE \E i \in 1..Len(known) : x = known[i] /\ call.start < i /\ i <= call.start + call.count
            <4>1. PICK j \in 1..Len(Wanted) : x = Wanted[j]
                BY <3>2 DEF ToSet
            <4>3. call.start < to /\ j \in Nat /\ j >= 1 /\ j <= to - call.start
                BY <3>1, <3>2, <4>1
            <4>4. Len(known) \in Nat /\ call.count \in Nat
                BY <1>1, <1>3
            <4>2. call.start + j \in 1..Len(known) /\ call.start < call.start + j /\ call.start + j <= call.start + call.count
                BY <3>1, <4>3, <4>4
            <4> QED BY <3>2, <4>1, <4>2
        <3> QED BY <2>1, <3>3
    <2>2. CASE op.limit # "count" /\ \A i \in 1..Len(known) : known[i] # call.until
        <3>1. Wanted = known
            BY <2>2, WantedIs DEF known
        <3> QED BY <1>3, <2>2, <3>1 DEF ToSet
    <2>3. CASE op.limit # "count" /\ \E m \in 1..Len(known) : known[m] = call.until
        <3>1. PICK m \in 1..Len(known) : known[m] = call.until
            BY <2>3
        <3>2. Wanted = Stretch(known, 0, m)
            BY <2>3, <3>1, WantedIs DEF known
        <3>3. m \in Nat /\ m <= Len(known)
            BY <1>3
        <3>4. /\ Wanted \in Seq(1..MaxLen) /\ Len(Wanted) = (IF 0 < m THEN m - 0 ELSE 0)
              /\ \A i \in 1..Len(Wanted) : Wanted[i] = known[0 + i]
            BY <1>3, <3>2, <3>3, StretchIs
        <3>5. Len(Wanted) = m /\ \A i \in 1..m : Wanted[i] = known[i]
            BY <3>3, <3>4
        <3>6. \A i \in 1..m : i \in 1..Len(known)
            BY <1>3, <3>3
        <3> QED BY <2>3, <3>4, <3>5, <3>6 DEF ToSet
    <2> QED BY <2>1, <2>2, <2>3
<1>5. \A x \in ToSet(Wanted) : \E i \in 1..Len(known) :
        /\ x = before[i]
        /\ op.limit = "count" => call.start < i /\ i <= call.start + call.count
    BY <1>3, <1>4
<1>6. \A i \in 1..Len(known) : before[i] \in ToSet(before) /\ before[i] \in 1..MaxLen
    <2>1. Len(before) \in Nat /\ Len(known) \in Nat /\ DOMAIN before = 1..Len(before)
        BY <1>2, <1>3
    <2>2. \A i \in 1..Len(known) : i \in DOMAIN before
        BY <1>3, <2>1
    <2> QED BY <1>2, <2>2 DEF ToSet
<1> QED BY <1>5, <1>6

-----------------------------------------------------------------------------
(* The initial states.                                                     *)

\* The types hold when a call is made.
LEMMA InitCall == PagingInit => PagedTyped /\ ListTyped
<1> SUFFICES ASSUME PagingInit PROVE PagedTyped /\ ListTyped
    OBVIOUS
<1>1. PICK o \in Operation, n \in 0..MaxLen :
        /\ call \in [op : {o}, start : Starts(o), count : Counts(o), until : Stops(o)]
        /\ list = IF o.newest THEN [i \in 1..n |-> n + 1 - i] ELSE [i \in 1..n |-> i]
    BY DEF PagingInit
<1>2. /\ pc = (IF call.op.limit = "size" /\ call.count = 0 THEN "meta" ELSE "reading")
      /\ start = call.start /\ left = call.count /\ result = << >>
      /\ before = list /\ inserted = 0 /\ removed = 0
    BY DEF PagingInit
<1>3. /\ call.op = o /\ call.start \in Starts(o) /\ call.count \in Counts(o) /\ call.until \in Stops(o)
    BY <1>1
<1>4. op = o
    BY <1>3 DEF op
<1>5. Regular(o)
    BY Operations
<1>6. /\ Starts(o) \subseteq 0..MaxLen /\ Counts(o) \subseteq 0..MaxLen /\ Stops(o) \subseteq 0..MaxLen
      /\ (o.limit # "count" => Starts(o) = {0}) /\ (o.limit = "count" => Counts(o) = 1..MaxLen)
    BY Arguments
<1>7. call \in [op : Operation, start : 0..MaxLen, count : 0..MaxLen, until : 0..MaxLen]
    BY <1>1, <1>6
<1>8. start \in 0..(op.range - 1)
    <2>1. CASE o.limit # "count"
        BY <1>2, <1>3, <1>4, <1>5, <1>6, <2>1, PageSizes DEF Regular
    <2>2. CASE o.limit = "count"
        <3>1. o.range = Wide /\ start \in 0..MaxLen
            BY <1>2, <1>3, <1>5, <1>6, <2>2 DEF Regular
        <3> QED BY <1>4, <3>1, PageSizes
    <2> QED BY <2>1, <2>2
<1>9. left \in 0..MaxLen /\ (op.limit = "count" => left > 0)
    BY <1>2, <1>3, <1>4, <1>6, PageSizes
<1>10. result \in Seq(Int) /\ result \in Seq(1..(MaxLen + inserted))
    BY <1>2
<1>11. PagedTyped
    BY <1>2, <1>3, <1>4, <1>7, <1>8, <1>9, <1>10 DEF PagedTyped
<1>12. /\ list \in Seq(1..MaxLen) /\ Len(list) = n /\ DOMAIN list = 1..n
       /\ \A i, j \in 1..n : list[i] = list[j] => i = j
    <2>1. CASE o.newest
        <3>1. list = [i \in 1..n |-> n + 1 - i]
            BY <1>1, <2>1
        <3>2. n \in Nat /\ n <= MaxLen /\ \A i \in 1..n : n + 1 - i \in 1..MaxLen
            BY <1>1, PageSizes
        <3>4. list \in Seq(1..MaxLen) /\ Len(list) = n /\ DOMAIN list = 1..n
            BY <3>1, <3>2
        <3> QED BY <3>1, <3>2, <3>4
    <2>2. CASE ~o.newest
        <3>1. list = [i \in 1..n |-> i]
            BY <1>1, <2>2
        <3>2. n \in Nat /\ n <= MaxLen /\ \A i \in 1..n : i \in 1..MaxLen
            BY <1>1, PageSizes
        <3>4. list \in Seq(1..MaxLen) /\ Len(list) = n /\ DOMAIN list = 1..n
            BY <3>1, <3>2
        <3> QED BY <3>1, <3>2, <3>4
    <2> QED BY <2>1, <2>2
<1>13. ListTyped
    <2>1. inserted \in Nat /\ removed \in Nat /\ inserted + removed = 0 /\ 0 <= MaxChanges /\ MaxLen + inserted = MaxLen
        BY <1>2, PageSizes
    <2>2. Len(list) <= MaxLen /\ Len(list) + removed = Len(before) + inserted
        BY <1>1, <1>2, <1>12
    <2>3. \A i \in 1..inserted : list[i] > MaxLen
        BY <1>2
    <2>4. \A i \in DOMAIN before : list[inserted + i] = before[i]
        BY <1>2, <1>12
    <2> QED BY <1>2, <1>12, <2>1, <2>2, <2>3, <2>4 DEF ListTyped
<1> QED BY <1>11, <1>13

\* Nothing has been read.
LEMMA NothingRead ==
    ASSUME NEW S, NEW s \in Seq(S), NEW n \in Nat
    PROVE  /\ Stretch(s, n, n) = << >> /\ InOrderOfCall(<< >>) = << >>
<1>1. Stretch(s, n, n) = << >>
    BY SubSeqEmpty DEF Stretch
<1>2. Reverse(<< >>) = << >>
    <2>1. << >> \in Seq({}) /\ Len(<< >>) = 0
        OBVIOUS
    <2>2. Reverse(<< >>) \in Seq({}) /\ Len(Reverse(<< >>)) = 0
        BY <2>1, Backwards
    <2> QED BY <2>2, EmptySeq
<1>3. ByPages(<< >>) = << >>
    <2>1. << >> \in Seq({}) /\ Len(<< >>) = 0
        OBVIOUS
    <2>2. ByPages(<< >>) \in Seq({}) /\ Len(ByPages(<< >>)) = 0
        BY <2>1, ByPagesIs
    <2> QED BY <2>2, EmptySeq
<1> QED BY <1>1, <1>2, <1>3 DEF InOrderOfCall

\* The invariant holds when a call is made.
LEMMA InitPaging == PagingInit => PagingInv
<1> SUFFICES ASSUME PagingInit PROVE PagingInv
    OBVIOUS
<1>1. PagedTyped /\ ListTyped
    BY InitCall
<1>2. /\ start = call.start /\ left = call.count /\ result = << >>
      /\ before = list /\ inserted = 0 /\ removed = 0 /\ pc \in {"meta", "reading"}
    BY DEF PagingInit
<1>3. /\ op \in Operation /\ Regular(op) /\ call.start \in 0..MaxLen /\ call.count \in 0..MaxLen
      /\ call.until \in 0..MaxLen /\ (op # StockFullKLine => call.until = 0)
      /\ (op.limit # "count" \/ op.wire = Narrow => call.start = 0)
    BY <1>1, AskedIs
<1>4. NothingOfNothing /\ OpeningsInPlace
    BY <1>2 DEF NothingOfNothing, OpeningsInPlace
<1>5. HasRead /\ HasMoved
    BY <1>2 DEF HasRead, HasMoved
<1>6. Placed
    <2>1. start < op.wire
        BY <1>2, <1>3, PageSizes DEF Regular
    <2>2. WholePages(call.start, start)
        <3>1. start = call.start + 0 * Page /\ 0 \in Nat
            BY <1>2, <1>3, PageSizes
        <3> QED BY <3>1 DEF WholePages
    <2>3. ASSUME HasBars, op = StockFullKLine PROVE start < Len(list)
        <3>1. before # << >> /\ Len(list) \in Nat /\ start = 0
            BY <1>1, <1>2, <1>3, <2>3 DEF HasBars, ListTyped, Regular
        <3>2. Len(list) # 0
            BY <1>1, <1>2, <3>1, EmptySeq DEF ListTyped
        <3> QED BY <3>1, <3>2
    <2>4. call.start <= start /\ start + left = call.start + call.count
        BY <1>2, <1>3
    <2> QED BY <2>1, <2>2, <2>3, <2>4 DEF Placed, AtPage
<1>7. before \in Seq(1..MaxLen) /\ op.bars \in BOOLEAN /\ DOMAIN before = 1..Len(before) /\ Len(before) \in Nat
    BY <1>1, <1>3 DEF ListTyped, Regular
<1>8. Shown(before) \in Seq(1..MaxLen) /\ Len(Shown(before)) <= Len(before)
      /\ \A i \in 1..Len(Shown(before)) : Shown(before)[i] = before[i]
    BY <1>7, ShownFacts
<1>9. PagesSoFar
    <2>1. result = InOrderOfCall(Stretch(Shown(before), call.start, start))
        BY <1>2, <1>3, <1>8, NothingRead
    <2>2. ASSUME NEW i \in DOMAIN Shown(before), i <= start PROVE Shown(before)[i] # call.until
        <3> DEFINE known == Shown(before)
        <3>0. known \in Seq(1..MaxLen) /\ i \in DOMAIN known
            BY <1>8, <2>2
        <3> HIDE DEF known
        <3>4. DOMAIN known = 1..Len(known) /\ Len(known) \in Nat
            BY <3>0
        <3>3. known[i] \in 1..MaxLen
            BY <3>0, <3>4, ElementOfSeq
        <3>1. i \in Int /\ i >= 1 /\ Shown(before)[i] \in 1..MaxLen
            BY <3>0, <3>3, <3>4 DEF known
        <3>2. op = StockFullKLine => start = 0
            BY <1>2, <1>3 DEF Regular
        <3> QED BY <1>2, <1>3, <2>2, <3>1, <3>2
    <2> QED BY <1>2, <2>1, <2>2 DEF PagesSoFar
<1>10. MovedSoFar
    <2>1. ToSet(result) = {} /\ Len(result) = 0
        BY <1>2 DEF ToSet
    <2>2. Cardinality({}) = 0
        BY FS_EmptySet
    <2>3. Repeated(result) + Cardinality(ToSet(result) \cap Ahead(start)) <= inserted
        <3>1. ToSet(result) \cap Ahead(start) = {}
            BY <2>1
        <3>2. Repeated(result) = 0
            BY <2>1, <2>2 DEF Repeated
        <3>3. Cardinality(ToSet(result) \cap Ahead(start)) = 0
            BY <2>2, <3>1
        <3> QED BY <1>2, <3>2, <3>3
    <2>4. \A i, j \in 1..Len(before) : before[i] = before[j] => i = j
        BY <1>1, <1>7 DEF ListTyped
    <2>5. \A x \in ToSet(Wanted) : \E i \in 1..Len(Shown(before)) :
                /\ x = before[i]
                /\ op.limit = "count" => call.start < i /\ i <= call.start + call.count
        BY <1>1, WantedWas
    <2>6. \A i \in 1..Len(Shown(before)) : i \in 1..Len(before)
        BY <1>7, <1>8
    <2>7. ToSet(Wanted) \cap Passed(start) = {}
        <3> SUFFICES ASSUME NEW x \in ToSet(Wanted), NEW j \in DOMAIN list, j <= start, x = list[j] PROVE FALSE
            BY DEF Passed
        <3>1. j \in 1..Len(before) /\ x = before[j]
            BY <1>2, <1>7
        <3>2. PICK i \in 1..Len(Shown(before)) : x = before[i] /\ (op.limit = "count" => call.start < i)
            BY <2>5
        <3>3. i = j
            BY <2>4, <2>6, <3>1, <3>2
        <3>4. op.limit = "count"
            BY <1>2, <1>3, <3>1
        <3> QED BY <1>2, <1>3, <3>1, <3>2, <3>3, <3>4
    <2>8. op.limit = "count" => ToSet(Wanted) \cap Ahead(call.start + call.count) = {}
        <3> SUFFICES ASSUME op.limit = "count", NEW x \in ToSet(Wanted), NEW j \in DOMAIN list,
                            j > call.start + call.count, x = list[j] PROVE FALSE
            BY DEF Ahead
        <3>1. j \in 1..Len(before) /\ x = before[j]
            BY <1>2, <1>7
        <3>2. PICK i \in 1..Len(Shown(before)) : x = before[i] /\ i <= call.start + call.count
            BY <2>5
        <3>3. i = j
            BY <2>4, <2>6, <3>1, <3>2
        <3> QED BY <1>3, <3>1, <3>2, <3>3
    <2>9. (ToSet(Wanted) \cap Passed(start)) \ ToSet(result) = {}
        BY <2>7
    <2>10. Cardinality((ToSet(Wanted) \cap Passed(start)) \ ToSet(result)) <= removed
        <3>1. Cardinality((ToSet(Wanted) \cap Passed(start)) \ ToSet(result)) = 0
            BY <2>2, <2>9
        <3> QED BY <1>2, <3>1
    <2>11. op.limit = "count" => Cardinality(ToSet(Wanted) \cap Ahead(call.start + call.count)) <= inserted
        <3>1. op.limit = "count" => Cardinality(ToSet(Wanted) \cap Ahead(call.start + call.count)) = 0
            BY <2>2, <2>8
        <3> QED BY <1>2, <3>1
    <2> QED BY <2>3, <2>10, <2>11 DEF MovedSoFar
<1> QED BY <1>1, <1>4, <1>5, <1>6, <1>9, <1>10 DEF PagingInv

\* A range that grows.
LEMMA WiderRange ==
    ASSUME NEW m \in Nat, NEW a \in Nat, NEW b \in Nat, a <= b
    PROVE  1..(m + a) \subseteq 1..(m + b)
OBVIOUS

\* While the server's list changes a call keeps where it is and what it has.
LEMMA ListMoves ==
    ASSUME PagingInv, UNCHANGED <<call, pc, locals, before>>, Open, ListTyped', inserted <= inserted',
           inserted' + removed' # 0, op = StockFullKLine => Len(list) <= Len(list')
    PROVE  /\ PagedTyped' /\ OpeningsInPlace' /\ NothingOfNothing' /\ Placed' /\ PagesSoFar' /\ HasRead' /\ HasMoved'
           /\ Fits' /\ HasBars' /\ Open' => Fits /\ HasBars /\ Open
           /\ Wanted' = Wanted /\ op' = op
<1>1. PagedTyped /\ ListTyped /\ OpeningsInPlace /\ NothingOfNothing /\ Placed
    BY DEF PagingInv
<1>2. call' = call /\ pc' = pc /\ start' = start /\ left' = left /\ result' = result /\ before' = before
    BY DEF locals
<1>3. Wanted' = Wanted /\ op' = op /\ (HasBars' <=> HasBars)
    BY <1>2, WantedStays
<1>4. inserted \in Nat /\ inserted' \in Nat /\ removed' \in Nat /\ Len(list) \in Nat /\ Len(list') \in Nat
      /\ list \in Seq(1..(MaxLen + inserted)) /\ list' \in Seq(1..(MaxLen + inserted'))
    BY <1>1, SMTT(60) DEF ListTyped
<1>5. Fits' => Fits
    BY <1>1, <1>2, <1>4, FitsBefore
<1>6. Open' = Open
    BY <1>2 DEF Open
<1>7. PagedTyped'
    <2>1. result' \in Seq(1..(MaxLen + inserted'))
        <3>0. MaxLen \in Nat /\ inserted \in Nat /\ inserted' \in Nat /\ inserted <= inserted'
            BY <1>4, PageSizes
        <3>1. 1..(MaxLen + inserted) \subseteq 1..(MaxLen + inserted')
            BY <3>0, WiderRange
        <3>2. result \in Seq(1..(MaxLen + inserted))
            BY <1>1 DEF PagedTyped, Open
        <3> QED BY <1>2, <3>1, <3>2, SeqMonotonic
    <2> QED BY <1>1, <1>2, <1>3, <2>1 DEF PagedTyped
<1>8. OpeningsInPlace'
    BY <1>1, <1>2 DEF OpeningsInPlace
<1>9. NothingOfNothing'
    <2>1. op = StockFullKLine /\ list' = << >> => list = << >>
        BY <1>4, EmptySeq
    <2> QED BY <1>1, <1>2, <1>3, <2>1 DEF NothingOfNothing
<1>10. Placed'
    <2> SUFFICES ASSUME Open', Fits', HasBars' PROVE AtPage'
        BY DEF Placed
    <2>1. AtPage
        BY <1>1, <1>3, <1>5, <1>6 DEF Placed
    <2>2. start \in Nat
        BY <1>1, AskedIs
    <2>3. WholePages(call.start, start)' <=> WholePages(call.start, start)
        BY <1>2 DEF WholePages
    <2>4. op = StockFullKLine => start < Len(list')
        BY <1>4, <2>1, <2>2 DEF AtPage
    <2> QED BY <1>2, <1>3, <2>1, <2>3, <2>4 DEF AtPage
<1>11. PagesSoFar' /\ HasRead' /\ HasMoved'
    BY <1>2, <1>4 DEF PagesSoFar, HasRead, HasMoved, Open
<1> QED BY <1>3, <1>5, <1>6, <1>7, <1>8, <1>9, <1>10, <1>11

\* One more entry costs a call at most one that it reads twice, or that is pushed out of reach.
LEMMA InsertKeeps ==
    ASSUME PagingInv, Insert
    PROVE  PagingInv'
<1> DEFINE e == MaxLen + 1 + inserted
           PassedThen(n) == {list'[i] : i \in {i \in DOMAIN list' : i <= n}}
           AheadThen(n) == {list'[i] : i \in {i \in DOMAIN list' : i > n}}
<1>1. PagedTyped /\ ListTyped /\ MovedSoFar
    BY DEF PagingInv
<1>2. /\ UNCHANGED <<call, pc, locals, before, removed>> /\ inserted' = inserted + 1 /\ Open
      /\ ListTyped' /\ Len(list') = Len(list) + 1
    BY <1>1, InsertChanges
<1>3. \A n \in Nat : PassedThen(n) \subseteq Passed(n) \cup {e} /\ \E x : AheadThen(n) \subseteq (Ahead(n) \cup {x}) \cup {e}
    BY <1>1, InsertChanges DEF Passed, Ahead
<1>4. inserted \in Nat /\ removed \in Nat /\ Len(list) \in Nat /\ MaxLen \in Nat
    BY <1>1, PageSizes DEF ListTyped
<1>5. /\ PagedTyped' /\ OpeningsInPlace' /\ NothingOfNothing' /\ Placed' /\ PagesSoFar' /\ HasRead' /\ HasMoved'
      /\ Fits' /\ HasBars' /\ Open' => Fits /\ HasBars /\ Open
      /\ Wanted' = Wanted /\ op' = op
    BY <1>2, <1>4, ListMoves
<1>6. call' = call /\ pc' = pc /\ start' = start /\ result' = result /\ removed' = removed
    BY <1>2 DEF locals
<1>7. start \in Nat /\ call.start + call.count \in Nat
    BY <1>1, AskedIs
<1>8. Passed(start)' = PassedThen(start) /\ Ahead(start)' = AheadThen(start)
      /\ Ahead(call.start + call.count)' = AheadThen(call.start + call.count)
    BY <1>6 DEF Passed, Ahead
<1>9. e \notin ToSet(result) /\ e \notin ToSet(Wanted)
    <2>1. ToSet(Wanted) \subseteq 1..MaxLen
        BY <1>1, WantedWas
    <2>2. ToSet(result) \subseteq 1..(MaxLen + inserted)
        <3>1. result \in Seq(1..(MaxLen + inserted))
            BY <1>1, <1>2 DEF PagedTyped, Open
        <3>2. DOMAIN result = 1..Len(result)
            BY <3>1
        <3>3. \A i \in 1..Len(result) : result[i] \in 1..(MaxLen + inserted)
            BY <3>1, ElementOfSeq
        <3> QED BY <3>2, <3>3 DEF ToSet
    <2> QED BY <1>4, <2>1, <2>2
<1>10. IsFiniteSet(Ahead(start)) /\ IsFiniteSet(Passed(start)) /\ IsFiniteSet(Ahead(call.start + call.count))
    BY <1>1, <1>7, FinitePlaces
<1> HIDE DEF e, PassedThen, AheadThen
<1>11. MovedSoFar'
    <2> SUFFICES ASSUME Open', Fits', HasBars', (op.limit # "size")'
                 PROVE  /\ Repeated(result)' + Cardinality(ToSet(result) \cap Ahead(start))' <= inserted'
                        /\ Cardinality((ToSet(Wanted) \cap Passed(start)) \ ToSet(result))' <= removed'
                        /\ (op.limit = "count")' => Cardinality(ToSet(Wanted) \cap Ahead(call.start + call.count))' <= inserted'
        BY DEF MovedSoFar
    <2>1. /\ Repeated(result) + Cardinality(ToSet(result) \cap Ahead(start)) <= inserted
          /\ Cardinality((ToSet(Wanted) \cap Passed(start)) \ ToSet(result)) <= removed
          /\ op.limit = "count" => Cardinality(ToSet(Wanted) \cap Ahead(call.start + call.count)) <= inserted
        BY <1>1, <1>5 DEF MovedSoFar
    <2>2. Repeated(result)' = Repeated(result) /\ Repeated(result) \in Int
        <3>1. result \in Seq(Int)
            BY <1>1 DEF PagedTyped
        <3>2. Cardinality(ToSet(result)) \in Nat /\ Len(result) \in Nat
            BY <3>1, SetOfSeq
        <3> QED BY <1>6, <3>2 DEF Repeated
    <2>3. /\ Cardinality(ToSet(result) \cap Ahead(start)) \in Nat
          /\ Cardinality(ToSet(result) \cap AheadThen(start)) \in Nat
          /\ Cardinality(ToSet(result) \cap AheadThen(start)) <= Cardinality(ToSet(result) \cap Ahead(start)) + 1
        <3>1. PICK x : AheadThen(start) \subseteq (Ahead(start) \cup {x}) \cup {e}
            BY <1>3, <1>7
        <3>2. ToSet(result) \cap AheadThen(start) \subseteq (ToSet(result) \cap Ahead(start)) \cup {x}
            BY <1>9, <3>1
        <3>3. IsFiniteSet(ToSet(result) \cap Ahead(start))
            BY <1>10, Part
        <3> QED BY <3>2, <3>3, OneElement
    <2>4. /\ Cardinality((ToSet(Wanted) \cap Passed(start)) \ ToSet(result)) \in Nat
          /\ Cardinality((ToSet(Wanted) \cap PassedThen(start)) \ ToSet(result)) \in Nat
          /\ Cardinality((ToSet(Wanted) \cap PassedThen(start)) \ ToSet(result))
               <= Cardinality((ToSet(Wanted) \cap Passed(start)) \ ToSet(result))
        <3>1. PassedThen(start) \subseteq Passed(start) \cup {e}
            BY <1>3, <1>7
        <3>2. (ToSet(Wanted) \cap PassedThen(start)) \ ToSet(result) \subseteq (ToSet(Wanted) \cap Passed(start)) \ ToSet(result)
            BY <1>9, <3>1
        <3>3. IsFiniteSet((ToSet(Wanted) \cap Passed(start)) \ ToSet(result))
            BY <1>10, Part
        <3> QED BY <3>2, <3>3, Part
    <2>5. /\ Cardinality(ToSet(Wanted) \cap Ahead(call.start + call.count)) \in Nat
          /\ Cardinality(ToSet(Wanted) \cap AheadThen(call.start + call.count)) \in Nat
          /\ Cardinality(ToSet(Wanted) \cap AheadThen(call.start + call.count))
               <= Cardinality(ToSet(Wanted) \cap Ahead(call.start + call.count)) + 1
        <3>1. PICK x : AheadThen(call.start + call.count) \subseteq (Ahead(call.start + call.count) \cup {x}) \cup {e}
            BY <1>3, <1>7
        <3>2. ToSet(Wanted) \cap AheadThen(call.start + call.count)
                 \subseteq (ToSet(Wanted) \cap Ahead(call.start + call.count)) \cup {x}
            BY <1>9, <3>1
        <3>3. IsFiniteSet(ToSet(Wanted) \cap Ahead(call.start + call.count))
            BY <1>10, Part
        <3> QED BY <3>2, <3>3, OneElement
    <2>6. /\ Cardinality(ToSet(result) \cap Ahead(start))' = Cardinality(ToSet(result) \cap AheadThen(start))
          /\ Cardinality((ToSet(Wanted) \cap Passed(start)) \ ToSet(result))'
               = Cardinality((ToSet(Wanted) \cap PassedThen(start)) \ ToSet(result))
          /\ Cardinality(ToSet(Wanted) \cap Ahead(call.start + call.count))'
               = Cardinality(ToSet(Wanted) \cap AheadThen(call.start + call.count))
        BY <1>5, <1>6, <1>8
    <2>7. Repeated(result)' + Cardinality(ToSet(result) \cap Ahead(start))' <= inserted'
        BY <1>2, <1>4, <2>1, <2>2, <2>3, <2>6
    <2>8. Cardinality((ToSet(Wanted) \cap Passed(start)) \ ToSet(result))' <= removed'
        BY <1>4, <1>6, <2>1, <2>4, <2>6
    <2>9. (op.limit = "count")' => Cardinality(ToSet(Wanted) \cap Ahead(call.start + call.count))' <= inserted'
        BY <1>2, <1>4, <1>5, <2>1, <2>5, <2>6
    <2> QED BY <2>7, <2>8, <2>9
<1> QED BY <1>2, <1>5, <1>11 DEF PagingInv

\* One entry less costs a call at most one that it does not read.
LEMMA RemoveKeeps ==
    ASSUME PagingInv, Remove1
    PROVE  PagingInv'
<1> DEFINE PassedThen(n) == {list'[i] : i \in {i \in DOMAIN list' : i <= n}}
           AheadThen(n) == {list'[i] : i \in {i \in DOMAIN list' : i > n}}
<1>1. PagedTyped /\ ListTyped /\ MovedSoFar
    BY DEF PagingInv
<1>2. /\ UNCHANGED <<call, pc, locals, before, inserted>> /\ removed' = removed + 1 /\ Open
      /\ ~op.newest /\ ListTyped'
    BY <1>1, RemoveChanges
<1>3. \A n \in Nat : AheadThen(n) \subseteq Ahead(n) /\ \E x : PassedThen(n) \subseteq Passed(n) \cup {x}
    BY <1>1, RemoveChanges DEF Passed, Ahead
<1>4. inserted \in Nat /\ removed \in Nat
    BY <1>1 DEF ListTyped
<1>5. /\ PagedTyped' /\ OpeningsInPlace' /\ NothingOfNothing' /\ Placed' /\ PagesSoFar' /\ HasRead' /\ HasMoved'
      /\ Fits' /\ HasBars' /\ Open' => Fits /\ HasBars /\ Open
      /\ Wanted' = Wanted /\ op' = op
    <2>1. op # StockFullKLine
        BY <1>1, <1>2, AskedIs DEF Regular
    <2>2. inserted <= inserted' /\ inserted' + removed' # 0
        BY <1>2, <1>4
    <2> QED BY <1>2, <2>1, <2>2, ListMoves
<1>6. call' = call /\ pc' = pc /\ start' = start /\ result' = result /\ inserted' = inserted
    BY <1>2 DEF locals
<1>7. start \in Nat /\ call.start + call.count \in Nat
    BY <1>1, AskedIs
<1>8. Passed(start)' = PassedThen(start) /\ Ahead(start)' = AheadThen(start)
      /\ Ahead(call.start + call.count)' = AheadThen(call.start + call.count)
    BY <1>6 DEF Passed, Ahead
<1>10. IsFiniteSet(Ahead(start)) /\ IsFiniteSet(Passed(start)) /\ IsFiniteSet(Ahead(call.start + call.count))
    BY <1>1, <1>7, FinitePlaces
<1> HIDE DEF PassedThen, AheadThen
<1>11. MovedSoFar'
    <2> SUFFICES ASSUME Open', Fits', HasBars', (op.limit # "size")'
                 PROVE  /\ Repeated(result)' + Cardinality(ToSet(result) \cap Ahead(start))' <= inserted'
                        /\ Cardinality((ToSet(Wanted) \cap Passed(start)) \ ToSet(result))' <= removed'
                        /\ (op.limit = "count")' => Cardinality(ToSet(Wanted) \cap Ahead(call.start + call.count))' <= inserted'
        BY DEF MovedSoFar
    <2>1. /\ Repeated(result) + Cardinality(ToSet(result) \cap Ahead(start)) <= inserted
          /\ Cardinality((ToSet(Wanted) \cap Passed(start)) \ ToSet(result)) <= removed
          /\ op.limit = "count" => Cardinality(ToSet(Wanted) \cap Ahead(call.start + call.count)) <= inserted
        BY <1>1, <1>5 DEF MovedSoFar
    <2>2. Repeated(result)' = Repeated(result) /\ Repeated(result) \in Int
        <3>1. result \in Seq(Int)
            BY <1>1 DEF PagedTyped
        <3>2. Cardinality(ToSet(result)) \in Nat /\ Len(result) \in Nat
            BY <3>1, SetOfSeq
        <3> QED BY <1>6, <3>2 DEF Repeated
    <2>3. /\ Cardinality(ToSet(result) \cap Ahead(start)) \in Nat
          /\ Cardinality(ToSet(result) \cap AheadThen(start)) \in Nat
          /\ Cardinality(ToSet(result) \cap AheadThen(start)) <= Cardinality(ToSet(result) \cap Ahead(start))
        <3>1. ToSet(result) \cap AheadThen(start) \subseteq ToSet(result) \cap Ahead(start)
            BY <1>3, <1>7
        <3>2. IsFiniteSet(ToSet(result) \cap Ahead(start))
            BY <1>10, Part
        <3> QED BY <3>1, <3>2, Part
    <2>4. /\ Cardinality((ToSet(Wanted) \cap Passed(start)) \ ToSet(result)) \in Nat
          /\ Cardinality((ToSet(Wanted) \cap PassedThen(start)) \ ToSet(result)) \in Nat
          /\ Cardinality((ToSet(Wanted) \cap PassedThen(start)) \ ToSet(result))
               <= Cardinality((ToSet(Wanted) \cap Passed(start)) \ ToSet(result)) + 1
        <3>1. PICK x : PassedThen(start) \subseteq Passed(start) \cup {x}
            BY <1>3, <1>7
        <3>2. (ToSet(Wanted) \cap PassedThen(start)) \ ToSet(result)
                 \subseteq ((ToSet(Wanted) \cap Passed(start)) \ ToSet(result)) \cup {x}
            BY <3>1
        <3> DEFINE B == (ToSet(Wanted) \cap Passed(start)) \ ToSet(result)
                   A == (ToSet(Wanted) \cap PassedThen(start)) \ ToSet(result)
        <3>3. IsFiniteSet(B)
            BY <1>10, Part
        <3>4. A \subseteq B \cup {x}
            BY <3>2
        <3> HIDE DEF A, B
        <3>5. Cardinality(A) \in Nat /\ Cardinality(B) \in Nat /\ Cardinality(A) <= Cardinality(B) + 1
            BY <3>3, <3>4, OneElement
        <3> QED BY <3>5 DEF A, B
    <2>5. /\ Cardinality(ToSet(Wanted) \cap Ahead(call.start + call.count)) \in Nat
          /\ Cardinality(ToSet(Wanted) \cap AheadThen(call.start + call.count)) \in Nat
          /\ Cardinality(ToSet(Wanted) \cap AheadThen(call.start + call.count))
               <= Cardinality(ToSet(Wanted) \cap Ahead(call.start + call.count))
        <3>1. ToSet(Wanted) \cap AheadThen(call.start + call.count) \subseteq ToSet(Wanted) \cap Ahead(call.start + call.count)
            BY <1>3, <1>7
        <3>2. IsFiniteSet(ToSet(Wanted) \cap Ahead(call.start + call.count))
            BY <1>10, Part
        <3> QED BY <3>1, <3>2, Part
    <2>6. /\ Cardinality(ToSet(result) \cap Ahead(start))' = Cardinality(ToSet(result) \cap AheadThen(start))
          /\ Cardinality((ToSet(Wanted) \cap Passed(start)) \ ToSet(result))'
               = Cardinality((ToSet(Wanted) \cap PassedThen(start)) \ ToSet(result))
          /\ Cardinality(ToSet(Wanted) \cap Ahead(call.start + call.count))'
               = Cardinality(ToSet(Wanted) \cap AheadThen(call.start + call.count))
        BY <1>5, <1>6, <1>8
    <2>7. Repeated(result)' + Cardinality(ToSet(result) \cap Ahead(start))' <= inserted'
        BY <1>4, <1>6, <2>1, <2>2, <2>3, <2>6
    <2>8. Cardinality((ToSet(Wanted) \cap Passed(start)) \ ToSet(result))' <= removed'
        BY <1>2, <1>4, <2>1, <2>4, <2>6
    <2>9. (op.limit = "count")' => Cardinality(ToSet(Wanted) \cap Ahead(call.start + call.count))' <= inserted'
        BY <1>4, <1>5, <1>6, <2>1, <2>5, <2>6
    <2> QED BY <2>7, <2>8, <2>9
<1> QED BY <1>2, <1>5, <1>11 DEF PagingInv

-----------------------------------------------------------------------------
(* A page is read.                                                         *)

\* The entries of a page are the server's, wherever it begins.
LEMMA PageTyped ==
    ASSUME PagedTyped, ListTyped, pc = "reading"
    PROVE  LET page == PageOf(start % op.wire) IN
           /\ page \in Seq(1..(MaxLen + inserted)) /\ page \in Seq(Nat \ {0}) /\ Len(page) \in Nat
           /\ list = << >> => page = << >>
<1> DEFINE o == start % op.wire
           page == PageOf(o)
<1>1. /\ op \in Operation /\ Regular(op) /\ start \in Nat /\ Asked \in Nat /\ inserted \in Nat
      /\ list \in Seq(1..(MaxLen + inserted)) /\ op.bars \in BOOLEAN
    BY AskedIs DEF ListTyped, Regular
<1>2. o \in Nat
    <2>1. op.wire \in Nat /\ op.wire > 0
        BY <1>1, PageSizes DEF Regular
    <2> QED BY <1>1, <2>1
<1> HIDE DEF o
<1>3. page \in Seq(1..(MaxLen + inserted))
      /\ Len(page) = IF o >= Len(Shown(list)) THEN 0 ELSE Least(Asked, Len(Shown(list)) - o)
    BY <1>1, <1>2, PageEntries
<1>4. Len(Shown(list)) \in Nat /\ Len(Shown(list)) <= Len(list)
    BY <1>1, ShownFacts
<1> HIDE DEF page
<1>5. page \in Seq(Nat \ {0}) /\ Len(page) \in Nat
    <2>1. 1..(MaxLen + inserted) \subseteq Nat \ {0}
        BY <1>1, PageSizes
    <2>2. page \in Seq(Nat \ {0})
        BY <1>3, <2>1, SeqMonotonic
    <2>3. Len(page) \in Nat
        BY <2>2
    <2> QED BY <2>2, <2>3
<1>6. list = << >> => page = << >>
    <2>1. list = << >> => Len(list) = 0
        OBVIOUS
    <2>2. list = << >> => Len(page) = 0
        BY <1>2, <1>3, <1>4, <2>1
    <2> QED BY <1>3, <2>2, EmptySeq
<1> QED BY <1>3, <1>5, <1>6 DEF o, page

\* Where the bar at which the caller stops is in a page.
LEMMA MatchIs ==
    ASSUME NEW S, NEW page \in Seq(S), \A x \in S : x # 0
    PROVE  /\ Match(page) = 0 => \A i \in 1..Len(page) : page[i] # call.until
           /\ Match(page) # 0 => Match(page) \in 1..Len(page) /\ page[Match(page)] = call.until
<1>1. DOMAIN page = 1..Len(page) /\ Len(page) \in Nat
    OBVIOUS
<1>2. CASE \E i \in 1..Len(page) : page[i] = call.until
    <2>1. Match(page) = CHOOSE i \in 1..Len(page) : page[i] = call.until
        BY <1>1, <1>2 DEF Match
    <2>2. Match(page) \in 1..Len(page) /\ page[Match(page)] = call.until
        BY <1>2, <2>1
    <2> QED BY <1>1, <2>2
<1>3. CASE ~\E i \in 1..Len(page) : page[i] = call.until
    <2>1. Match(page) = 0
        BY <1>1, <1>3 DEF Match
    <2> QED BY <1>3, <2>1
<1> QED BY <1>2, <1>3

\* What is read of the list from start on is counted twice, if it was read before, and is then not
\* ahead any more.
LEMMA PieceCounts ==
    ASSUME ListTyped, result \in Seq(Int), start \in Nat,
           NEW p \in Seq(Nat \ {0}), Len(p) = 0 \/ start + Len(p) <= Len(list),
           \A i \in 1..Len(p) : p[i] = list[start + i]
    PROVE  /\ Repeated(result) \in Nat /\ Repeated(Joined(p)) \in Nat
           /\ Cardinality(ToSet(result) \cap Ahead(start)) \in Nat
           /\ Cardinality(ToSet(Joined(p)) \cap Ahead(start + Len(p))) \in Nat
           /\ Repeated(Joined(p)) + Cardinality(ToSet(Joined(p)) \cap Ahead(start + Len(p)))
                <= Repeated(result) + Cardinality(ToSet(result) \cap Ahead(start))
           /\ Passed(start + Len(p)) \subseteq Passed(start) \cup ToSet(p)
<1> DEFINE R == ToSet(result)
           T == ToSet(p)
           A == Ahead(start)
           B == Ahead(start + Len(p))
<1>1. Len(p) \in Nat /\ DOMAIN p = 1..Len(p) /\ Len(list) \in Nat /\ DOMAIN list = 1..Len(list)
    BY DEF ListTyped
<1>2. \A i \in 1..Len(p) : start + i \in 1..Len(list)
    BY <1>1
<1>3. \A i, j \in 1..Len(list) : list[i] = list[j] => i = j
    BY <1>1 DEF ListTyped
<1>4. \A i, j \in 1..Len(p) : p[i] = p[j] => i = j
    <2> SUFFICES ASSUME NEW i \in 1..Len(p), NEW j \in 1..Len(p), p[i] = p[j] PROVE i = j
        OBVIOUS
    <2>1. list[start + i] = list[start + j]
        OBVIOUS
    <2>2. start + i = start + j
        BY <1>2, <1>3, <2>1
    <2> QED BY <1>1, <2>2
<1>5. IsFiniteSet(T) /\ Cardinality(T) = Len(p)
    BY <1>4, SetOfSeq
<1>6. IsFiniteSet(R) /\ Cardinality(R) \in Nat /\ Cardinality(R) <= Len(result) /\ Len(result) \in Nat
    BY SetOfSeq
<1>7. T \subseteq A
    <2> SUFFICES ASSUME NEW i \in 1..Len(p) PROVE p[i] \in A
        BY <1>1 DEF ToSet
    <2>1. p[i] = list[start + i] /\ start + i \in DOMAIN list /\ start + i > start
        BY <1>1, <1>2
    <2> QED BY <2>1 DEF Ahead
<1>8. B \subseteq A /\ T \cap B = {}
    <2>1. B \subseteq A
        <3> SUFFICES ASSUME NEW j \in 1..Len(list), j > start + Len(p) PROVE list[j] \in A
            BY <1>1 DEF Ahead
        <3>1. j > start
            BY <1>1
        <3> QED BY <1>1, <3>1 DEF Ahead
    <2>2. ASSUME NEW i \in 1..Len(p), NEW j \in 1..Len(list), j > start + Len(p), p[i] = list[j] PROVE FALSE
        <3>1. list[start + i] = list[j]
            BY <2>2
        <3>2. start + i = j
            BY <1>2, <1>3, <3>1
        <3> QED BY <1>1, <2>2, <3>2
    <2> QED BY <1>1, <2>1, <2>2 DEF ToSet, Ahead
<1>9. Joined(p) \in Seq(Int) /\ Len(Joined(p)) = Len(result) + Len(p) /\ ToSet(Joined(p)) = R \cup T
    <2>1. p \in Seq(Int)
        BY SeqMonotonic
    <2> QED BY <2>1, JoinedFacts
<1>10. IsFiniteSet(A)
    BY FinitePlaces
<1>11. Passed(start + Len(p)) \subseteq Passed(start) \cup T
    <2> SUFFICES ASSUME NEW j \in 1..Len(list), j <= start + Len(p) PROVE list[j] \in Passed(start) \cup T
        BY <1>1 DEF Passed
    <2>1. CASE j <= start
        BY <1>1, <2>1 DEF Passed
    <2>2. CASE j > start
        <3>1. j - start \in 1..Len(p) /\ start + (j - start) = j
            BY <1>1, <2>2
        <3>2. p[j - start] = list[j]
            BY <3>1
        <3> QED BY <1>1, <3>1, <3>2 DEF ToSet
    <2> QED BY <2>1, <2>2
<1> HIDE DEF R, T, A, B
<1>12. Cardinality(R \cup T) = Cardinality(R) + Cardinality(T) - Cardinality(R \cap T)
    BY <1>5, <1>6, FS_Union
<1>13. /\ IsFiniteSet(R \cap T) /\ IsFiniteSet(R \cap B) /\ IsFiniteSet(R \cap A)
       /\ Cardinality(R \cap T) \in Nat /\ Cardinality(R \cap B) \in Nat /\ Cardinality(R \cap A) \in Nat
    BY <1>6, Part
<1>14. Cardinality(R \cap T) + Cardinality(R \cap B) <= Cardinality(R \cap A)
    <2>1. (R \cap T) \cap (R \cap B) = {} /\ (R \cap T) \cup (R \cap B) \subseteq R \cap A
        BY <1>7, <1>8
    <2>2. Cardinality((R \cap T) \cup (R \cap B)) = Cardinality(R \cap T) + Cardinality(R \cap B)
        <3>1. Cardinality((R \cap T) \cup (R \cap B))
                = Cardinality(R \cap T) + Cardinality(R \cap B) - Cardinality((R \cap T) \cap (R \cap B))
            BY <1>13, FS_Union
        <3>2. Cardinality((R \cap T) \cap (R \cap B)) = 0
            BY <2>1, FS_EmptySet
        <3> QED BY <1>13, <3>1, <3>2
    <2>3. Cardinality((R \cap T) \cup (R \cap B)) <= Cardinality(R \cap A)
        BY <1>13, <2>1, Part
    <2> QED BY <2>2, <2>3
<1>15. (R \cup T) \cap B = R \cap B
    BY <1>8
<1>16. Repeated(result) = Len(result) - Cardinality(R)
    BY DEF Repeated, R
<1>17. Repeated(Joined(p)) = (Len(result) + Len(p)) - (Cardinality(R) + Len(p) - Cardinality(R \cap T))
    <2>1. Repeated(Joined(p)) = Len(Joined(p)) - Cardinality(ToSet(Joined(p)))
        BY DEF Repeated
    <2>2. Cardinality(ToSet(Joined(p))) = Cardinality(R) + Len(p) - Cardinality(R \cap T)
        BY <1>5, <1>9, <1>12
    <2>3. Len(Joined(p)) = Len(result) + Len(p)
        BY <1>9
    <2>4. Repeated(Joined(p)) = Len(Joined(p)) - (Cardinality(R) + Len(p) - Cardinality(R \cap T))
        BY <2>1, <2>2
    <2> QED BY <2>3, <2>4
<1>18. Repeated(Joined(p)) = Repeated(result) + Cardinality(R \cap T)
    BY <1>1, <1>6, <1>13, <1>16, <1>17
<1>19. Repeated(result) \in Nat /\ Repeated(Joined(p)) \in Nat
    BY <1>6, <1>13, <1>16, <1>18
<1>20. Cardinality(ToSet(Joined(p)) \cap B) = Cardinality(R \cap B)
    BY <1>9, <1>15
<1>21. Repeated(Joined(p)) + Cardinality(ToSet(Joined(p)) \cap B) <= Repeated(result) + Cardinality(R \cap A)
    BY <1>13, <1>14, <1>18, <1>19, <1>20
<1> QED BY <1>11, <1>13, <1>19, <1>20, <1>21 DEF R, T, A, B

\* A page after which the call goes on, and where it goes on.
LEMMA GoesOn ==
    ASSUME PagedTyped, ListTyped, AtPage, Fits, pc = "reading",
           ~LastPage(Told(start)), ~LimitReached(PageOf(start))
    PROVE  LET page == PageOf(start)
               next == start + Len(page)
           IN /\ Len(page) > 0 /\ NextStart(page) = next /\ next < op.wire /\ next < op.range
              /\ next <= Len(Shown(list)) /\ next <= Len(list)
              /\ op.stop = "short" => WholePages(call.start, next)
              /\ op = StockFullKLine => next < Len(list)
              /\ op.limit = "count" => Asked = Len(page) /\ left > Asked
<1> DEFINE page == PageOf(start)
           n == Len(page)
           next == start + n
<1>1. /\ op \in Operation /\ Regular(op) /\ start \in Nat /\ left \in Nat /\ call.start \in Nat
      /\ Asked \in Nat /\ Asked > 0 /\ Asked <= Page
      /\ op.limit # "count" => Asked = Page
      /\ op.limit = "count" => /\ Asked <= left
                               /\ left # Asked => Asked = Page /\ left > Page
    BY AskedIs
<1>2. /\ page \in Seq(Nat \ {0}) /\ n \in Nat /\ n <= Asked
      /\ n = 0 \/ start + n <= Len(Shown(list))
    BY PageIs
<1>3. ~(IF op.stop = "empty" THEN n = 0 ELSE n < Asked)
    BY LastIs
<1>4. /\ Len(list) \in Nat /\ Len(list) <= MaxLen /\ Len(Shown(list)) \in Nat /\ Len(Shown(list)) <= Len(list)
      /\ (op.bars /\ list # << >> => Len(Shown(list)) = Len(list) - 1)
    <2>1. list \in Seq(1..(MaxLen + inserted)) /\ op.bars \in BOOLEAN
        BY <1>1 DEF ListTyped, Regular
    <2>2. Len(Shown(list)) \in Nat /\ Len(Shown(list)) <= Len(list)
          /\ (op.bars /\ list # << >> => Len(Shown(list)) = Len(list) - 1)
        BY <2>1, ShownFacts
    <2> QED BY <2>1, <2>2 DEF ListTyped
<1> HIDE DEF page, n
<1>5. n > 0 /\ next <= Len(Shown(list)) /\ next <= Len(list)
    BY <1>1, <1>2, <1>3, <1>4
<1>6. op.limit = "count" => Asked = n /\ left > Asked /\ n = Page
    <2>1. op.limit = "count" => left # Asked
        BY DEF LimitReached
    <2>2. op.limit = "count" => op.stop # "empty"
        BY <1>1 DEF Regular
    <2> QED BY <1>1, <1>2, <1>3, <2>1, <2>2
<1>7. op = StockFullKLine => next < Len(list)
    <2>1. op = StockFullKLine => op.bars
        BY <1>1 DEF Regular
    <2>2. list = << >> => Len(list) = 0
        OBVIOUS
    <2> QED BY <1>1, <1>2, <1>4, <1>5, <2>1, <2>2
<1>8. CASE op.stop = "empty"
    <2>1. Advance(page) = n
        BY <1>8 DEF Advance, n
    <2>2. op.wire = Wide /\ op.range = Wide
        BY <1>1, <1>8 DEF Regular
    <2>3. next \in Nat /\ next < Wide
        BY <1>1, <1>2, <1>4, <1>5, PageSizes
    <2>4. NextStart(page) = next
        BY <2>1, <2>2, <2>3, PageSizes DEF NextStart
    <2> QED BY <1>5, <1>6, <1>7, <1>8, <2>2, <2>3, <2>4 DEF page, n
<1>9. CASE op.stop # "empty"
    <2>0. op.stop = "short"
        BY <1>1, <1>9 DEF Regular
    <2>1. n = Asked /\ n = Page
        BY <1>1, <1>2, <1>3, <1>6, <1>9
    <2>2. WholePages(call.start, start) /\ call.start <= start
        BY <2>0 DEF AtPage
    <2>3. op.limit = "count" => start + Page < call.start + call.count
        <3>1. op.limit = "count" => start + left = call.start + call.count /\ left > Page
            BY <1>6 DEF AtPage
        <3> QED BY <1>1, <3>1, PageSizes
    <2>4. start + Page <= Len(list)
        BY <1>5, <2>1
    <2>5. start + Page < op.wire /\ start + Page < op.range /\ WholePages(call.start, start + Page)
        BY <2>2, <2>3, <2>4, NextFits
    <2>6. Advance(page) = n
        BY <1>9, <2>1 DEF Advance
    <2>7. NextStart(page) = next
        <3>1. next \in Nat /\ next < op.range /\ op.range \in Nat /\ op.range > 0
            BY <1>1, <1>2, <2>1, <2>5, PageSizes DEF Regular
        <3> QED BY <2>6, <3>1 DEF NextStart
    <2>8. next = start + Page
        BY <2>1
    <2> QED BY <1>5, <1>6, <1>7, <2>5, <2>7, <2>8 DEF page, n
<1> QED BY <1>8, <1>9

\* What a call makes of a piece of the list that it reads next.
LEMMA PieceRead ==
    ASSUME PagingInv, Fits, HasBars, pc = "reading",
           NEW p \in Seq(Nat \ {0}), Len(p) = 0 \/ start + Len(p) <= Len(Shown(list)), Len(p) <= Page,
           \A i \in 1..Len(p) : p[i] = list[start + i]
    PROVE  LET next == start + Len(p) IN
           /\ next \in Nat
           /\ inserted + removed = 0 =>
                /\ Joined(p) = InOrderOfCall(Stretch(Shown(before), call.start, next))
                /\ next = call.start \/ next <= Len(Shown(before))
           /\ op.limit # "size" =>
                /\ Repeated(Joined(p)) + Cardinality(ToSet(Joined(p)) \cap Ahead(next)) <= inserted
                /\ Repeated(Joined(p)) <= inserted
                /\ Cardinality((ToSet(Wanted) \cap Passed(next)) \ ToSet(Joined(p))) <= removed
                /\ IsFiniteSet((ToSet(Wanted) \cap Passed(next)) \ ToSet(Joined(p)))
<1> DEFINE next == start + Len(p)
<1>1. PagedTyped /\ ListTyped /\ AtPage /\ PagesSoFar /\ MovedSoFar
    BY DEF PagingInv, Placed, Open
<1>2. /\ op \in Operation /\ Regular(op) /\ start \in Nat /\ call.start \in Nat
    BY <1>1, AskedIs
<1>3. Len(p) \in Nat /\ next \in Nat
    <2>1. Len(p) \in Nat
        OBVIOUS
    <2> QED BY <1>2, <2>1
<1>4. op.bars \in BOOLEAN /\ list \in Seq(1..(MaxLen + inserted)) /\ before \in Seq(1..MaxLen)
      /\ inserted \in Nat /\ removed \in Nat /\ Len(list) \in Nat
    BY <1>1, <1>2 DEF Regular, ListTyped
<1>5. Len(Shown(list)) \in Nat /\ Len(Shown(list)) <= Len(list)
    BY <1>4, ShownFacts
<1>6. ASSUME inserted + removed = 0
      PROVE  /\ Joined(p) = InOrderOfCall(Stretch(Shown(before), call.start, next))
             /\ next = call.start \/ next <= Len(Shown(before))
    <2> DEFINE known == Shown(before)
    <2>1. list = before /\ Shown(list) = known
        BY <1>1, <1>6 DEF ListTyped, Shown
    <2>2. known \in Seq(1..MaxLen) /\ \A i \in 1..Len(known) : known[i] = before[i]
        BY <1>4, ShownFacts
    <2>3. /\ start = call.start \/ start <= Len(known)
          /\ result = InOrderOfCall(Stretch(known, call.start, start))
        BY <1>1, <1>6 DEF PagesSoFar, Open
    <2> HIDE DEF known
    <2>4. known \in Seq(Nat \ {0}) /\ Len(known) \in Nat
        <3>1. 1..MaxLen \subseteq Nat \ {0}
            BY PageSizes
        <3>2. known \in Seq(Nat \ {0})
            BY <2>2, <3>1, SeqMonotonic
        <3>3. Len(known) \in Nat
            BY <3>2
        <3> QED BY <3>2, <3>3
    <2>5. call.start <= start /\ (op.stop = "short" => WholePages(call.start, start))
        BY <1>1 DEF AtPage
    <2>6. Len(p) = 0 \/ start + Len(p) <= Len(known)
        BY <2>1
    <2>7. \A i \in 1..Len(p) : p[i] = known[start + i]
        <3> SUFFICES ASSUME NEW i \in 1..Len(p) PROVE p[i] = known[start + i]
            OBVIOUS
        <3>1. start + i \in 1..Len(known)
            BY <1>2, <1>3, <2>4, <2>6
        <3> QED BY <2>1, <2>2, <3>1
    <2>8. Joined(p) = InOrderOfCall(Stretch(known, call.start, start + Len(p)))
        BY <1>2, <2>3, <2>4, <2>5, <2>6, <2>7, JoinedInOrder
    <2>9. next = call.start \/ next <= Len(known)
        BY <1>2, <1>3, <2>3, <2>4, <2>6
    <2> QED BY <2>8, <2>9 DEF known
<1>7. /\ Repeated(result) \in Nat /\ Repeated(Joined(p)) \in Nat
      /\ Cardinality(ToSet(result) \cap Ahead(start)) \in Nat
      /\ Cardinality(ToSet(Joined(p)) \cap Ahead(next)) \in Nat
      /\ Repeated(Joined(p)) + Cardinality(ToSet(Joined(p)) \cap Ahead(next))
           <= Repeated(result) + Cardinality(ToSet(result) \cap Ahead(start))
      /\ Passed(next) \subseteq Passed(start) \cup ToSet(p)
    <2>1. Len(p) = 0 \/ start + Len(p) <= Len(list)
        BY <1>2, <1>3, <1>4, <1>5
    <2>2. result \in Seq(Int)
        BY <1>1 DEF PagedTyped
    <2> QED BY <1>1, <1>2, <2>1, <2>2, PieceCounts
<1> HIDE DEF next
<1>8. ASSUME op.limit # "size"
      PROVE  /\ Repeated(Joined(p)) + Cardinality(ToSet(Joined(p)) \cap Ahead(next)) <= inserted
             /\ Repeated(Joined(p)) <= inserted
             /\ Cardinality((ToSet(Wanted) \cap Passed(next)) \ ToSet(Joined(p))) <= removed
             /\ IsFiniteSet((ToSet(Wanted) \cap Passed(next)) \ ToSet(Joined(p)))
    <2>1. /\ Repeated(result) + Cardinality(ToSet(result) \cap Ahead(start)) <= inserted
          /\ Cardinality((ToSet(Wanted) \cap Passed(start)) \ ToSet(result)) <= removed
        BY <1>1, <1>8 DEF MovedSoFar, Open
    <2> DEFINE A == (ToSet(Wanted) \cap Passed(next)) \ ToSet(Joined(p))
               B == (ToSet(Wanted) \cap Passed(start)) \ ToSet(result)
    <2>2. ToSet(Joined(p)) = ToSet(result) \cup ToSet(p)
        <3>1. result \in Seq(Int)
            BY <1>1 DEF PagedTyped
        <3>2. p \in Seq(Int)
            BY SeqMonotonic
        <3> QED BY <3>1, <3>2, JoinedFacts
    <2>3. A \subseteq B
        BY <1>7, <2>2
    <2>4. IsFiniteSet(B)
        <3>1. IsFiniteSet(Passed(start))
            BY <1>1, <1>2, FinitePlaces
        <3> QED BY <3>1, Part
    <2> HIDE DEF A, B
    <2>5. IsFiniteSet(A) /\ Cardinality(A) \in Nat /\ Cardinality(B) \in Nat /\ Cardinality(A) <= Cardinality(B)
        BY <2>3, <2>4, Part
    <2>6. Cardinality(B) <= removed
        BY <2>1 DEF B
    <2>7. Cardinality(A) <= removed
        BY <1>4, <2>5, <2>6
    <2>8. Repeated(Joined(p)) + Cardinality(ToSet(Joined(p)) \cap Ahead(next)) <= inserted
        BY <1>4, <1>7, <2>1
    <2>9. Repeated(Joined(p)) <= inserted
        BY <1>4, <1>7, <2>8
    <2> QED BY <2>5, <2>7, <2>8, <2>9 DEF A
<1> QED BY <1>3, <1>6, <1>8 DEF next

\* A step that reads keeps the types.
LEMMA ReadTyped ==
    ASSUME PagedTyped, ListTyped, NothingOfNothing, ReadPage
    PROVE  /\ PagedTyped' /\ ListTyped' /\ NothingOfNothing' /\ OpeningsInPlace'
           /\ result' \in Seq(Nat \ {0})
           /\ list = << >> => result' = result
           /\ UNCHANGED <<call, list, before, inserted, removed>> /\ pc = "reading"
<1> DEFINE page == PageOf(start % op.wire)
<1>1. /\ pc = "reading" /\ result' = Joined(page) /\ UNCHANGED <<call, list, before, inserted, removed>>
      /\ IF LastPage(Told(start % op.wire)) \/ LimitReached(page)
         THEN pc' = Finished /\ UNCHANGED <<start, left>>
         ELSE /\ start' = NextStart(page)
              /\ left' = (IF op.limit = "count" THEN left - Asked ELSE left)
              /\ UNCHANGED pc
    BY DEF ReadPage, server
<1>2. page \in Seq(1..(MaxLen + inserted)) /\ page \in Seq(Nat \ {0}) /\ Len(page) \in Nat /\ (list = << >> => page = << >>)
    BY <1>1, PageTyped
<1>3. /\ op \in Operation /\ Regular(op) /\ start \in Nat /\ start < op.range /\ left \in Nat /\ left <= MaxLen
      /\ Asked \in Nat /\ Asked > 0 /\ (op.limit = "count" => Asked <= left)
    BY <1>1, AskedIs
<1> HIDE DEF page
<1>4. result \in Seq(1..(MaxLen + inserted)) /\ inserted \in Nat /\ result \in Seq(Int)
    BY <1>1 DEF PagedTyped, ListTyped
<1>5. result' \in Seq(1..(MaxLen + inserted)) /\ Len(result') = Len(result) + Len(page)
    BY <1>1, <1>2, <1>4, JoinedFacts
<1>6. result' \in Seq(Nat \ {0}) /\ result' \in Seq(Int)
    <2>1. 1..(MaxLen + inserted) \subseteq Nat \ {0} /\ Nat \ {0} \subseteq Int
        BY <1>4, PageSizes
    <2>2. result' \in Seq(Nat \ {0})
        BY <1>5, <2>1, SeqMonotonic
    <2>3. result' \in Seq(Int)
        BY <2>1, <2>2, SeqMonotonic
    <2> QED BY <2>2, <2>3
<1>7. op' = op /\ call' = call /\ list' = list /\ before' = before /\ inserted' = inserted /\ removed' = removed
    BY <1>1 DEF op
<1>8. start' \in 0..(op.range - 1)
    <2>1. op.range \in Nat /\ op.range > 0
        BY <1>3, PageSizes DEF Regular
    <2>2. CASE start' = start
        BY <1>3, <2>1, <2>2
    <2>3. CASE start' = NextStart(page)
        <3>1. Advance(page) \in Nat
            BY <1>2, <1>3 DEF Advance
        <3>2. start + Advance(page) \in Nat
            BY <1>3, <3>1
        <3> QED BY <2>1, <2>3, <3>2 DEF NextStart
    <2> QED BY <1>1, <2>2, <2>3
<1>9. left' \in 0..MaxLen /\ (pc' = "reading" /\ op.limit = "count" => left' > 0)
    <2>1. CASE LastPage(Told(start % op.wire)) \/ LimitReached(page)
        <3>1. pc' # "reading" /\ left' = left
            BY <1>1, <2>1 DEF Finished
        <3> QED BY <1>3, <3>1, PageSizes
    <2>2. CASE ~(LastPage(Told(start % op.wire)) \/ LimitReached(page))
        <3>1. op.limit = "count" => left # Asked
            BY <2>2 DEF LimitReached
        <3>2. left' = IF op.limit = "count" THEN left - Asked ELSE left
            BY <1>1, <2>2
        <3> QED BY <1>3, <3>1, <3>2, PageSizes
    <2> QED BY <2>1, <2>2
<1>10. pc' \in {"reading", "opening", "done"} /\ (pc' = "opening" => op = StockFullKLine)
    BY <1>1 DEF Finished
<1>11. PagedTyped'
    <2>1. call \in [op : Operation, start : 0..MaxLen, count : 0..MaxLen, until : 0..MaxLen]
          /\ call.start \in Starts(op) /\ call.count \in Counts(op) /\ call.until \in Stops(op)
        BY DEF PagedTyped
    <2> QED BY <1>5, <1>6, <1>7, <1>8, <1>9, <1>10, <2>1 DEF PagedTyped
<1>12. ListTyped'
    BY <1>7 DEF ListTyped
<1>13. list = << >> => result' = result
    <2>1. list = << >> => Len(result') = Len(result) /\ Joined(page) = result
        <3> SUFFICES ASSUME list = << >> PROVE Len(result') = Len(result) /\ Joined(page) = result
            OBVIOUS
        <3>1. page = << >>
            BY <1>2
        <3>2. InTime(page) = << >>
            <4>1. << >> \in Seq({}) /\ Len(<< >>) = 0
                OBVIOUS
            <4>2. Reverse(<< >>) \in Seq({}) /\ Len(Reverse(<< >>)) = 0
                BY <4>1, Backwards
            <4> QED BY <3>1, <4>2, EmptySeq DEF InTime
        <3>3. Joined(page) = result
            BY <1>4, <3>2, ConcatEmptySeq DEF Joined
        <3> QED BY <1>1, <3>3
    <2> QED BY <1>1, <2>1
<1>14. NothingOfNothing'
    BY <1>7, <1>13 DEF NothingOfNothing
<1>15. OpeningsInPlace'
    <2>1. \A i \in DOMAIN result' : result'[i] \in Nat \ {0}
        BY <1>6
    <2> QED BY <2>1 DEF OpeningsInPlace
<1> QED BY <1>1, <1>6, <1>7, <1>11, <1>12, <1>13, <1>14, <1>15

\* How far a call has read that takes a page for its last.
LEMMA Ends ==
    ASSUME PagedTyped, ListTyped, AtPage, Fits, pc = "reading",
           LastPage(Told(start)) \/ LimitReached(PageOf(start))
    PROVE  LET next == start + Len(PageOf(start)) IN
           /\ op.limit = "none" => next >= Len(Shown(list))
           /\ op.limit = "count" => /\ next >= Len(Shown(list)) \/ next = call.start + call.count
                                    /\ next <= call.start + call.count
           /\ op.limit = "size" => next >= Len(Shown(list)) \/ (left # 0 /\ next >= left)
<1> DEFINE page == PageOf(start)
           n == Len(page)
<1>1. /\ op \in Operation /\ Regular(op) /\ start \in Nat /\ left \in Nat /\ call.start \in Nat /\ call.count \in Nat
      /\ Asked \in Nat /\ Asked > 0
      /\ op.limit = "count" => Asked <= left
    BY AskedIs
<1>2. n \in Nat /\ n <= Asked /\ (n < Asked => start + n >= Len(Shown(list)))
    BY PageIs
<1>3. LastPage(Told(start)) => n < Asked
    <2>1. LastPage(Told(start)) <=> IF op.stop = "empty" THEN n = 0 ELSE n < Asked
        BY LastIs
    <2> QED BY <1>1, <2>1
<1>4. LimitReached(page) <=> \/ op.limit = "count" /\ left = Asked
                             \/ op.limit = "size" /\ left # 0 /\ start + n >= left
    BY DEF LimitReached
<1>5. op.limit = "count" => start + left = call.start + call.count
    BY DEF AtPage
<1> HIDE DEF page, n
<1>6. LastPage(Told(start)) \/ LimitReached(page)
    BY DEF page
<1>7. op.limit = "none" => start + n >= Len(Shown(list))
    BY <1>2, <1>3, <1>4, <1>6
<1>8. op.limit = "count" => /\ start + n >= Len(Shown(list)) \/ start + n = call.start + call.count
                            /\ start + n <= call.start + call.count
    <2> SUFFICES ASSUME op.limit = "count"
                 PROVE  /\ start + n >= Len(Shown(list)) \/ start + n = call.start + call.count
                        /\ start + n <= call.start + call.count
        OBVIOUS
    <2>1. n <= left /\ start + left = call.start + call.count
        BY <1>1, <1>2, <1>5
    <2>2. n < Asked \/ (left = Asked /\ n = left)
        BY <1>1, <1>2, <1>3, <1>4, <1>6
    <2> QED BY <1>1, <1>2, <2>1, <2>2
<1>9. op.limit = "size" => start + n >= Len(Shown(list)) \/ (left # 0 /\ start + n >= left)
    BY <1>2, <1>3, <1>4, <1>6
<1> QED BY <1>7, <1>8, <1>9 DEF page, n

\* The bar at which the caller stops is not among those that were read.
LEMMA NotPassed ==
    ASSUME PagingInv, Fits, HasBars, pc = "reading", inserted + removed = 0, Match(PageOf(start)) = 0
    PROVE  \A i \in 1..Len(Shown(before)) : i <= start + Len(PageOf(start)) => Shown(before)[i] # call.until
<1> DEFINE page == PageOf(start)
           known == Shown(before)
<1>1. PagedTyped /\ ListTyped /\ AtPage /\ PagesSoFar
    BY DEF PagingInv, Placed, Open
<1>2. /\ op \in Operation /\ Regular(op) /\ start \in Nat
    BY <1>1, AskedIs
<1>3. op.bars \in BOOLEAN /\ before \in Seq(1..MaxLen) /\ list = before
    BY <1>1, <1>2 DEF Regular, ListTyped
<1>4. known \in Seq(1..MaxLen) /\ Len(known) \in Nat /\ DOMAIN known = 1..Len(known)
      /\ (\A i \in 1..Len(known) : known[i] = before[i])
    <2>1. known \in Seq(1..MaxLen) /\ (\A i \in 1..Len(known) : known[i] = before[i])
        BY <1>3, ShownFacts
    <2> HIDE DEF known
    <2>2. Len(known) \in Nat /\ DOMAIN known = 1..Len(known)
        BY <2>1
    <2> QED BY <2>1, <2>2
<1>5. page \in Seq(Nat \ {0}) /\ Len(page) \in Nat /\ \A i \in 1..Len(page) : page[i] = list[start + i]
    BY <1>1, PageIs
<1>6. \A i \in 1..Len(known) : i <= start => known[i] # call.until
    BY <1>1, <1>4 DEF PagesSoFar, Open
<1>7. \A i \in 1..Len(page) : page[i] # call.until
    BY <1>5, MatchIs
<1> HIDE DEF page, known
<1>8. ASSUME NEW i \in 1..Len(known), i <= start + Len(page) PROVE known[i] # call.until
    <2>1. CASE i <= start
        BY <1>6, <2>1
    <2>2. CASE i > start
        <3>1. i - start \in 1..Len(page) /\ start + (i - start) = i
            BY <1>2, <1>5, <1>8, <2>2
        <3>2. page[i - start] # call.until /\ page[i - start] = list[i]
            BY <1>5, <1>7, <3>1
        <3>3. list[i] = known[i]
            BY <1>3, <1>4
        <3> QED BY <3>2, <3>3
    <2> QED BY <1>2, <2>1, <2>2
<1> QED BY <1>8 DEF page, known

\* A list that stayed as it was has then been read as it is.
LEMMA ReadAsItWas ==
    ASSUME PagingInv, Fits, HasBars, pc = "reading", inserted + removed = 0, Match(PageOf(start)) = 0,
           LastPage(Told(start)) \/ LimitReached(PageOf(start))
    PROVE  AsItWas(Joined(PageOf(start)))
<1> DEFINE page == PageOf(start)
           next == start + Len(page)
           known == Shown(before)
<1>1. PagedTyped /\ ListTyped /\ AtPage /\ PagesSoFar
    BY DEF PagingInv, Placed, Open
<1>2. /\ op \in Operation /\ Regular(op) /\ start \in Nat /\ call.start \in Nat /\ call.count \in Nat /\ left \in Nat
      /\ Asked <= Page /\ (op.limit # "count" => call.start = 0)
    BY <1>1, AskedIs
<1>3. op.bars \in BOOLEAN /\ before \in Seq(1..MaxLen) /\ list = before /\ Len(before) \in Nat
    BY <1>1, <1>2 DEF Regular, ListTyped
<1>4. known \in Seq(1..MaxLen) /\ Len(known) \in Nat /\ Len(known) <= Len(before)
      /\ (~op.bars => known = before) /\ (\A i \in 1..Len(known) : known[i] = before[i])
    <2>1. known \in Seq(1..MaxLen) /\ Len(known) <= Len(before) /\ (\A i \in 1..Len(known) : known[i] = before[i])
        BY <1>3, ShownFacts
    <2>2. Len(known) \in Nat
        BY <2>1
    <2>3. ~op.bars => known = before
        BY DEF Shown
    <2> QED BY <2>1, <2>2, <2>3
<1>5. /\ page \in Seq(Nat \ {0}) /\ Len(page) \in Nat /\ Len(page) <= Page
      /\ Len(page) = 0 \/ start + Len(page) <= Len(Shown(list))
      /\ \A i \in 1..Len(page) : page[i] = list[start + i]
    <2>1. /\ page \in Seq(Nat \ {0}) /\ Len(page) \in Nat /\ Len(page) <= Asked
          /\ Len(page) = 0 \/ start + Len(page) <= Len(Shown(list))
          /\ \A i \in 1..Len(page) : page[i] = list[start + i]
        BY <1>1, PageIs
    <2>2. Asked \in Nat
        BY <1>1, AskedIs
    <2> QED BY <1>2, <2>1, <2>2, PageSizes
<1>6. /\ next \in Nat /\ (next = call.start \/ next <= Len(known))
      /\ Joined(page) = InOrderOfCall(Stretch(known, call.start, next))
    BY <1>5, PieceRead
<1>7. /\ op.limit = "none" => next >= Len(known)
      /\ op.limit = "count" => /\ next >= Len(known) \/ next = call.start + call.count
                               /\ next <= call.start + call.count
      /\ op.limit = "size" => next >= Len(known) \/ (left # 0 /\ next >= left)
    BY <1>1, <1>3, Ends
<1>8. \A i \in 1..Len(known) : i <= next => known[i] # call.until
    BY NotPassed
<1> HIDE DEF page, next, known
<1>9. op.limit # "size" /\ Joined(page) = InOrderOfCall(Wanted) => AsItWas(Joined(page))
    BY DEF AsItWas, InOrderOfCall
<1>10. next <= Len(known) /\ next >= Len(known) => Stretch(known, 0, next) = known
    <2>1. SubSeq(known, 1, Len(known)) = known
        BY <1>4, SubSeqFull
    <2>2. next <= Len(known) /\ next >= Len(known) => next = Len(known)
        BY <1>4, <1>6
    <2> QED BY <2>1, <2>2 DEF Stretch
<1>11. CASE op.limit = "none"
    <2>1. next <= Len(known) /\ next >= Len(known)
        BY <1>2, <1>4, <1>6, <1>7, <1>11
    <2>2. \A i \in 1..Len(known) : known[i] # call.until
        <3>1. \A i \in 1..Len(known) : i <= next
            BY <1>4, <1>6, <2>1
        <3> QED BY <1>8, <3>1
    <2>3. Wanted = known
        BY <1>1, <1>11, <2>2, WantedIs DEF known
    <2>4. Joined(page) = InOrderOfCall(Wanted)
        BY <1>2, <1>6, <1>10, <1>11, <2>1, <2>3
    <2> QED BY <1>9, <1>11, <2>4 DEF page
<1>12. CASE op.limit = "count"
    <2> DEFINE to == Least(call.start + call.count, Len(known))
    <2>1. Wanted = Stretch(known, call.start, to)
        BY <1>1, <1>12, WantedIs DEF known
    <2>2. CASE next <= Len(known)
        <3>1. to = next
            BY <1>2, <1>4, <1>6, <1>7, <1>12, <2>2 DEF Least
        <3> QED BY <1>6, <1>9, <1>12, <2>1, <3>1 DEF page
    <2>3. CASE ~(next <= Len(known))
        <3>1. next = call.start /\ to = Len(known) /\ ~(call.start < to)
            BY <1>2, <1>4, <1>6, <2>3 DEF Least
        <3>2. Stretch(known, call.start, to) \in Seq(1..MaxLen) /\ Len(Stretch(known, call.start, to)) = 0
            BY <1>2, <1>4, <3>1, StretchIs
        <3>3. Stretch(known, call.start, to) = << >>
            BY <3>2, EmptySeq
        <3>4. Stretch(known, call.start, next) = << >>
            BY <1>2, <1>4, <3>1, NothingRead
        <3> QED BY <1>6, <1>9, <1>12, <2>1, <3>3, <3>4 DEF page
    <2> QED BY <2>2, <2>3
<1>13. CASE op.limit = "size"
    <2>1. ~op.front /\ ~op.newest /\ ~op.bars
        BY <1>2, <1>13 DEF Regular
    <2>2. known = before /\ call.start = 0 /\ next <= Len(before)
        BY <1>2, <1>4, <1>6, <1>13, <2>1
    <2>3. Joined(page) = Stretch(before, 0, next)
        BY <1>6, <2>1, <2>2 DEF InOrderOfCall
    <2>4. Stretch(before, 0, next) \in Seq(1..MaxLen) /\ Len(Stretch(before, 0, next)) = next
        BY <1>3, <1>6, <2>2, StretchIs
    <2>5. IsPrefix(Joined(page), before)
        <3>1. SubSeq(Joined(page), 1, Len(Joined(page))) = Joined(page)
            BY <2>3, <2>4, SubSeqFull
        <3>2. Joined(page) = SubSeq(before, 1, next)
            BY <2>3 DEF Stretch
        <3> QED BY <2>2, <2>3, <2>4, <3>1, <3>2 DEF IsPrefix
    <2>6. Len(Joined(page)) >= IF left = 0 THEN Len(before) ELSE Least(left, Len(before))
        <3>1. next >= Len(before) \/ (left # 0 /\ next >= left)
            BY <1>7, <1>13, <2>2
        <3> QED BY <1>2, <1>3, <1>6, <2>2, <2>3, <2>4, <3>1 DEF Least
    <2> QED BY <1>13, <2>5, <2>6 DEF AsItWas, page
<1> QED BY <1>2, <1>11, <1>12, <1>13 DEF Regular

\* Of a list that moved not more was missed than was removed, or pushed out of reach.
LEMMA MissedAtEnd ==
    ASSUME PagingInv, Fits, HasBars, pc = "reading", op.limit # "size",
           LastPage(Told(start)) \/ LimitReached(PageOf(start))
    PROVE  Cardinality(Missed(Joined(PageOf(start)))) <= removed + (IF op.limit = "count" THEN inserted ELSE 0)
<1> DEFINE page == PageOf(start)
           next == start + Len(page)
           W == ToSet(Wanted)
           R == ToSet(Joined(page))
           A == (W \cap Passed(next)) \ R
           B == W \cap Ahead(call.start + call.count)
<1>1. PagedTyped /\ ListTyped /\ AtPage /\ MovedSoFar
    BY DEF PagingInv, Placed, Open
<1>2. /\ op \in Operation /\ Regular(op) /\ start \in Nat /\ call.start \in Nat /\ call.count \in Nat /\ Asked <= Page
    BY <1>1, AskedIs
<1>3. /\ op.bars \in BOOLEAN /\ before \in Seq(1..MaxLen) /\ list \in Seq(1..(MaxLen + inserted))
      /\ Len(list) \in Nat /\ Len(before) \in Nat /\ inserted \in Nat /\ removed \in Nat
      /\ DOMAIN list = 1..Len(list) /\ DOMAIN before = 1..Len(before)
    BY <1>1, <1>2 DEF Regular, ListTyped
<1>4. /\ page \in Seq(Nat \ {0}) /\ Len(page) \in Nat /\ Len(page) <= Page
      /\ Len(page) = 0 \/ start + Len(page) <= Len(Shown(list))
      /\ \A i \in 1..Len(page) : page[i] = list[start + i]
    <2>1. /\ page \in Seq(Nat \ {0}) /\ Len(page) \in Nat /\ Len(page) <= Asked
          /\ Len(page) = 0 \/ start + Len(page) <= Len(Shown(list))
          /\ \A i \in 1..Len(page) : page[i] = list[start + i]
        BY <1>1, PageIs
    <2>2. Asked \in Nat
        BY <1>1, AskedIs
    <2> QED BY <1>2, <2>1, <2>2, PageSizes
<1>5. next \in Nat /\ Cardinality(A) <= removed /\ IsFiniteSet(A)
    BY <1>4, PieceRead
<1>6. /\ op.limit = "none" => next >= Len(Shown(list))
      /\ op.limit = "count" => next >= Len(Shown(list)) \/ next = call.start + call.count
    BY <1>1, Ends
<1>7. op.limit = "count" => Cardinality(B) <= inserted
    BY <1>1 DEF MovedSoFar, Open
<1>8. IsFiniteSet(B)
    <2>1. IsFiniteSet(Ahead(call.start + call.count))
        BY <1>1, <1>2, FinitePlaces
    <2> QED BY <2>1, Part
<1>9. Missed(Joined(page)) = (W \cap ToSet(list)) \ R
    BY DEF Missed
<1>10. ToSet(list) = Passed(next) \cup Ahead(next)
    BY <1>1, <1>5, FinitePlaces
\* The very first bar, which no page shows, is not asked for.
<1>11. next >= Len(Shown(list)) => W \cap Ahead(next) = {}
    <2> SUFFICES ASSUME next >= Len(Shown(list)), NEW j \in 1..Len(list), j > next, list[j] \in W PROVE FALSE
        BY <1>3 DEF Ahead
    <2>1. /\ Len(Shown(list)) = IF op.bars /\ list # << >> THEN Len(list) - 1 ELSE Len(list)
        BY <1>3, ShownFacts
    <2>2. op.bars /\ j = Len(list)
        <3> HIDE DEF next
        <3>0. Len(list) \in Nat
            BY <1>3
        <3>1. j \in Int /\ j <= Len(list) /\ j > next /\ next >= Len(Shown(list)) /\ next \in Int
            BY <1>5, <3>0
        <3>2. CASE op.bars /\ list # << >>
            <4>1. Len(Shown(list)) = Len(list) - 1
                BY <2>1, <3>2
            <4> QED BY <3>0, <3>1, <3>2, <4>1
        <3>3. CASE ~(op.bars /\ list # << >>)
            <4>1. Len(Shown(list)) = Len(list)
                BY <2>1, <3>3
            <4> QED BY <3>0, <3>1, <4>1
        <3> QED BY <3>2, <3>3
    <2>3. op.newest
        BY <1>2, <2>2 DEF Regular
    <2>4. PICK i \in 1..Len(Shown(before)) : list[j] = before[i]
        BY <1>1, WantedWas
    <2>5. Len(Shown(before)) = IF op.bars /\ before # << >> THEN Len(before) - 1 ELSE Len(before)
        BY <1>3, ShownFacts
    <2>6. i \in 1..Len(before) /\ i < Len(before)
        <3>1. before = << >> => Len(before) = 0
            OBVIOUS
        <3>2. Len(before) \in Nat /\ i \in 1..Len(Shown(before)) /\ op.bars
            BY <1>3, <2>2
        <3>3. before # << >>
            BY <2>5, <3>1, <3>2
        <3> QED BY <2>5, <3>2, <3>3
    <2>7. /\ list[inserted + i] = before[i] /\ Len(list) = Len(before) + inserted
        <3>1. removed = 0 /\ (\A k \in DOMAIN before : list[inserted + k] = before[k])
              /\ Len(list) + removed = Len(before) + inserted
            BY <1>1, <2>3 DEF ListTyped
        <3>4. Len(list) \in Nat /\ Len(before) \in Nat /\ inserted \in Nat
            BY <1>3
        <3>2. Len(list) = Len(before) + inserted
            BY <3>1, <3>4
        <3>3. i \in DOMAIN before
            BY <1>3, <2>6
        <3> QED BY <3>1, <3>2, <3>3
    <2>8. inserted + i \in 1..Len(list) /\ inserted + i # j
        BY <1>3, <2>2, <2>6, <2>7
    <2>9. inserted + i \in DOMAIN list /\ j \in DOMAIN list /\ list[inserted + i] = list[j]
        BY <1>3, <2>4, <2>7, <2>8
    <2> QED BY <1>1, <2>8, <2>9 DEF ListTyped
<1> HIDE DEF page, W, R
<1>12. CASE next >= Len(Shown(list))
    <2>1. Missed(Joined(page)) \subseteq A
        BY <1>9, <1>10, <1>11, <1>12
    <2> HIDE DEF A, next
    <2>2. Cardinality(Missed(Joined(page))) \in Nat /\ Cardinality(A) \in Nat
          /\ Cardinality(Missed(Joined(page))) <= Cardinality(A)
        BY <1>5, <2>1, Part
    <2> QED BY <1>3, <1>5, <2>2 DEF page
<1>13. CASE op.limit = "count" /\ next = call.start + call.count
    <2>1. Missed(Joined(page)) \subseteq A \cup B
        BY <1>9, <1>10, <1>13
    <2> HIDE DEF A, B, next
    <2>2. IsFiniteSet(A \cup B) /\ Cardinality(A \cup B) = Cardinality(A) + Cardinality(B) - Cardinality(A \cap B)
        BY <1>5, <1>8, FS_Union
    <2>3. Cardinality(A) \in Nat /\ Cardinality(B) \in Nat /\ Cardinality(A \cap B) \in Nat
        BY <1>5, <1>8, Part
    <2>4. Cardinality(Missed(Joined(page))) \in Nat /\ Cardinality(A \cup B) \in Nat
          /\ Cardinality(Missed(Joined(page))) <= Cardinality(A \cup B)
        BY <2>1, <2>2, Part
    <2>5. Cardinality(Missed(Joined(page))) <= removed + inserted
        BY <1>3, <1>5, <1>7, <1>13, <2>2, <2>3, <2>4
    <2> QED BY <1>13, <2>5 DEF page
<1> QED BY <1>2, <1>6, <1>12, <1>13 DEF Regular

\* What a step of the call leaves as it is.
LEMMA Still ==
    ASSUME PagedTyped, ListTyped, UNCHANGED <<call, list, before, inserted, removed>>
    PROVE  /\ op' = op /\ Wanted' = Wanted /\ (HasBars' <=> HasBars) /\ (Fits' => Fits)
           /\ Shown(before)' = Shown(before) /\ Shown(list)' = Shown(list)
<1>1. op' = op /\ Wanted' = Wanted /\ (HasBars' <=> HasBars)
    BY WantedStays
<1>2. Fits' => Fits
    <2>1. inserted' \in Int /\ inserted <= inserted'
        BY DEF ListTyped
    <2> QED BY <2>1, FitsBefore
<1>3. Shown(before)' = Shown(before) /\ Shown(list)' = Shown(list)
    BY <1>1 DEF Shown
<1> QED BY <1>1, <1>2, <1>3

\* A page that is not the last leaves the call at the next one.
LEMMA ReadingGoesOn ==
    ASSUME PagingInv, ReadPage, Fits, HasBars, pc' = "reading"
    PROVE  AtPage' /\ PagesSoFar' /\ MovedSoFar'
<1> DEFINE page == PageOf(start)
           next == start + Len(page)
<1>1. PagedTyped /\ ListTyped /\ NothingOfNothing /\ AtPage /\ MovedSoFar /\ pc = "reading"
    BY DEF PagingInv, Placed, Open, ReadPage
<1>2. /\ op \in Operation /\ Regular(op) /\ start \in Nat /\ call.start \in Nat /\ left \in Nat /\ Asked <= Page
      /\ Asked \in Nat
    BY <1>1, AskedIs
<1>3. /\ start % op.wire = start /\ page \in Seq(Nat \ {0}) /\ Len(page) \in Nat /\ Len(page) <= Asked
      /\ Len(page) = 0 \/ start + Len(page) <= Len(Shown(list))
      /\ \A i \in 1..Len(page) : page[i] = list[start + i]
    BY <1>1, PageIs
<1>4. UNCHANGED <<call, list, before, inserted, removed>>
    BY DEF ReadPage, server
<1>5. /\ op' = op /\ Wanted' = Wanted /\ (HasBars' <=> HasBars) /\ (Fits' => Fits)
      /\ Shown(before)' = Shown(before) /\ Shown(list)' = Shown(list)
    BY <1>1, <1>4, Still
<1>6. /\ Match(page) = 0 /\ result' = Joined(page)
      /\ ~LastPage(Told(start)) /\ ~LimitReached(page)
      /\ start' = NextStart(page) /\ left' = (IF op.limit = "count" THEN left - Asked ELSE left)
    BY <1>3 DEF ReadPage, Finished
<1>7. /\ Len(page) > 0 /\ NextStart(page) = next /\ next < op.wire /\ next < op.range
      /\ next <= Len(Shown(list)) /\ next <= Len(list)
      /\ op.stop = "short" => WholePages(call.start, next)
      /\ op = StockFullKLine => next < Len(list)
      /\ op.limit = "count" => Asked = Len(page) /\ left > Asked
    BY <1>1, <1>6, GoesOn
<1>8. /\ next \in Nat
      /\ inserted + removed = 0 =>
           /\ Joined(page) = InOrderOfCall(Stretch(Shown(before), call.start, next))
           /\ next = call.start \/ next <= Len(Shown(before))
      /\ op.limit # "size" =>
           /\ Repeated(Joined(page)) + Cardinality(ToSet(Joined(page)) \cap Ahead(next)) <= inserted
           /\ Cardinality((ToSet(Wanted) \cap Passed(next)) \ ToSet(Joined(page))) <= removed
    <2>1. Len(page) <= Page
        BY <1>2, <1>3, PageSizes
    <2> QED BY <1>1, <1>3, <2>1, PieceRead
<1>9. start' = next
    BY <1>6, <1>7
<1>10. inserted + removed = 0 => \A i \in 1..Len(Shown(before)) : i <= next => Shown(before)[i] # call.until
    BY <1>1, <1>6, NotPassed
<1>11. AtPage'
    <2>1. call.start <= next
        BY <1>1, <1>2, <1>3, <1>8 DEF AtPage
    <2>2. op.limit = "count" => next + left' = call.start + call.count
        <3> SUFFICES ASSUME op.limit = "count" PROVE next + left' = call.start + call.count
            OBVIOUS
        <3>1. left' = left - Len(page) /\ start + left = call.start + call.count
            BY <1>1, <1>6, <1>7 DEF AtPage
        <3> QED BY <1>2, <1>3, <3>1
    <2>3. WholePages(call.start, start)' <=> WholePages(call.start, next)
        BY <1>4, <1>9 DEF WholePages
    <2> HIDE DEF next
    <2> QED BY <1>4, <1>5, <1>7, <1>9, <2>1, <2>2, <2>3 DEF AtPage
<1>12. PagesSoFar'
    <2> SUFFICES ASSUME inserted + removed = 0
                 PROVE  (/\ start = call.start \/ start <= Len(Shown(before))
                         /\ result = InOrderOfCall(Stretch(Shown(before), call.start, start))
                         /\ \A i \in DOMAIN Shown(before) : i <= start => Shown(before)[i] # call.until)'
        BY <1>4 DEF PagesSoFar
    <2> HIDE DEF next, page
    <2>1. (start = call.start \/ start <= Len(Shown(before)))'
        BY <1>4, <1>5, <1>8, <1>9
    <2>2. (result = InOrderOfCall(Stretch(Shown(before), call.start, start)))'
        BY <1>4, <1>5, <1>6, <1>8, <1>9 DEF InOrderOfCall
    <2>3. (\A i \in DOMAIN Shown(before) : i <= start => Shown(before)[i] # call.until)'
        <3>1. DOMAIN Shown(before) = 1..Len(Shown(before))
            <4>1. before \in Seq(1..MaxLen) /\ op.bars \in BOOLEAN
                BY <1>1, <1>2 DEF ListTyped, Regular
            <4>2. Shown(before) \in Seq(1..MaxLen)
                BY <4>1, ShownFacts
            <4> QED BY <4>2
        <3> QED BY <1>4, <1>5, <1>9, <1>10, <3>1
    <2> QED BY <2>1, <2>2, <2>3
<1>13. MovedSoFar'
    <2> SUFFICES ASSUME op.limit # "size"
                 PROVE  (/\ Repeated(result) + Cardinality(ToSet(result) \cap Ahead(start)) <= inserted
                         /\ Cardinality((ToSet(Wanted) \cap Passed(start)) \ ToSet(result)) <= removed
                         /\ op.limit = "count" => Cardinality(ToSet(Wanted) \cap Ahead(call.start + call.count)) <= inserted)'
        BY <1>5 DEF MovedSoFar
    <2> HIDE DEF next, page
    <2>1. Ahead(start)' = Ahead(next) /\ Passed(start)' = Passed(next)
          /\ Ahead(call.start + call.count)' = Ahead(call.start + call.count)
        BY <1>4, <1>9 DEF Ahead, Passed
    <2>2. op.limit = "count" => Cardinality(ToSet(Wanted) \cap Ahead(call.start + call.count)) <= inserted
        BY <1>1 DEF MovedSoFar, Open
    <2>3. (Repeated(result) + Cardinality(ToSet(result) \cap Ahead(start)) <= inserted)'
        BY <1>4, <1>6, <1>8, <2>1
    <2>4. (Cardinality((ToSet(Wanted) \cap Passed(start)) \ ToSet(result)) <= removed)'
        BY <1>4, <1>5, <1>6, <1>8, <2>1
    <2>5. (op.limit = "count" => Cardinality(ToSet(Wanted) \cap Ahead(call.start + call.count)) <= inserted)'
        BY <1>4, <1>5, <2>1, <2>2
    <2> QED BY <2>3, <2>4, <2>5
<1> QED BY <1>11, <1>12, <1>13

\* The last page leaves the call with what was wanted, or off by no more than the list moved.
LEMMA ReadingEnds ==
    ASSUME PagingInv, ReadPage, Fits, HasBars, pc' # "reading"
    PROVE  HasRead' /\ HasMoved'
<1> DEFINE page == PageOf(start)
<1>1. PagedTyped /\ ListTyped /\ NothingOfNothing /\ AtPage /\ pc = "reading"
    BY DEF PagingInv, Placed, Open, ReadPage
<1>2. /\ start % op.wire = start /\ page \in Seq(Nat \ {0}) /\ Len(page) \in Nat /\ Len(page) <= Asked
      /\ Len(page) = 0 \/ start + Len(page) <= Len(Shown(list))
      /\ \A i \in 1..Len(page) : page[i] = list[start + i]
    BY <1>1, PageIs
<1>3. UNCHANGED <<call, list, before, inserted, removed>>
    BY DEF ReadPage, server
<1>4. op' = op /\ Wanted' = Wanted
    BY <1>1, <1>3, Still
<1>5. /\ Match(page) = 0 /\ result' = Joined(page) /\ left' = left
      /\ LastPage(Told(start)) \/ LimitReached(page)
    BY <1>1, <1>2 DEF ReadPage
<1>6. result' \in Seq(Nat \ {0})
    BY <1>1, ReadTyped
<1>7. Entries(result)' = Joined(page)
    BY <1>5, <1>6, AllEntries
<1>8. inserted + removed = 0 => AsItWas(Joined(page))
    BY <1>1, <1>5, ReadAsItWas
<1>9. op.limit # "size" =>
        /\ Repeated(Joined(page)) <= inserted
        /\ Cardinality(Missed(Joined(page))) <= removed + (IF op.limit = "count" THEN inserted ELSE 0)
    <2>1. Len(page) <= Page
        <3>1. Asked \in Nat /\ Asked <= Page
            BY <1>1, AskedIs
        <3> QED BY <1>2, <3>1, PageSizes
    <2>2. op.limit # "size" => Repeated(Joined(page)) <= inserted
        BY <1>1, <1>2, <2>1, PieceRead
    <2>3. op.limit # "size" =>
            Cardinality(Missed(Joined(page))) <= removed + (IF op.limit = "count" THEN inserted ELSE 0)
        BY <1>1, <1>5, MissedAtEnd
    <2> QED BY <2>2, <2>3
<1> HIDE DEF page
<1>10. HasRead'
    <2> SUFFICES ASSUME inserted + removed = 0 PROVE AsItWas(Entries(result))'
        BY <1>3 DEF HasRead
    <2>1. AsItWas(Joined(page))
        BY <1>8
    <2> QED BY <1>3, <1>4, <1>5, <1>7, <2>1 DEF AsItWas
<1>11. HasMoved'
    <2> SUFFICES ASSUME op.limit # "size"
                 PROVE  (/\ Repeated(Entries(result)) <= inserted
                         /\ Cardinality(Missed(Entries(result))) <= removed + (IF op.limit = "count" THEN inserted ELSE 0))'
        BY <1>4 DEF HasMoved
    <2>1. Missed(Entries(result))' = Missed(Joined(page))
        BY <1>3, <1>4, <1>7 DEF Missed
    <2>2. Repeated(Entries(result))' = Repeated(Joined(page))
        BY <1>7 DEF Repeated
    <2> QED BY <1>3, <1>4, <1>9, <2>1, <2>2
<1> QED BY <1>10, <1>11

\* Of a stock without bars a call can only have read nothing.
LEMMA NothingWas ==
    ASSUME PagedTyped, ListTyped, op = StockFullKLine, before = << >>
    PROVE  AsItWas(<< >>) /\ Entries(<< >>) = << >>
<1>1. Regular(op)
    BY AskedIs
<1>2. Shown(before) = << >>
    BY DEF Shown
<1>3. Wanted = << >>
    <2>1. Len(<< >>) = 0
        OBVIOUS
    <2>2. \A i \in 1..Len(Shown(before)) : Shown(before)[i] # call.until
        BY <1>2, <2>1
    <2> QED BY <1>1, <1>2, <2>2, WantedIs DEF Regular
<1>4. Reverse(<< >>) = << >>
    <2>1. << >> \in Seq({}) /\ Len(<< >>) = 0
        OBVIOUS
    <2>2. Reverse(<< >>) \in Seq({}) /\ Len(Reverse(<< >>)) = 0
        BY <2>1, Backwards
    <2> QED BY <2>2, EmptySeq
<1>5. Entries(<< >>) = << >>
    <2>1. << >> \in Seq(Nat \ {0})
        OBVIOUS
    <2> QED BY <2>1, AllEntries
<1> QED BY <1>1, <1>3, <1>4, <1>5 DEF AsItWas, Regular

\* A page is read, and the call goes on or ends.
LEMMA ReadKeeps ==
    ASSUME PagingInv, ReadPage
    PROVE  PagingInv'
<1>1. PagedTyped /\ ListTyped /\ NothingOfNothing
    BY DEF PagingInv
<1>2. /\ PagedTyped' /\ ListTyped' /\ NothingOfNothing' /\ OpeningsInPlace'
      /\ list = << >> => result' = result
      /\ UNCHANGED <<call, list, before, inserted, removed>> /\ pc = "reading"
    BY <1>1, ReadTyped
<1>3. /\ op' = op /\ (HasBars' <=> HasBars) /\ (Fits' => Fits)
    BY <1>1, <1>2, Still
<1>4. pc' \in {"reading", "opening", "done"}
    BY <1>2 DEF ReadPage, Finished
<1>5. CASE Fits' /\ HasBars' /\ pc' = "reading"
    <2>1. AtPage' /\ PagesSoFar' /\ MovedSoFar'
        BY <1>3, <1>5, ReadingGoesOn
    <2>2. Placed' /\ HasRead' /\ HasMoved'
        BY <1>5, <2>1 DEF Placed, HasRead, HasMoved
    <2> QED BY <1>2, <2>1, <2>2 DEF PagingInv
<1>6. CASE Fits' /\ HasBars' /\ pc' # "reading"
    <2>1. HasRead' /\ HasMoved'
        BY <1>3, <1>6, ReadingEnds
    <2>2. Placed' /\ PagesSoFar' /\ MovedSoFar'
        BY <1>4, <1>6 DEF Placed, PagesSoFar, MovedSoFar, Open
    <2> QED BY <1>2, <2>1, <2>2 DEF PagingInv
<1>7. CASE ~(Fits' /\ HasBars')
    <2>1. Placed' /\ PagesSoFar' /\ MovedSoFar' /\ HasMoved'
        BY <1>7 DEF Placed, PagesSoFar, MovedSoFar, HasMoved
    <2>2. HasRead'
        <3> SUFFICES ASSUME Fits', inserted + removed = 0 PROVE AsItWas(Entries(result))'
            BY <1>2 DEF HasRead
        <3>1. op = StockFullKLine /\ before = << >> /\ list = << >>
            BY <1>1, <1>3, <1>7 DEF HasBars, ListTyped
        <3>2. result' = << >>
            BY <1>1, <1>2, <3>1 DEF NothingOfNothing
        <3>3. op' = StockFullKLine /\ before' = << >>
            BY <1>2, <1>3, <3>1
        <3>4. AsItWas(<< >>)' /\ Entries(<< >>) = << >>
            <4>1. AsItWas(<< >>) /\ Entries(<< >>) = << >>
                BY <1>1, <3>1, NothingWas
            <4>2. op.limit # "size"
                BY <1>1, <3>1, AskedIs DEF Regular
            <4>3. Wanted' = Wanted /\ before' = before
                BY <1>1, <1>2, Still
            <4> QED BY <1>3, <4>1, <4>2, <4>3 DEF AsItWas
        <3>5. Entries(result)' = << >>
            BY <3>2, <3>4
        <3> QED BY <3>4, <3>5 DEF AsItWas
    <2> QED BY <1>2, <2>1, <2>2 DEF PagingInv
<1> QED BY <1>4, <1>5, <1>6, <1>7

\* A page of bars is read up to the one at which the caller stops.
LEMMA FoundKeeps ==
    ASSUME PagingInv, Found
    PROVE  PagingInv'
<1> DEFINE any == PageOf(start % op.wire)
           page == PageOf(start)
           m == Match(page)
           p == SubSeq(page, 1, m)
           next == start + m
           known == Shown(before)
<1>1. PagedTyped /\ ListTyped /\ pc = "reading"
    BY DEF PagingInv, Found
<1>2. UNCHANGED <<call, list, before, inserted, removed, start, left>> /\ pc' = "done"
      /\ Match(any) # 0 /\ result' = Joined(SubSeq(any, 1, Match(any)))
    BY DEF Found, server
<1>3. /\ op \in Operation /\ Regular(op) /\ start \in Nat /\ Asked \in Nat /\ Asked <= Page
      /\ (op # StockFullKLine => call.until = 0) /\ call.until \in 0..MaxLen
      /\ (op.limit # "count" => call.start = 0)
    BY <1>1, AskedIs
<1>4. any \in Seq(Nat \ {0}) /\ Len(any) \in Nat /\ (list = << >> => any = << >>)
    BY <1>1, PageTyped
<1>5. Match(any) \in 1..Len(any) /\ any[Match(any)] = call.until
    <2> HIDE DEF any
    <2> QED BY <1>2, <1>4, MatchIs
<1>6. op = StockFullKLine /\ list # << >>
    <2> HIDE DEF any
    <2>1. any[Match(any)] # 0
        BY <1>4, <1>5, ElementOfSeq
    <2>2. any # << >>
        <3>1. Len(<< >>) = 0
            OBVIOUS
        <3> QED BY <1>5, <3>1
    <2> QED BY <1>3, <1>4, <1>5, <2>1, <2>2
<1>7. /\ op' = op /\ Wanted' = Wanted /\ (HasBars' <=> HasBars) /\ (Fits' => Fits)
    BY <1>1, <1>2, Still
<1>8. op.front /\ op.newest /\ op.bars /\ op.limit = "none" /\ call.start = 0
    BY <1>3, <1>6 DEF Regular
<1>9. result' \in Seq(Nat \ {0}) /\ result' \in Seq(Int)
    <2> HIDE DEF any
    <2>1. Match(any) \in Nat /\ Match(any) <= Len(any) /\ 0 \in Nat
        BY <1>4, <1>5
    <2>2. SubSeq(any, 1, Match(any)) \in Seq(Nat \ {0})
        BY <1>4, <2>1, StretchIs DEF Stretch
    <2>3. result \in Seq(Nat \ {0})
        <3>1. result \in Seq(1..(MaxLen + inserted))
            BY <1>1 DEF PagedTyped
        <3>2. 1..(MaxLen + inserted) \subseteq Nat \ {0}
            BY <1>1, PageSizes DEF ListTyped
        <3> QED BY <3>1, <3>2, SeqMonotonic
    <2>4. result' \in Seq(Nat \ {0})
        BY <1>2, <2>2, <2>3, JoinedFacts
    <2> QED BY <2>4, SeqMonotonic
<1>10. PagedTyped'
    <2>1. op' = op /\ inserted' = inserted /\ call' = call /\ start' = start /\ left' = left
        BY <1>2, <1>7
    <2> QED BY <1>1, <1>2, <1>9, <2>1 DEF PagedTyped
<1>11. ListTyped' /\ NothingOfNothing'
    BY <1>1, <1>2, <1>6, <1>7 DEF ListTyped, NothingOfNothing
<1>12. OpeningsInPlace'
    <2>1. \A i \in DOMAIN result' : result'[i] \in Nat \ {0}
        BY <1>9
    <2> QED BY <2>1 DEF OpeningsInPlace
<1>13. Placed' /\ PagesSoFar' /\ MovedSoFar'
    BY <1>2 DEF Placed, PagesSoFar, MovedSoFar, Open
<1>14. op.bars \in BOOLEAN /\ before \in Seq(1..MaxLen) /\ list \in Seq(1..(MaxLen + inserted))
       /\ Len(list) \in Nat /\ Len(before) \in Nat /\ inserted \in Nat /\ removed \in Nat
       /\ DOMAIN list = 1..Len(list) /\ DOMAIN before = 1..Len(before)
    BY <1>1, <1>3 DEF Regular, ListTyped
<1>15. ASSUME Fits, HasBars
       PROVE  /\ result' = Joined(p) /\ Entries(result)' = Joined(p)
              /\ next \in Nat /\ next <= Len(Shown(list)) /\ 1 <= next /\ list[next] = call.until
              /\ inserted + removed = 0 => Joined(p) = InOrderOfCall(Stretch(known, call.start, next))
              /\ Repeated(Joined(p)) <= inserted
              /\ Cardinality((ToSet(Wanted) \cap Passed(next)) \ ToSet(Joined(p))) <= removed
              /\ IsFiniteSet((ToSet(Wanted) \cap Passed(next)) \ ToSet(Joined(p)))
    <2>1. AtPage
        BY <1>1, <1>15 DEF PagingInv, Placed, Open
    <2>2. /\ start % op.wire = start /\ page \in Seq(Nat \ {0}) /\ Len(page) \in Nat /\ Len(page) <= Asked
          /\ Len(page) = 0 \/ start + Len(page) <= Len(Shown(list))
          /\ \A i \in 1..Len(page) : page[i] = list[start + i]
        BY <1>1, <2>1, PageIs
    <2>3. any = page
        BY <2>2
    <2>4. m \in 1..Len(page) /\ page[m] = call.until /\ result' = Joined(p)
        BY <1>2, <1>5, <2>3
    <2>5. Len(Shown(list)) \in Nat
        BY <1>14, ShownFacts
    <2> HIDE DEF any, page, m
    <2>6. m \in Nat /\ 1 <= m /\ m <= Len(page) /\ m <= Page /\ next \in Nat /\ next <= Len(Shown(list)) /\ 1 <= next
        BY <1>3, <2>2, <2>4, <2>5, PageSizes
    <2>7. p \in Seq(Nat \ {0}) /\ Len(p) = m /\ \A i \in 1..m : p[i] = page[i]
        <3>1. \A i \in 1..m : page[i] \in Nat \ {0}
            <4>1. \A i \in 1..m : i \in 1..Len(page)
                BY <2>2, <2>6
            <4> QED BY <2>2, <4>1, ElementOfSeq
        <3>2. /\ SubSeq(page, 1, m) \in Seq(Nat \ {0})
              /\ Len(SubSeq(page, 1, m)) = (IF 1 <= m THEN m - 1 + 1 ELSE 0)
              /\ \A i \in 1..(m - 1 + 1) : SubSeq(page, 1, m)[i] = page[1 + i - 1]
            BY <2>6, <3>1, SubSeqProperties
        <3>3. Len(SubSeq(page, 1, m)) = m
            BY <2>6, <3>2
        <3>4. \A i \in 1..m : SubSeq(page, 1, m)[i] = page[i]
            <4>1. m - 1 + 1 = m /\ \A i \in 1..m : 1 + i - 1 = i
                BY <2>6
            <4> QED BY <3>2, <4>1
        <3> QED BY <3>2, <3>3, <3>4
    <2> HIDE DEF p
    <2>8. \A i \in 1..Len(p) : p[i] = list[start + i]
        <3>1. \A i \in 1..m : i \in 1..Len(page)
            BY <2>2, <2>6
        <3> QED BY <2>2, <2>7, <3>1
    <2>9. start + Len(p) <= Len(Shown(list)) /\ Len(p) <= Page /\ start + Len(p) = next
        BY <2>6, <2>7
    <2>10. /\ inserted + removed = 0 => Joined(p) = InOrderOfCall(Stretch(known, call.start, next))
           /\ Repeated(Joined(p)) <= inserted
           /\ Cardinality((ToSet(Wanted) \cap Passed(next)) \ ToSet(Joined(p))) <= removed
           /\ IsFiniteSet((ToSet(Wanted) \cap Passed(next)) \ ToSet(Joined(p)))
        BY <1>1, <1>8, <1>15, <2>7, <2>8, <2>9, PieceRead
    <2>11. list[next] = call.until
        BY <2>2, <2>4
    <2>12. Entries(result)' = Joined(p)
        BY <1>9, <2>4, AllEntries
    <2> QED BY <2>4, <2>6, <2>10, <2>11, <2>12
<1>16. Len(Shown(list)) = Len(list) - 1
    BY <1>6, <1>8, <1>14, ShownFacts
<1>17. known \in Seq(1..MaxLen) /\ (before # << >> => Len(known) = Len(before) - 1)
       /\ \A i \in 1..Len(known) : known[i] = before[i]
    BY <1>8, <1>14, ShownFacts
<1> HIDE DEF any, page, m, p, next, known
<1>18. HasRead'
    <2> SUFFICES ASSUME Fits', inserted + removed = 0 PROVE AsItWas(Entries(result))'
        BY <1>2 DEF HasRead
    <2>1. list = before
        BY <1>1 DEF ListTyped
    <2>2. HasBars
        BY <1>6, <2>1 DEF HasBars
    <2>3. next \in 1..Len(known) /\ known[next] = call.until
        <3>1. Shown(list) = known
            BY <2>1 DEF Shown, known
        <3>2. Len(known) \in Nat
            BY <1>17
        <3>3. next \in 1..Len(known)
            BY <1>7, <1>15, <2>2, <3>1, <3>2
        <3> QED BY <1>7, <1>15, <1>17, <2>1, <2>2, <3>3
    <2>4. Wanted = Stretch(known, 0, next)
        BY <1>1, <1>8, <2>3, WantedIs DEF known
    <2>5. Entries(result)' = InOrderOfCall(Wanted)
        BY <1>7, <1>8, <1>15, <2>2, <2>4
    <2>6. Entries(result)' = Reverse(Wanted)
        BY <1>8, <2>5 DEF InOrderOfCall
    <2> QED BY <1>7, <1>8, <2>6 DEF AsItWas
<1>19. HasMoved'
    <2> SUFFICES ASSUME Fits', HasBars'
                 PROVE  (/\ Repeated(Entries(result)) <= inserted
                         /\ Cardinality(Missed(Entries(result))) <= removed + (IF op.limit = "count" THEN inserted ELSE 0))'
        BY DEF HasMoved
    <2>1. Fits /\ HasBars /\ before # << >>
        BY <1>6, <1>7 DEF HasBars
    <2>2. removed = 0 /\ (\A i \in 1..inserted : list[i] > MaxLen) /\ Len(list) + removed = Len(before) + inserted
          /\ (\A i \in DOMAIN before : list[inserted + i] = before[i])
        BY <1>1, <1>8 DEF ListTyped
    <2>3. Len(list) = Len(before) + inserted /\ Len(known) = Len(before) - 1
        <3>1. Len(list) \in Nat /\ Len(before) \in Nat /\ inserted \in Nat
            BY <1>14
        <3>2. Len(list) = Len(before) + inserted
            BY <2>2, <3>1
        <3> QED BY <1>17, <2>1, <3>2
    <2>4. next \in Nat /\ 1 <= next /\ next <= Len(list) - 1 /\ list[next] = call.until
        BY <1>15, <1>16, <2>1
    <2>5. next > inserted
        <3> SUFFICES ASSUME ~(next > inserted) PROVE FALSE
            OBVIOUS
        <3>1. next \in 1..inserted
            BY <1>14, <2>4
        <3>2. list[next] > MaxLen
            BY <2>2, <3>1
        <3> QED BY <1>3, <2>4, <3>2, PageSizes
    <2> DEFINE k == next - inserted
    <2>6. k \in 1..Len(known) /\ k \in 1..Len(before) /\ inserted + k = next
        <3>1. Len(known) \in Nat
            BY <1>17
        <3> QED BY <1>14, <2>3, <2>4, <2>5, <3>1
    <2> HIDE DEF k
    <2>7. known[k] = call.until
        <3>1. list[inserted + k] = before[k]
            BY <1>14, <2>2, <2>6
        <3> QED BY <1>17, <2>4, <2>6, <3>1
    <2>8. Wanted = Stretch(known, 0, k)
        BY <1>1, <1>8, <2>6, <2>7, WantedIs DEF known
    <2>9. Wanted \in Seq(1..MaxLen) /\ Len(Wanted) = k /\ \A i \in 1..k : Wanted[i] = known[0 + i]
        <3>1. k \in Nat /\ 0 < k /\ k <= Len(known) /\ k - 0 = k
            BY <1>17, <2>6
        <3>2. /\ Stretch(known, 0, k) \in Seq(1..MaxLen)
              /\ Len(Stretch(known, 0, k)) = (IF 0 < k THEN k - 0 ELSE 0)
              /\ \A i \in 1..Len(Stretch(known, 0, k)) : Stretch(known, 0, k)[i] = known[0 + i]
            BY <1>17, <3>1, StretchIs
        <3> QED BY <2>8, <3>1, <3>2
    <2>10. ToSet(Wanted) \subseteq Passed(next)
        <3> SUFFICES ASSUME NEW i \in 1..k PROVE Wanted[i] \in Passed(next)
            <4>1. DOMAIN Wanted = 1..k
                BY <2>9
            <4> QED BY <4>1 DEF ToSet
        <3>1. i \in Nat /\ 0 + i = i /\ i \in 1..Len(known) /\ i \in 1..Len(before) /\ inserted + i <= next
              /\ inserted + i \in 1..Len(list)
            BY <1>14, <1>17, <2>3, <2>4, <2>6
        <3>2. Wanted[i] = before[i]
            BY <1>17, <2>9, <3>1
        <3>3. before[i] = list[inserted + i]
            BY <1>14, <2>2, <3>1
        <3> QED BY <1>14, <3>1, <3>2, <3>3 DEF Passed
    <2> DEFINE A == (ToSet(Wanted) \cap Passed(next)) \ ToSet(Joined(p))
    <2>11. Missed(Joined(p)) \subseteq A
        BY <2>10 DEF Missed
    <2>12. IsFiniteSet(A) /\ Cardinality(A) <= removed
        BY <1>15, <2>1
    <2> HIDE DEF A
    <2>13. Cardinality(Missed(Joined(p))) <= removed
        <3>1. Cardinality(Missed(Joined(p))) \in Nat /\ Cardinality(A) \in Nat /\ Cardinality(Missed(Joined(p))) <= Cardinality(A)
            BY <2>11, <2>12, Part
        <3> QED BY <1>14, <2>12, <3>1
    <2>14. Entries(result)' = Joined(p) /\ Repeated(Joined(p)) <= inserted
        BY <1>15, <2>1
    <2>15. Missed(Entries(result))' = Missed(Joined(p))
        BY <1>2, <1>7, <2>14 DEF Missed
    <2>16. Repeated(Entries(result))' = Repeated(Joined(p))
        BY <2>14 DEF Repeated
    <2>17. Cardinality(Missed(Joined(p))) <= removed + (IF op.limit = "count" THEN inserted ELSE 0)
        BY <1>8, <1>14, <2>13
    <2> QED BY <1>2, <1>7, <2>14, <2>15, <2>16, <2>17
<1> QED BY <1>10, <1>11, <1>12, <1>13, <1>18, <1>19 DEF PagingInv

\* A call ends without an answer, or with a panic.
LEMMA EndsBadly ==
    ASSUME PagingInv, pc # "done", pc' \in {"error", "panic"}, UNCHANGED <<call, locals, server>>
    PROVE  PagingInv'
<1>1. PagedTyped /\ ListTyped /\ NothingOfNothing /\ OpeningsInPlace
    BY DEF PagingInv
<1>2. /\ call' = call /\ start' = start /\ left' = left /\ result' = result
      /\ list' = list /\ before' = before /\ inserted' = inserted /\ removed' = removed
    BY DEF locals, server
<1>3. op' = op
    BY <1>2 DEF op
<1>4. PagedTyped'
    BY <1>1, <1>2, <1>3 DEF PagedTyped
<1>5. ListTyped' /\ NothingOfNothing' /\ OpeningsInPlace'
    BY <1>1, <1>2, <1>3 DEF ListTyped, NothingOfNothing, OpeningsInPlace
<1>6. Placed' /\ PagesSoFar' /\ MovedSoFar' /\ HasRead' /\ HasMoved'
    BY DEF Placed, PagesSoFar, MovedSoFar, HasRead, HasMoved, Open
<1> QED BY <1>4, <1>5, <1>6 DEF PagingInv

\* The size of a file is asked for.
LEMMA AskSizeKeeps ==
    ASSUME PagingInv, AskSize
    PROVE  PagingInv'
<1>1. PagedTyped /\ ListTyped /\ NothingOfNothing /\ OpeningsInPlace /\ Placed /\ PagesSoFar
    BY DEF PagingInv
<1>2. /\ pc = "meta" /\ pc' = "reading" /\ left' \in {0, Len(list)}
      /\ call' = call /\ start' = start /\ result' = result
      /\ list' = list /\ before' = before /\ inserted' = inserted /\ removed' = removed
    BY DEF AskSize, server
<1>3. op.limit = "size" /\ op' = op
    BY <1>1, <1>2 DEF PagedTyped, op
<1>4. /\ (HasBars' <=> HasBars) /\ (Fits' => Fits) /\ Shown(before)' = Shown(before)
    BY <1>1, <1>2, Still
<1>5. left' \in 0..MaxLen
    <2>1. Len(list) \in Nat /\ Len(list) <= MaxLen
        BY <1>1 DEF ListTyped
    <2> QED BY <1>2, <2>1, PageSizes
<1>6. PagedTyped'
    BY <1>1, <1>2, <1>3, <1>5 DEF PagedTyped
<1>7. ListTyped' /\ NothingOfNothing' /\ OpeningsInPlace'
    BY <1>1, <1>2, <1>3 DEF ListTyped, NothingOfNothing, OpeningsInPlace
<1>8. Placed'
    <2> SUFFICES ASSUME Fits', HasBars' PROVE AtPage'
        BY DEF Placed
    <2>1. AtPage
        BY <1>1, <1>2, <1>4 DEF Placed, Open
    <2>2. WholePages(call.start, start)' <=> WholePages(call.start, start)
        BY <1>2 DEF WholePages
    <2> QED BY <1>2, <1>3, <2>1, <2>2 DEF AtPage
<1>9. PagesSoFar'
    <2> SUFFICES ASSUME inserted + removed = 0, Fits', HasBars'
                 PROVE  (/\ start = call.start \/ start <= Len(Shown(before))
                         /\ result = InOrderOfCall(Stretch(Shown(before), call.start, start))
                         /\ \A i \in DOMAIN Shown(before) : i <= start => Shown(before)[i] # call.until)'
        BY <1>2 DEF PagesSoFar
    <2>1. /\ start = call.start \/ start <= Len(Shown(before))
          /\ result = InOrderOfCall(Stretch(Shown(before), call.start, start))
          /\ \A i \in DOMAIN Shown(before) : i <= start => Shown(before)[i] # call.until
        BY <1>1, <1>2, <1>4 DEF PagesSoFar, Open
    <2>2. (result = InOrderOfCall(Stretch(Shown(before), call.start, start)))'
        BY <1>2, <1>3, <1>4, <2>1 DEF InOrderOfCall
    <2> QED BY <1>2, <1>4, <2>1, <2>2
<1>10. MovedSoFar' /\ HasRead' /\ HasMoved'
    BY <1>2, <1>3 DEF MovedSoFar, HasRead, HasMoved
<1> QED BY <1>6, <1>7, <1>8, <1>9, <1>10 DEF PagingInv

\* The opening bars are put before their bars.
LEMMA OpeningsKeep ==
    ASSUME PagingInv, AddOpenings
    PROVE  PagingInv'
<1>1. PagedTyped /\ ListTyped /\ NothingOfNothing /\ HasRead /\ HasMoved
    BY DEF PagingInv
<1>2. PICK days : result' = WithOpening(days)
    BY DEF AddOpenings
<1>3. /\ pc = "opening" /\ pc' = "done" /\ call' = call /\ start' = start /\ left' = left
      /\ list' = list /\ before' = before /\ inserted' = inserted /\ removed' = removed
    BY DEF AddOpenings, server
<1>4. op' = op /\ Wanted' = Wanted /\ (HasBars' <=> HasBars) /\ (Fits' => Fits)
    BY <1>1, <1>3, Still
<1>5. result \in Seq(Nat \ {0})
    <2>1. result \in Seq(1..(MaxLen + inserted))
        BY <1>1, <1>3 DEF PagedTyped
    <2>2. 1..(MaxLen + inserted) \subseteq Nat \ {0}
        BY <1>1, PageSizes DEF ListTyped
    <2> QED BY <2>1, <2>2, SeqMonotonic
<1>6. /\ result' \in Seq(Int) /\ InPlace(result') /\ Entries(result') = result
      /\ result = << >> => result' = << >>
    BY <1>2, <1>5, Openings
<1>7. Entries(result)' = Entries(result)
    BY <1>5, <1>6, AllEntries
<1>8. PagedTyped'
    BY <1>1, <1>3, <1>4, <1>6 DEF PagedTyped
<1>9. ListTyped' /\ NothingOfNothing'
    BY <1>1, <1>3, <1>4, <1>6 DEF ListTyped, NothingOfNothing
<1>10. OpeningsInPlace'
    BY <1>6 DEF OpeningsInPlace, InPlace
<1>11. Placed' /\ PagesSoFar' /\ MovedSoFar'
    BY <1>3 DEF Placed, PagesSoFar, MovedSoFar, Open
<1>12. HasRead'
    <2> SUFFICES ASSUME Fits', inserted + removed = 0 PROVE AsItWas(Entries(result))'
        BY <1>3 DEF HasRead
    <2>1. AsItWas(Entries(result))
        BY <1>1, <1>3, <1>4 DEF HasRead
    <2> QED BY <1>3, <1>4, <1>7, <2>1 DEF AsItWas
<1>13. HasMoved'
    <2> SUFFICES ASSUME Fits', HasBars', (op.limit # "size")'
                 PROVE  (/\ Repeated(Entries(result)) <= inserted
                         /\ Cardinality(Missed(Entries(result))) <= removed + (IF op.limit = "count" THEN inserted ELSE 0))'
        BY DEF HasMoved
    <2>1. /\ Repeated(Entries(result)) <= inserted
          /\ Cardinality(Missed(Entries(result))) <= removed + (IF op.limit = "count" THEN inserted ELSE 0)
        BY <1>1, <1>3, <1>4 DEF HasMoved
    <2>2. Missed(Entries(result))' = Missed(Entries(result))
        BY <1>3, <1>4, <1>7 DEF Missed
    <2>3. Repeated(Entries(result))' = Repeated(Entries(result))
        BY <1>7 DEF Repeated
    <2> QED BY <1>3, <1>4, <2>1, <2>2, <2>3
<1> QED BY <1>8, <1>9, <1>10, <1>11, <1>12, <1>13 DEF PagingInv

\* Nothing happens.
LEMMA PagingStays ==
    ASSUME PagingInv, UNCHANGED pagingVars
    PROVE  PagingInv'
<1>1. /\ call' = call /\ pc' = pc /\ start' = start /\ left' = left /\ result' = result
      /\ list' = list /\ before' = before /\ inserted' = inserted /\ removed' = removed
    BY DEF pagingVars
<1>2. PagedTyped' /\ ListTyped' /\ NothingOfNothing' /\ OpeningsInPlace'
    BY <1>1 DEF PagingInv, PagedTyped, ListTyped, NothingOfNothing, OpeningsInPlace, op
<1>3. PagedTyped /\ ListTyped
    BY DEF PagingInv
<1>4. op' = op /\ Wanted' = Wanted /\ (HasBars' <=> HasBars) /\ (Fits' => Fits) /\ Shown(before)' = Shown(before)
    BY <1>1, <1>3, Still
<1>5. /\ Ahead(start)' = Ahead(start) /\ Passed(start)' = Passed(start)
      /\ Ahead(call.start + call.count)' = Ahead(call.start + call.count)
    BY <1>1 DEF Ahead, Passed
<1>6. Placed'
    <2>1. AtPage => AtPage'
        BY <1>1, <1>4 DEF AtPage, WholePages
    <2> QED BY <1>1, <1>4, <2>1 DEF PagingInv, Placed, Open
<1>7. PagesSoFar'
    <2>1. InOrderOfCall(Stretch(Shown(before), call.start, start))' = InOrderOfCall(Stretch(Shown(before), call.start, start))
        BY <1>1, <1>4 DEF InOrderOfCall
    <2> QED BY <1>1, <1>4, <2>1 DEF PagingInv, PagesSoFar, Open
<1>8. MovedSoFar'
    BY <1>1, <1>4, <1>5 DEF PagingInv, MovedSoFar, Open
<1>9. Entries(result)' = Entries(result)
    BY <1>1
<1>10. HasRead'
    <2>1. AsItWas(Entries(result)) => AsItWas(Entries(result))'
        BY <1>1, <1>4, <1>9 DEF AsItWas
    <2> QED BY <1>1, <1>4, <2>1 DEF PagingInv, HasRead
<1>11. HasMoved'
    <2>1. Missed(Entries(result))' = Missed(Entries(result))
        BY <1>1, <1>4, <1>9 DEF Missed
    <2>2. Repeated(Entries(result))' = Repeated(Entries(result))
        BY <1>9
    <2> QED BY <1>1, <1>4, <2>1, <2>2 DEF PagingInv, HasMoved
<1> QED BY <1>2, <1>6, <1>7, <1>8, <1>10, <1>11 DEF PagingInv

-----------------------------------------------------------------------------
(* The theorems.                                                           *)

\* Every step of the call and of the server keeps the invariant.
LEMMA PagingKeeps ==
    ASSUME PagingInv, [PagingNext]_pagingVars
    PROVE  PagingInv'
<1>1. CASE AskSize
    BY <1>1, AskSizeKeeps
<1>2. CASE Found
    BY <1>2, FoundKeeps
<1>3. CASE ReadPage
    BY <1>3, ReadKeeps
<1>4. CASE TooFar
    BY <1>4, EndsBadly DEF TooFar
<1>5. CASE AddOpenings
    BY <1>5, OpeningsKeep
<1>6. CASE QueryFails
    BY <1>6, EndsBadly DEF QueryFails
<1>7. CASE NoDeals
    BY <1>7, EndsBadly DEF NoDeals
<1>8. CASE Insert
    BY <1>8, InsertKeeps
<1>9. CASE Remove1
    BY <1>9, RemoveKeeps
<1>10. CASE UNCHANGED pagingVars
    BY <1>10, PagingStays
<1> QED BY <1>1, <1>2, <1>3, <1>4, <1>5, <1>6, <1>7, <1>8, <1>9, <1>10 DEF PagingNext, Answered

\* In every reachable state: where the call is, what it has read of the list as it was or has
\* become, and how far it can be off.
THEOREM PagingInvariant == PagingSpec => []PagingInv
<1>1. PagingInit => PagingInv
    BY InitPaging
<1>2. PagingInv /\ [PagingNext]_pagingVars => PagingInv'
    BY PagingKeeps
<1> QED BY <1>1, <1>2, PTL DEF PagingSpec

\* PagingTypeOK is what the composition of the calls takes from it.
LEMMA PagingTyped == PagingInv => PagingTypeOK
<1> SUFFICES ASSUME PagingInv PROVE PagingTypeOK
    OBVIOUS
<1>1. PagedTyped /\ ListTyped
    BY DEF PagingInv
<1>2. ToSet(list) \subseteq 1..(MaxLen + MaxChanges)
    <2>1. list \in Seq(1..(MaxLen + inserted)) /\ inserted \in Nat /\ removed \in Nat /\ inserted + removed <= MaxChanges
        BY <1>1 DEF ListTyped
    <2>2. 1..(MaxLen + inserted) \subseteq 1..(MaxLen + MaxChanges)
        <3>1. inserted <= MaxChanges
            BY <2>1, PageSizes
        <3> QED BY <2>1, <3>1, WiderRange, PageSizes
    <2>3. DOMAIN list = 1..Len(list)
        BY <2>1
    <2>4. \A i \in 1..Len(list) : list[i] \in 1..(MaxLen + inserted)
        BY <2>1, ElementOfSeq
    <2> QED BY <2>2, <2>3, <2>4 DEF ToSet
<1> QED BY <1>1, <1>2 DEF PagingTypeOK, PagedTyped, ListTyped

\* The types of the paged calls: in every state the offset is in the range of its variable, the
\* list within its bounds, and the number of its changes.
THEOREM PagingTypes == PagingSpec => []PagingTypeOK
BY PagingInvariant, PagingTyped, PTL

\* Exact is part of the invariant.
LEMMA PagingExact == PagingInv => Exact
BY DEF PagingInv, OpeningsInPlace, HasRead, Exact

\* Exact: whatever the sizes of pages, offsets and lists, a list that stays as it is while
\* StockAll, StockFullKLine, MACSymbolBars or any of the other paged calls reads it is returned as
\* it is, as far as its offsets can be told to the server.
THEOREM PagesExact == PagingSpec => []Exact
BY PagingInvariant, PagingExact, PTL

\* Drift is, of a stock that has a bar.
LEMMA PagingDrift == PagingInv /\ HasBars => Drift
BY DEF PagingInv, HasMoved, Drift

\* A stock has bars when the call is made, or has none.
LEMMA HasBarsStays == HasBars /\ [PagingNext]_pagingVars => HasBars'
<1> SUFFICES ASSUME HasBars, [PagingNext]_pagingVars PROVE HasBars'
    OBVIOUS
<1>1. call' = call /\ before' = before
    BY DEF PagingNext, Answered, AskSize, Found, ReadPage, TooFar, AddOpenings, QueryFails, NoDeals, Insert, Remove1,
           pagingVars, server
<1> QED BY <1>1, WantedStays

\* Drift: a list that moves while it is read costs a call at most one entry read twice for each
\* that was added, and at most one missed for each that was removed or pushed out of reach; of a
\* stock whose bars StockFullKLine asks for, if it has one.
THEOREM PagesDrift == PagingSpec /\ HasBars => []Drift
<1>1. PagingInit => PagingInv
    BY InitPaging
<1>2. PagingInv /\ [PagingNext]_pagingVars => PagingInv'
    BY PagingKeeps
<1>3. HasBars /\ [PagingNext]_pagingVars => HasBars'
    BY HasBarsStays
<1>4. PagingInv /\ HasBars => Drift
    BY PagingDrift
<1> QED BY <1>1, <1>2, <1>3, <1>4, PTL DEF PagingSpec
=============================================================================
