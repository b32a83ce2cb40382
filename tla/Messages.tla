------------------------------ MODULE Messages ------------------------------
(***************************************************************************)
(* A message's request, its reply as the connection delivers it, and the   *)
(* reading of it, step by step.  The reply may be cut anywhere: the length *)
(* in its header is all that exchange compares, and a reply that was       *)
(* compressed is as long as what is unpacked.  Bytes that are taken by     *)
(* index beyond the last one are a panic, which nothing recovers.  Slicing *)
(* beyond the last byte is one too, unless the buffer of a reply that was  *)
(* unpacked has room behind it: then bytes are read that no server sent.   *)
(***************************************************************************)
EXTENDS Integers, Sequences, Layout

CONSTANTS Layouts,   \* each message's layout, by its name
          Trusting,  \* the messages that do not look first
          Narrow,    \* the range of a 16-bit number
          Stocks,    \* how many stocks a request may be about
          MaxCount,  \* bound: a reply announces at most so many entries
          MaxWide    \* bound: bytes of a number

\* A message that looks first wants at least what it reads and passes over.
LooksFirst(s) == IF s.sure THEN s.pass = 0 ELSE s.numbers = 0 /\ s.need >= s.take + s.pass

\* What is left is taken by the last step of all; what is looked for belongs to the step.
InPlace(m) ==
  /\ m.head = << >> => m.row = << >> /\ m.tail = << >>
  /\ \A i \in DOMAIN m.head : m.head[i].rest => i = Len(m.head) /\ m.row = << >> /\ m.tail = << >>
  /\ \A i \in DOMAIN m.row : ~m.row[i].rest
  /\ \A i \in DOMAIN m.tail : m.tail[i].rest => i = Len(m.tail)
  /\ \A part \in {m.head, m.row, m.tail} : \A i \in DOMAIN part :
        LET s == part[i] IN s.short = "error" /\ ~s.sure => s.need <= s.take + s.numbers + s.pass

ASSUME LayoutsAssumption ==
  \A name \in DOMAIN Layouts :
    LET m == Layouts[name]
    IN /\ m \in MessageRecords /\ InPlace(m)
       /\ name \notin Trusting =>
            \A part \in {m.head, m.row, m.tail} : \A i \in DOMAIN part : LooksFirst(part[i])

ASSUME MessagesAssumption ==
  /\ Trusting \subseteq DOMAIN Layouts
  /\ Stocks \subseteq Nat /\ 0 \in Stocks
  /\ Narrow \in Nat \ {0} /\ MaxCount \in Nat /\ MaxWide \in Nat \ {0}

VARIABLES message,  \* which one
          stocks,   \* how many the request is about, 0 when it is sent
          pc,       \* "request", "reading", or how ParseResponse ended
          count,    \* the number of entries the reply announces
          size,     \* its bytes
          wide,     \* bytes of each number in it
          packed,   \* whether it was compressed
          at,       \* the step
          pos       \* the bytes passed

messageVars == <<message, stocks, pc, count, size, wide, packed, at, pos>>

-----------------------------------------------------------------------------
(* The steps of a reply that announces n entries.                          *)

Layout == Layouts[message]

Entries(m, n) ==
  IF m.row = << >> THEN 0 ELSE CASE m.rows = "counted" -> n
                                 [] m.rows = "halved"  -> IF n = 1 THEN 1 ELSE n \div 2
                                 [] m.rows = "nine"    -> 9 * n

Rows(m) == Len(m.head) + Entries(m, count) * Len(m.row)
Steps == LET m == Layout IN Rows(m) + Len(m.tail)
StepAt(i) == LET m == Layout
             IN IF i <= Len(m.head) THEN m.head[i]
                ELSE IF i <= Rows(m) THEN m.row[((i - Len(m.head) - 1) % Len(m.row)) + 1]
                ELSE m.tail[i - Rows(m)]

\* What a step reads, what it passes, and what it wants to be there.
\* Mutant: what is passed is counted twice.
Reach_AndPass(s) == s.take + s.numbers * wide + s.pass

Reach(s) == s.take + s.numbers * wide

\* Mutant: a number's last byte is not looked for.
Wanted_Unsure(s) == s.need
\* Mutant: one byte more than the numbers have is looked for.
Wanted_OneMore(s) == IF s.sure THEN Reach(s) + 1 ELSE s.need

Wanted(s) == IF s.sure THEN Reach(s) ELSE s.need
Left == size - pos

\* The bytes of a reply to which nothing is missing.
BytesOf(steps, width) ==
  Length([i \in DOMAIN steps |-> steps[i].take + steps[i].numbers * width + steps[i].pass])
Complete(m, n, width) ==
  BytesOf(m.head, width) + Entries(m, n) * BytesOf(m.row, width) + BytesOf(m.tail, width)

-----------------------------------------------------------------------------
(* The request.                                                            *)

\* PkgLen1 and PkgLen2, and what follows the header.
Announced == (Layout.base + Layout.each * stocks) % Narrow
Sent == 2 + Length(Layout.fields) + Layout.stock * stocks

-----------------------------------------------------------------------------
(* The reply.                                                              *)

HasNumbers(m) == \E part \in {m.head, m.row, m.tail} : \E i \in DOMAIN part : part[i].numbers > 0

\* Cut anywhere, or with bytes behind it that are nobody's.
Answered ==
  /\ pc = "request"
  /\ count' \in IF Layout.row = << >> THEN {0} ELSE 0..MaxCount
  /\ wide' \in IF HasNumbers(Layout) THEN 1..MaxWide ELSE {1}
  /\ packed' \in BOOLEAN
  /\ size' \in 0..(Complete(Layout, count', wide') + 1)
  /\ pc' = IF Layout.head = << >> THEN "ok" ELSE "reading"
  /\ stocks' = 0
  /\ UNCHANGED <<message, at, pos>>

\* ParseResponse goes on with the next step, or returns after the last.
NextStep ==
  /\ at' = at + 1
  /\ pc' = IF at = Steps THEN "ok" ELSE pc

\* A step that looks how much is left finds too little.
Lacks(s) == Wanted(s) > 0 /\ Left < Wanted(s)

\* One that does not look, or not closely enough, takes what is not there; there is no
\* rest of a reply that was read beyond.  To pass over bytes takes none.
Overruns(s) == ~Lacks(s) /\ Left < Reach(s) /\ (Reach(s) > 0 \/ s.rest)

\* Slicing finds the spare capacity of an inflated reply, instead of a panic.
FindsSpare(s) == packed /\ Overruns(s) /\ ~s.firm /\ ~s.rest

Succeeds(s) == ~Lacks(s) /\ (Overruns(s) => FindsSpare(s))

\* Enough is there.
Read ==
  /\ pc = "reading"
  /\ LET s == StepAt(at)
     IN /\ ~Lacks(s) /\ ~Overruns(s)
        /\ pos' = IF s.rest THEN size ELSE pos + Reach(s) + s.pass
  /\ NextStep
  /\ UNCHANGED <<message, stocks, count, size, wide, packed>>

\* The length is looked at, and something is missing.
TooShort ==
  /\ pc = "reading"
  /\ LET s == StepAt(at)
     IN /\ Lacks(s)
        /\ pc' = s.short
  /\ UNCHANGED <<message, stocks, count, size, wide, packed, at, pos>>

Panics ==
  /\ pc = "reading"
  /\ Overruns(StepAt(at))
  /\ pc' = "panic"
  /\ UNCHANGED <<message, stocks, count, size, wide, packed, at, pos>>

ReadsBeyond ==
  /\ pc = "reading"
  /\ LET s == StepAt(at)
     IN /\ FindsSpare(s)
        /\ pos' = pos + Reach(s) + s.pass
  /\ NextStep
  /\ UNCHANGED <<message, stocks, count, size, wide, packed>>

\* What was read makes no sense: no time, no JSON.
Refuse ==
  /\ pc = "reading"
  /\ LET s == StepAt(at) IN s.value /\ Succeeds(s)
  /\ pc' = "refused"
  /\ UNCHANGED <<message, stocks, count, size, wide, packed, at, pos>>

\* The reply says that there is nothing to tell.
Nothing ==
  /\ pc = "reading"
  /\ LET s == StepAt(at) IN s.last /\ Succeeds(s)
  /\ pc' = "none"
  /\ UNCHANGED <<message, stocks, count, size, wide, packed, at, pos>>

-----------------------------------------------------------------------------
Init ==
  /\ message \in DOMAIN Layouts
  /\ stocks \in IF Layout.stock > 0 THEN Stocks ELSE {0}
  /\ pc = "request"
  /\ count = 0 /\ size = 0 /\ wide = 1 /\ packed = FALSE
  /\ at = 1 /\ pos = 0

Next == Answered \/ Read \/ TooShort \/ Panics \/ ReadsBeyond \/ Refuse \/ Nothing

Spec == Init /\ [][Next]_messageVars

-----------------------------------------------------------------------------
(* Properties.                                                             *)

TypeOK ==
  /\ message \in DOMAIN Layouts /\ stocks \in Stocks
  /\ pc \in {"request", "reading", "ok", "error", "refused", "none", "panic"}
  /\ count \in 0..MaxCount /\ wide \in 1..MaxWide /\ packed \in BOOLEAN
  /\ {size, pos} \subseteq 0..(Complete(Layout, count, wide) + 1)
  /\ at \in 1..(Steps + 1)

\* The length announced to the server is the length of what follows, for every message
\* and every number of stocks for which 16 bits can tell it.
AnnouncedIsSent == Sent < Narrow => Announced = Sent

\* However a reply is cut, no message but those that trust the server panics, or returns
\* values read from bytes that no server sent.
OnlyTrustingOverrun == (pc = "panic" \/ pos > size) => message \in Trusting

\* A reply to which nothing is missing is not found too short, and one to which something
\* is missing is not accepted by a message that looks first: what is returned are all the
\* entries announced, unless the list ends where the bytes end.
WholeOrRefused ==
  /\ pc = "error" => size < Complete(Layout, count, wide)
  /\ pc = "ok" /\ message \notin Trusting =>
       \/ size >= Complete(Layout, count, wide)
       \/ \E i \in 1..Steps : StepAt(i).short = "ok"

\* The number of entries reported is the number of entries returned.  Of bars the first is
\* left out of the list, and the number is one less, in 16 bits.
Least(a, b) == IF a < b THEN a ELSE b
EntriesRead == IF Layout.row = << >> THEN 0
               ELSE (Least(at - 1, Rows(Layout)) - Len(Layout.head)) \div Len(Layout.row)
Returned == IF Layout.bars /\ EntriesRead > 0 THEN EntriesRead - 1 ELSE EntriesRead
Reported == IF Layout.bars THEN (count - 1) % Narrow ELSE Entries(Layout, count)
CountIsLength == pc = "ok" => Reported = Returned
=============================================================================
