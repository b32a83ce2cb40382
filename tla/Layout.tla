------------------------------- MODULE Layout -------------------------------
(***************************************************************************)
(* The words in which the messages of the wire protocols are described:    *)
(* how long a request is, and which steps ParseResponse takes over the     *)
(* bytes of a reply.  A step may look first whether there are enough bytes *)
(* left; Messages says what becomes of one that finds too few.             *)
(***************************************************************************)
EXTENDS Integers, Sequences, SequencesExt

\* A step: it wants so many bytes to be left ("sure": as many as its numbers have), reads
\* fixed ones and numbers of variable length, passes over others, and takes what is left
\* if "rest".  "firm": bytes are taken by index, or from a slice made to measure, and not
\* by slicing.  "short" is how the call ends when there are fewer than wanted; "value":
\* what was read may be refused; "last": it may be the last step, by what it read.
Raw(n) == [need |-> 0, take |-> n, numbers |-> 0, pass |-> 0, rest |-> FALSE, firm |-> FALSE,
           sure |-> FALSE, short |-> "error", value |-> FALSE, last |-> FALSE]
Firm(n) == [Raw(n) EXCEPT !.firm = TRUE]

\* The same, with the length looked at first.
Checked(n) == [Raw(n) EXCEPT !.need = n]

\* The length looked at is not the length read.
Guarded(need, n) == [Raw(n) EXCEPT !.need = need]

\* A part that a reply may lack: nothing follows then, and it is no error.
Optional(n) == [Checked(n) EXCEPT !.short = "ok"]

\* getprice: a number of one or more bytes, the last one without its top bit.
Numbers(n) == [Firm(0) EXCEPT !.numbers = n]

\* readPriceField: the number's last byte is looked for first.
CheckedNumbers(n) == [Numbers(n) EXCEPT !.sure = TRUE]
Pass(n) == [Raw(0) EXCEPT !.pass = n]
Rest == [Raw(0) EXCEPT !.rest = TRUE]
Refusing(s) == [s EXCEPT !.value = TRUE]
MayEnd(s) == [s EXCEPT !.last = TRUE]

\* The request: its fields, what is added for each stock, and the length announced in
\* its header, which counts the method and the body.  The reply: the steps at its head,
\* those of each entry, how the number of entries comes from the number announced, the
\* steps after the entries; "bars": the first entry is left out of the list, and the
\* number reported is one less.
Message == [fields |-> << >>, stock |-> 0, base |-> 2, each |-> 0,
            head |-> << >>, row |-> << >>, rows |-> "counted", tail |-> << >>, bars |-> FALSE]

\* The records that describe steps and messages.
StepRecords ==
  [need : Nat, take : Nat, numbers : Nat, pass : Nat, rest : BOOLEAN, firm : BOOLEAN,
   sure : BOOLEAN, short : {"error", "ok"}, value : BOOLEAN, last : BOOLEAN]
MessageRecords ==
  [fields : Seq(Nat), stock : Nat, base : Nat, each : Nat, head : Seq(StepRecords),
   row : Seq(StepRecords), rows : {"counted", "halved", "nine"}, tail : Seq(StepRecords), bars : BOOLEAN]

\* How long the first i of fields of these lengths are together, and all of them.
UpTo(fields) ==
  LET upTo[i \in 0..Len(fields)] == IF i = 0 THEN 0 ELSE upTo[i - 1] + fields[i]
  IN upTo
Length(fields) == UpTo(fields)[Len(fields)]

\* A length written by hand; lengths computed from the body.
PerStock(length, each, fields, stock) ==
  [Message EXCEPT !.base = length, !.each = each, !.fields = fields, !.stock = stock]
ByHand(length, fields) == PerStock(length, 0, fields, 0)

\* Mutant: the method is not counted.
Built_BodyOnly(fields, stock) == PerStock(Length(fields), stock, fields, stock)

Built(fields, stock) == PerStock(2 + Length(fields), stock, fields, stock)

\* A request and how its reply is read.
Reads(request, head, row) == [request EXCEPT !.head = head, !.row = row]
WithTail(m, tail) == [m EXCEPT !.tail = tail]
Bars(m) == [m EXCEPT !.bars = TRUE]
=============================================================================
