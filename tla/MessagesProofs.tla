---------------------------- MODULE MessagesProofs ----------------------------
(***************************************************************************)
(* The reading of a reply, for every length it may have, every number of   *)
(* entries, every width of the numbers and any messages whose layouts are  *)
(* as LayoutsAssumption says; TLC evaluates that of all the messages.      *)
(*                                                                         *)
(* While a reply is read, the bytes passed are those of the steps taken    *)
(* (MessageInv), so that they are never more than a complete reply has     *)
(* (PassedUp): a step that misses bytes misses them because the reply is   *)
(* not complete, and when the last step has been taken all of it has been  *)
(* passed.  A message that looks first for what it reads has it, and does  *)
(* not pass the end.                                                       *)
(*                                                                         *)
(* The bytes of a list of steps are a recursive function; what it adds up  *)
(* to is proved by induction (SetInduction).                               *)
(***************************************************************************)
EXTENDS Messages, SequenceTheorems, NaturalsInduction, WellFoundedInduction, TLAPS

-----------------------------------------------------------------------------
(* Sums.                                                                   *)

\* Natural induction, for a set of numbers: there is no least number missing.
LEMMA SetInduction ==
    ASSUME NEW S, 0 \in S, \A n \in Nat : n \in S => n + 1 \in S
    PROVE  Nat \subseteq S
<1> DEFINE lt == {p \in Nat \X Nat : p[1] < p[2]}
           missing == Nat \ S
<1> SUFFICES ASSUME missing # {} PROVE FALSE
    OBVIOUS
<1>1. IsWellFoundedOn(lt, Nat)
    BY NatLessThanWellFounded DEF OpToRel
<1>2. PICK t \in missing : \A y \in missing : <<y, t>> \notin lt
    <2>1. missing \subseteq Nat
        OBVIOUS
    <2> HIDE DEF lt, missing
    <2> QED BY <1>1, <2>1, WFMin
<1>3. t \in Nat /\ t # 0
    OBVIOUS
<1>4. t - 1 \in Nat /\ (t - 1) + 1 = t /\ t - 1 < t
    BY <1>3
<1>5. t - 1 \in S
    <2>1. <<t - 1, t>> \in lt
        BY <1>3, <1>4
    <2> QED BY <1>2, <1>4, <2>1
<1> QED BY <1>4, <1>5, <1>2

\* UpTo adds up the fields.
LEMMA UpToIs ==
    ASSUME NEW fields \in Seq(Nat)
    PROVE  /\ UpTo(fields)[0] = 0
           /\ \A i \in 0..Len(fields) : UpTo(fields)[i] \in Nat
           /\ \A i \in 1..Len(fields) : UpTo(fields)[i] = UpTo(fields)[i - 1] + fields[i]
<1> DEFINE Sums(n, u) == u = [i \in 0..n |-> IF i = 0 THEN 0 ELSE u[i - 1] + fields[i]]
           S == {n \in Nat : n <= Len(fields) => \E u : Sums(n, u)}
<1>1. 0 \in S
    <2> DEFINE z == [i \in 0..0 |-> 0]
    <2>1. z = [i \in 0..0 |-> IF i = 0 THEN 0 ELSE z[i - 1] + fields[i]]
        OBVIOUS
    <2> QED BY <2>1
<1>2. ASSUME NEW n \in Nat, n \in S PROVE n + 1 \in S
    <2> SUFFICES ASSUME n + 1 <= Len(fields) PROVE \E u : Sums(n + 1, u)
        OBVIOUS
    <2>1. PICK u : Sums(n, u)
        BY <1>2
    <2> DEFINE v == [i \in 0..(n + 1) |-> IF i = n + 1 THEN u[n] + fields[n + 1] ELSE u[i]]
    <2>2. ASSUME NEW i \in 0..(n + 1)
          PROVE  v[i] = IF i = 0 THEN 0 ELSE v[i - 1] + fields[i]
        <3>1. CASE i = n + 1
            BY <3>1
        <3>2. CASE i # n + 1
            <4>1. i \in 0..n /\ v[i] = u[i]
                BY <3>2
            <4>2. u[i] = IF i = 0 THEN 0 ELSE u[i - 1] + fields[i]
                BY <2>1, <4>1
            <4>3. i # 0 => v[i - 1] = u[i - 1]
                BY <4>1
            <4> QED BY <4>1, <4>2, <4>3
        <3> QED BY <3>1, <3>2
    <2>3. Sums(n + 1, v)
        BY <2>2
    <2> QED BY <2>3
<1>3. Nat \subseteq S
    <2> HIDE DEF S
    <2> QED BY <1>1, <1>2, SetInduction
<1>4. \E u : Sums(Len(fields), u)
    BY <1>3
<1>5. Sums(Len(fields), UpTo(fields))
    BY <1>4 DEF UpTo
<1> DEFINE u == UpTo(fields)
<1>6. \A i \in 0..Len(fields) : u[i] = IF i = 0 THEN 0 ELSE u[i - 1] + fields[i]
    BY <1>5
<1> HIDE DEF u
<1>7. u[0] = 0 /\ \A i \in 1..Len(fields) : u[i] = u[i - 1] + fields[i]
    BY <1>6
<1>8. \A i \in 0..Len(fields) : u[i] \in Nat
    <2> DEFINE T == {n \in Nat : n <= Len(fields) => u[n] \in Nat}
    <2>1. 0 \in T
        BY <1>7
    <2>2. ASSUME NEW n \in Nat, n \in T PROVE n + 1 \in T
        <3> SUFFICES ASSUME n + 1 <= Len(fields) PROVE u[n + 1] \in Nat
            OBVIOUS
        <3>1. n + 1 \in 1..Len(fields) /\ (n + 1) - 1 = n
            OBVIOUS
        <3>2. u[n + 1] = u[n] + fields[n + 1] /\ fields[n + 1] \in Nat /\ u[n] \in Nat
            BY <1>7, <2>2, <3>1
        <3> QED BY <3>2
    <2>3. Nat \subseteq T
        <3> HIDE DEF T
        <3> QED BY <2>1, <2>2, SetInduction
    <2> QED BY <2>3
<1> QED BY <1>7, <1>8 DEF u
-----------------------------------------------------------------------------
(* The bytes of the steps.                                                 *)

BytesIn(s, width) == s.take + s.numbers * width + s.pass

\* The bytes of the first i of the steps.
SumTo(steps, width, i) == UpTo([j \in DOMAIN steps |-> steps[j].take + steps[j].numbers * width + steps[j].pass])[i]

\* A step passes a natural number of bytes.
LEMMA BytesInType ==
    ASSUME NEW s \in StepRecords, NEW width \in Nat
    PROVE  BytesIn(s, width) \in Nat
<1>1. \A a, b, c \in Nat : a + b * width + c \in Nat
    OBVIOUS
<1>2. s.take \in Nat /\ s.numbers \in Nat /\ s.pass \in Nat
    BY DEF StepRecords
<1> QED BY <1>1, <1>2 DEF BytesIn

\* SumTo adds up the bytes of the steps.
LEMMA SumIs ==
    ASSUME NEW steps \in Seq(StepRecords), NEW width \in Nat
    PROVE  /\ SumTo(steps, width, 0) = 0
           /\ \A i \in 0..Len(steps) : SumTo(steps, width, i) \in Nat
           /\ \A i \in 1..Len(steps) :
                /\ steps[i] \in StepRecords /\ BytesIn(steps[i], width) \in Nat
                /\ SumTo(steps, width, i) = SumTo(steps, width, i - 1) + BytesIn(steps[i], width)
           /\ BytesOf(steps, width) = SumTo(steps, width, Len(steps))
<1> DEFINE fields == [j \in DOMAIN steps |-> steps[j].take + steps[j].numbers * width + steps[j].pass]
<1>1. DOMAIN steps = 1..Len(steps) /\ Len(steps) \in Nat /\ \A i \in 1..Len(steps) : steps[i] \in StepRecords
    BY LenProperties
<1>2. \A i \in 1..Len(steps) : BytesIn(steps[i], width) \in Nat /\ fields[i] = BytesIn(steps[i], width)
    <2>1. \A i \in 1..Len(steps) : fields[i] = BytesIn(steps[i], width)
        BY <1>1 DEF BytesIn
    <2> QED BY <1>1, <2>1, BytesInType
<1>3. DOMAIN fields = 1..Len(steps)
    BY <1>1
<1>4. \A i : SumTo(steps, width, i) = UpTo(fields)[i]
    BY DEF SumTo
<1>5. BytesOf(steps, width) = UpTo(fields)[Len(fields)]
    BY DEF BytesOf, Length
<1>6. fields \in [1..Len(steps) -> Nat]
    <2>1. \A i \in DOMAIN fields : fields[i] \in Nat
        BY <1>2, <1>3
    <2> QED BY <1>3, <2>1
<1> HIDE DEF fields
<1>7. fields \in Seq(Nat) /\ Len(fields) = Len(steps)
    <2>1. fields \in Seq(Nat)
        BY <1>1, <1>6, IsASeq
    <2> QED BY <1>1, <1>3, <2>1, LenProperties
<1>8. /\ UpTo(fields)[0] = 0
      /\ \A i \in 0..Len(steps) : UpTo(fields)[i] \in Nat
      /\ \A i \in 1..Len(steps) : UpTo(fields)[i] = UpTo(fields)[i - 1] + fields[i]
    BY <1>7, UpToIs
<1>9. \A i \in 1..Len(steps) : SumTo(steps, width, i) = SumTo(steps, width, i - 1) + BytesIn(steps[i], width)
    BY <1>2, <1>4, <1>8
<1>10. BytesOf(steps, width) = SumTo(steps, width, Len(steps))
    BY <1>4, <1>5, <1>7
<1>11. SumTo(steps, width, 0) = 0 /\ \A i \in 0..Len(steps) : SumTo(steps, width, i) \in Nat
    BY <1>4, <1>8
<1> QED BY <1>1, <1>2, <1>9, <1>10, <1>11

\* The i-th step of a reply with n entries, and the bytes of the first i.
StepIn(head, row, tail, n, i) ==
  IF i <= Len(head) THEN head[i]
  ELSE IF i <= Len(head) + n * Len(row) THEN row[((i - Len(head) - 1) % Len(row)) + 1]
  ELSE tail[i - (Len(head) + n * Len(row))]

PassedIn(head, row, tail, n, width, i) ==
  IF i <= Len(head) THEN SumTo(head, width, i)
  ELSE IF i <= Len(head) + n * Len(row)
       THEN SumTo(head, width, Len(head)) + ((i - Len(head)) \div Len(row)) * SumTo(row, width, Len(row))
            + SumTo(row, width, (i - Len(head)) % Len(row))
  ELSE SumTo(head, width, Len(head)) + n * SumTo(row, width, Len(row))
       + SumTo(tail, width, i - (Len(head) + n * Len(row)))

\* The k-th step of the entries is one of an entry, and the (k-1)-th the one before it, or
\* the last of the entry before.
LEMMA InEntries ==
    ASSUME NEW n \in Nat, NEW z \in Nat \ {0}, NEW k \in 1..(n * z)
    PROVE  \E q \in Nat, j \in 1..z :
             /\ q = (k - 1) \div z /\ j = ((k - 1) % z) + 1
             /\ \/ j < z /\ k % z = j /\ k \div z = q
                \/ j = z /\ k % z = 0 /\ k \div z = q + 1
<1>1. PICK q \in Nat, r \in 0..(z - 1) : q = (k - 1) \div z /\ r = (k - 1) % z /\ k - 1 = q * z + r
    OBVIOUS
<1>2. CASE r + 1 < z
    <2>1. k = q * z + (r + 1) /\ r + 1 \in 0..(z - 1)
        BY <1>1, <1>2
    <2>2. k % z = r + 1 /\ k \div z = q
        BY <1>1, <2>1
    <2> QED BY <1>1, <1>2, <2>2
<1>3. CASE r + 1 = z
    <2>1. k = (q + 1) * z + 0
        BY <1>1, <1>3
    <2>2. k % z = 0 /\ k \div z = q + 1
        BY <1>1, <2>1
    <2> QED BY <1>1, <1>3, <2>2
<1> QED BY <1>1, <1>2, <1>3

\* Whole entries divide without a remainder.
LEMMA WholeEntries ==
    ASSUME NEW n \in Nat, NEW z \in Nat \ {0}
    PROVE  (n * z) % z = 0 /\ (n * z) \div z = n
OBVIOUS

\* The i-th step is one of the parts'; its bytes are added to those of the ones before.
IsStep(s, head, row, tail, n, width, i) ==
  /\ \/ i \in DOMAIN head /\ s = head[i]
     \/ \E j \in DOMAIN row : s = row[j]
     \/ \E j \in DOMAIN tail : s = tail[j] /\ i = Len(head) + n * Len(row) + j
  /\ s \in StepRecords
  /\ PassedIn(head, row, tail, n, width, i) = PassedIn(head, row, tail, n, width, i - 1) + BytesIn(s, width)

\* The i-th step of a reply is one of the head, of an entry, or of the tail, and passes its bytes.
LEMMA OneMoreStep ==
    ASSUME NEW head \in Seq(StepRecords), NEW row \in Seq(StepRecords), NEW tail \in Seq(StepRecords),
           NEW n \in Nat, Len(row) = 0 => n = 0, NEW width \in Nat,
           NEW i \in 1..(Len(head) + n * Len(row) + Len(tail)), NEW s, s = StepIn(head, row, tail, n, i)
    PROVE  IsStep(s, head, row, tail, n, width, i)
<1>1. PICK h \in Nat, z \in Nat, t \in Nat : h = Len(head) /\ z = Len(row) /\ t = Len(tail)
    BY LenProperties
<1>2. DOMAIN head = 1..h /\ DOMAIN row = 1..z /\ DOMAIN tail = 1..t
    BY <1>1, LenProperties
<1>3. PICK rows \in Nat : rows = n * z
    OBVIOUS
<1>4. i \in 1..(h + rows + t) /\ i \in Nat /\ (z = 0 => n = 0)
    BY <1>1, <1>3
<1>5. ASSUME NEW part \in Seq(StepRecords)
      PROVE  /\ SumTo(part, width, 0) = 0
             /\ \A j \in 0..Len(part) : SumTo(part, width, j) \in Nat
             /\ \A j \in 1..Len(part) : /\ part[j] \in StepRecords /\ BytesIn(part[j], width) \in Nat
                                        /\ SumTo(part, width, j) = SumTo(part, width, j - 1) + BytesIn(part[j], width)
    BY SumIs
<1>6. PICK A \in Nat, B \in Nat : A = SumTo(head, width, h) /\ B = SumTo(row, width, z)
    <2>1. h \in 0..Len(head) /\ z \in 0..Len(row)
        BY <1>1
    <2> QED BY <2>1, <1>5
<1>7. ASSUME NEW k
      PROVE  /\ StepIn(head, row, tail, n, k) = IF k <= h THEN head[k]
                                                ELSE IF k <= h + rows THEN row[((k - h - 1) % z) + 1]
                                                ELSE tail[k - (h + rows)]
             /\ PassedIn(head, row, tail, n, width, k)
                  = IF k <= h THEN SumTo(head, width, k)
                    ELSE IF k <= h + rows THEN A + ((k - h) \div z) * B + SumTo(row, width, (k - h) % z)
                    ELSE A + n * B + SumTo(tail, width, k - (h + rows))
    BY <1>1, <1>3, <1>6 DEF StepIn, PassedIn
<1> DEFINE P(k) == PassedIn(head, row, tail, n, width, k)
<1> HIDE DEF P
<1>8. SUFFICES /\ \/ i \in DOMAIN head /\ s = head[i]
                  \/ \E j \in DOMAIN row : s = row[j]
                  \/ \E j \in DOMAIN tail : s = tail[j] /\ i = h + rows + j
               /\ s \in StepRecords /\ P(i) = P(i - 1) + BytesIn(s, width)
    BY <1>1, <1>3 DEF P, IsStep
<1>9. CASE i <= h
    <2>1. i \in 1..h /\ i - 1 <= h /\ s = head[i] /\ P(i) = SumTo(head, width, i) /\ P(i - 1) = SumTo(head, width, i - 1)
        BY <1>4, <1>7, <1>9 DEF P
    <2> QED BY <1>1, <1>2, <1>5, <2>1
<1>10. CASE i > h /\ i <= h + rows
    <2>1. PICK k \in 1..rows : i = h + k
        <3>1. i - h \in 1..rows /\ i = h + (i - h)
            BY <1>4, <1>10, SMTT(30)
        <3> QED BY <3>1
    <2>2. z \in Nat \ {0}
        BY <1>3, <1>4, <2>1
    <2>3. PICK q \in Nat, j \in 1..z :
            /\ q = (k - 1) \div z /\ j = ((k - 1) % z) + 1
            /\ \/ j < z /\ k % z = j /\ k \div z = q
               \/ j = z /\ k % z = 0 /\ k \div z = q + 1
        <3>1. k \in 1..(n * z)
            BY <1>3, <2>1
        <3> QED BY <2>2, <3>1, InEntries, ZenonT(30)
    <2>4. /\ row[j] \in StepRecords /\ BytesIn(row[j], width) \in Nat
          /\ SumTo(row, width, j) = SumTo(row, width, j - 1) + BytesIn(row[j], width)
          /\ SumTo(row, width, j - 1) \in Nat /\ SumTo(row, width, 0) = 0
        <3>1. j \in 1..Len(row) /\ j - 1 \in 0..Len(row)
            BY <1>1, <2>3
        <3> QED BY <1>5, <3>1
    <2>5. s = row[j]
        <3>1. ~(i <= h) /\ i <= h + rows /\ i - h - 1 = k - 1
            BY <1>10, <2>1
        <3> QED BY <1>7, <2>3, <3>1
    <2>6. P(i) = A + q * B + SumTo(row, width, j)
        <3>1. ~(i <= h) /\ i <= h + rows /\ i - h = k
            BY <1>10, <2>1
        <3>2. P(i) = A + (k \div z) * B + SumTo(row, width, k % z)
            BY <1>7, <3>1 DEF P
        <3>3. CASE j < z /\ k % z = j /\ k \div z = q
            BY <3>2, <3>3
        <3>4. CASE j = z /\ k % z = 0 /\ k \div z = q + 1
            <4>1. P(i) = A + (q + 1) * B + 0 /\ SumTo(row, width, j) = B
                BY <1>6, <2>4, <3>2, <3>4
            <4> QED BY <4>1
        <3> QED BY <2>3, <3>3, <3>4
    <2>7. P(i - 1) = A + q * B + SumTo(row, width, j - 1)
        <3>1. CASE k = 1
            <4>1. q = 0 /\ j - 1 = 0
                BY <2>2, <2>3, <3>1
            <4>2. P(i - 1) = A
                BY <1>6, <1>7, <2>1, <3>1 DEF P
            <4> QED BY <2>4, <4>1, <4>2
        <3>2. CASE k > 1
            <4>1. ~(i - 1 <= h) /\ i - 1 <= h + rows /\ (i - 1) - h = k - 1 /\ j - 1 = (k - 1) % z
                BY <1>10, <2>1, <2>2, <2>3, <3>2
            <4> QED BY <1>7, <2>3, <4>1 DEF P
        <3> QED BY <2>1, <3>1, <3>2
    <2>8. P(i) = P(i - 1) + BytesIn(s, width)
        <3>1. PICK C \in Nat : C = q * B
            OBVIOUS
        <3> QED BY <2>4, <2>5, <2>6, <2>7, <3>1
    <2> QED BY <1>2, <2>3, <2>4, <2>5, <2>8
<1>11. CASE i > h + rows
    <2>1. PICK j \in 1..t : i = h + rows + j
        <3>1. i - (h + rows) \in 1..t /\ i = h + rows + (i - (h + rows))
            BY <1>4, <1>11, SMTT(30)
        <3> QED BY <3>1
    <2>2. ~(i <= h) /\ ~(i <= h + rows) /\ i - (h + rows) = j
        BY <2>1, SMTT(30)
    <2>3. s = tail[j] /\ P(i) = A + n * B + SumTo(tail, width, j)
        BY <1>7, <2>2 DEF P
    <2>4. /\ tail[j] \in StepRecords /\ BytesIn(tail[j], width) \in Nat
          /\ SumTo(tail, width, j) = SumTo(tail, width, j - 1) + BytesIn(tail[j], width)
          /\ SumTo(tail, width, j - 1) \in Nat /\ SumTo(tail, width, 0) = 0 /\ SumTo(row, width, 0) = 0
        <3>1. j \in 1..Len(tail) /\ j - 1 \in 0..Len(tail)
            BY <1>1, <2>1, SMTT(30)
        <3> QED BY <1>5, <3>1
    <2>5. P(i - 1) = A + n * B + SumTo(tail, width, j - 1)
        <3>1. CASE j > 1
            <4>1. ~(i - 1 <= h) /\ ~(i - 1 <= h + rows) /\ (i - 1) - (h + rows) = j - 1
                BY <2>1, <3>1
            <4> QED BY <1>7, <4>1 DEF P
        <3>2. CASE j = 1 /\ rows = 0
            <4>1. n * B = 0
                <5>1. n = 0
                    BY <1>3, <1>4, <3>2
                <5> QED BY <5>1
            <4>2. i - 1 = h /\ P(i - 1) = A
                BY <1>6, <1>7, <2>1, <3>2 DEF P
            <4> QED BY <2>4, <3>2, <4>1, <4>2
        <3>3. CASE j = 1 /\ rows # 0
            <4>1. ~(i - 1 <= h) /\ i - 1 <= h + rows /\ (i - 1) - h = rows
                BY <2>1, <3>3
            <4>2. P(i - 1) = A + (rows \div z) * B + SumTo(row, width, rows % z)
                BY <1>7, <4>1 DEF P
            <4>3. (n * z) % z = 0 /\ (n * z) \div z = n
                <5>1. z \in Nat \ {0}
                    BY <1>3, <1>4, <3>3
                <5> QED BY <5>1, WholeEntries
            <4>4. rows % z = 0 /\ rows \div z = n
                BY ONLY <1>3, <4>3
            <4>5. P(i - 1) = A + n * B + 0
                BY <2>4, <4>2, <4>4
            <4>6. SumTo(tail, width, j - 1) = 0
                BY <2>4, <3>3
            <4> QED BY <4>5, <4>6
        <3> QED BY <2>1, <3>1, <3>2, <3>3
    <2>6. P(i) = P(i - 1) + BytesIn(s, width)
        <3>1. PICK C \in Nat : C = n * B
            OBVIOUS
        <3> QED BY <2>3, <2>4, <2>5, <3>1
    <2> QED BY <1>2, <2>1, <2>3, <2>4, <2>6
<1> QED BY <1>4, <1>9, <1>10, <1>11

\* They are all the bytes in the end, and never more before.
LEMMA AllSteps ==
    ASSUME NEW head \in Seq(StepRecords), NEW row \in Seq(StepRecords), NEW tail \in Seq(StepRecords),
           NEW n \in Nat, Len(row) = 0 => n = 0, NEW width \in Nat,
           NEW steps \in Nat, steps = Len(head) + n * Len(row) + Len(tail),
           NEW all, all = BytesOf(head, width) + n * BytesOf(row, width) + BytesOf(tail, width)
    PROVE  /\ PassedIn(head, row, tail, n, width, 0) = 0
           /\ PassedIn(head, row, tail, n, width, steps) = all
           /\ \A i \in 0..steps : PassedIn(head, row, tail, n, width, i) \in 0..all
<1>1. PICK h \in Nat, z \in Nat, t \in Nat : h = Len(head) /\ z = Len(row) /\ t = Len(tail)
    BY LenProperties
<1>2. PICK rows \in Nat : rows = n * z
    OBVIOUS
<1>3. steps = h + rows + t /\ (z = 0 => n = 0)
    BY <1>1, <1>2
<1>4. PICK A \in Nat, B \in Nat, C \in Nat :
        /\ A = SumTo(head, width, h) /\ B = SumTo(row, width, z) /\ C = SumTo(tail, width, t)
        /\ all = A + n * B + C
    <2>1. \A part \in Seq(StepRecords) :
            BytesOf(part, width) = SumTo(part, width, Len(part)) /\ SumTo(part, width, Len(part)) \in Nat
        <3> TAKE part \in Seq(StepRecords)
        <3>1. Len(part) \in 0..Len(part)
            BY LenProperties
        <3> QED BY <3>1, SumIs
    <2> QED BY <1>1, <2>1
<1>5. /\ SumTo(head, width, 0) = 0 /\ SumTo(row, width, 0) = 0 /\ SumTo(tail, width, 0) = 0
    BY SumIs
<1> DEFINE P(i) == PassedIn(head, row, tail, n, width, i)
<1>6. \A i : P(i) = IF i <= h THEN SumTo(head, width, i)
                    ELSE IF i <= h + rows THEN A + ((i - h) \div z) * B + SumTo(row, width, (i - h) % z)
                    ELSE A + n * B + SumTo(tail, width, i - (h + rows))
    BY <1>1, <1>2, <1>4 DEF PassedIn
<1>7. \A i \in 1..steps : \E b \in Nat : P(i) = P(i - 1) + b
    <2> SUFFICES ASSUME NEW i \in 1..steps PROVE \E b \in Nat : P(i) = P(i - 1) + b
        OBVIOUS
    <2>1. PICK s \in StepRecords : P(i) = P(i - 1) + BytesIn(s, width)
        BY OneMoreStep DEF IsStep
    <2>2. BytesIn(s, width) \in Nat
        BY BytesInType
    <2> QED BY <2>1, <2>2
<1> HIDE DEF P
<1>8. P(0) = 0
    BY <1>5, <1>6
<1>9. P(steps) = all
    <2>1. CASE t > 0
        <3>1. ~(steps <= h) /\ ~(steps <= h + rows) /\ steps - (h + rows) = t
            BY <1>3, <2>1, SMTT(30)
        <3> QED BY <1>4, <1>6, <3>1
    <2>2. CASE t = 0 /\ rows = 0
        <3>1. n = 0
            BY <1>2, <1>3, <2>2
        <3>2. C = 0 /\ n * B = 0
            BY <1>4, <1>5, <2>2, <3>1
        <3>3. P(steps) = A
            BY <1>3, <1>4, <1>6, <2>2
        <3> QED BY <1>4, <3>2, <3>3
    <2>3. CASE t = 0 /\ rows # 0
        <3>1. z > 0 /\ rows % z = 0 /\ rows \div z = n
            <4>1. z \in Nat \ {0}
                BY <1>2, <1>3, <2>3
            <4>2. (n * z) % z = 0 /\ (n * z) \div z = n
                BY <4>1, WholeEntries
            <4>3. z > 0
                BY ONLY <4>1
            <4> QED BY ONLY <1>2, <4>2, <4>3
        <3>2. P(steps) = A + n * B + SumTo(row, width, 0)
            <4>1. ~(steps <= h) /\ steps <= h + rows /\ steps - h = rows
                BY ONLY <1>3, <2>3
            <4> QED BY <1>6, <3>1, <4>1
        <3> QED BY <1>4, <1>5, <2>3, <3>2
    <2> QED BY <2>1, <2>2, <2>3
<1>10. \A i \in 0..steps : P(i) \in Nat
    <2> DEFINE T == {i \in Nat : i <= steps => P(i) \in Nat}
    <2>1. 0 \in T
        BY <1>8
    <2>2. ASSUME NEW i \in Nat, i \in T PROVE i + 1 \in T
        <3> SUFFICES ASSUME i + 1 <= steps PROVE P(i + 1) \in Nat
            OBVIOUS
        <3>1. i + 1 \in 1..steps /\ (i + 1) - 1 = i /\ P(i) \in Nat
            BY <2>2
        <3> QED BY <1>7, <3>1
    <2>3. Nat \subseteq T
        <3> HIDE DEF T
        <3> QED BY <2>1, <2>2, SetInduction
    <2> QED BY <2>3
<1>11. \A i \in 0..steps : P(i) <= P(steps)
    <2> DEFINE T == {j \in Nat : j <= steps => P(steps - j) <= P(steps)}
    <2>1. 0 \in T
        BY <1>10
    <2>2. ASSUME NEW j \in Nat, j \in T PROVE j + 1 \in T
        <3> SUFFICES ASSUME j + 1 <= steps PROVE P(steps - (j + 1)) <= P(steps)
            OBVIOUS
        <3>0. steps - j \in 1..steps /\ (steps - j) - 1 = steps - (j + 1) /\ j <= steps
            BY ONLY j + 1 <= steps, j \in Nat, steps \in Nat, SMTT(30)
        <3>1. PICK i \in 1..steps : i = steps - j /\ i - 1 = steps - (j + 1) /\ P(i) <= P(steps)
            BY <2>2, <3>0
        <3>2. P(i - 1) \in Nat /\ P(i) \in Nat /\ P(steps) \in Nat
            BY <1>10
        <3>3. PICK b \in Nat : P(i) = P(i - 1) + b
            BY <1>7
        <3>4. P(i - 1) <= P(steps)
            BY <3>1, <3>2, <3>3, SMTT(30)
        <3> QED BY <3>1, <3>4
    <2>3. Nat \subseteq T
        <3> HIDE DEF T
        <3> QED BY <2>1, <2>2, SetInduction
    <2>4. \A i \in 0..steps : steps - i \in Nat /\ steps - i <= steps /\ steps - (steps - i) = i
        OBVIOUS
    <2> QED BY <2>3, <2>4
<1>12. \A i \in 0..steps : P(i) \in 0..all
    BY <1>9, <1>10, <1>11
<1> QED BY <1>8, <1>9, <1>12 DEF P

-----------------------------------------------------------------------------
(* The steps of a reply.                                                   *)

Typed ==
  /\ message \in DOMAIN Layouts /\ stocks \in Stocks
  /\ pc \in {"request", "reading", "ok", "error", "refused", "none", "panic"}
  /\ count \in 0..MaxCount /\ wide \in 1..MaxWide /\ packed \in BOOLEAN
  /\ size \in Nat /\ pos \in Nat /\ at \in Nat

\* The bytes of the first i steps.
Passed(i) == PassedIn(Layout.head, Layout.row, Layout.tail, Entries(Layout, count), wide, i)

\* The parts of a layout are lists of steps.
LEMMA LayoutIs ==
    ASSUME Typed
    PROVE  /\ Layout.head \in Seq(StepRecords) /\ Layout.row \in Seq(StepRecords) /\ Layout.tail \in Seq(StepRecords)
           /\ Len(Layout.head) \in Nat /\ Len(Layout.row) \in Nat /\ Len(Layout.tail) \in Nat
           /\ Entries(Layout, count) \in Nat /\ (Len(Layout.row) = 0 => Entries(Layout, count) = 0)
           /\ Rows(Layout) = Len(Layout.head) + Entries(Layout, count) * Len(Layout.row)
           /\ Rows(Layout) \in Nat /\ Rows(Layout) >= Len(Layout.head)
           /\ Steps = Rows(Layout) + Len(Layout.tail) /\ Steps \in Nat
           /\ InPlace(Layout) /\ wide \in Nat /\ wide > 0 /\ count \in Nat
<1>1. Layout \in MessageRecords /\ InPlace(Layout)
    BY LayoutsAssumption DEF Typed, Layout
<1>2. wide \in Nat /\ wide > 0 /\ count \in Nat
    BY MessagesAssumption DEF Typed
<1>3. /\ Layout.head \in Seq(StepRecords) /\ Layout.row \in Seq(StepRecords) /\ Layout.tail \in Seq(StepRecords)
      /\ Layout.rows \in {"counted", "halved", "nine"}
    BY <1>1 DEF MessageRecords
<1>4. Len(Layout.head) \in Nat /\ Len(Layout.row) \in Nat /\ Len(Layout.tail) \in Nat
    BY <1>3, LenProperties
<1>5. Entries(Layout, count) \in Nat
    BY <1>2, <1>3 DEF Entries
<1>6. Len(Layout.row) = 0 => Entries(Layout, count) = 0
    BY <1>3, EmptySeq DEF Entries
<1>7. \A a, b, c \in Nat : a + b * c \in Nat /\ a + b * c >= a
    OBVIOUS
<1>8. Rows(Layout) = Len(Layout.head) + Entries(Layout, count) * Len(Layout.row)
    BY DEF Rows
<1>9. Steps = Rows(Layout) + Len(Layout.tail)
    BY DEF Steps
<1>10. Rows(Layout) \in Nat /\ Rows(Layout) >= Len(Layout.head)
    BY <1>4, <1>5, <1>7, <1>8
<1>11. Steps \in Nat
    BY <1>4, <1>9, <1>10
<1> QED BY <1>1, <1>2, <1>3, <1>4, <1>5, <1>6, <1>8, <1>9, <1>10, <1>11
\* A step is one of the message's, and what LayoutsAssumption says of those holds of it.
LEMMA StepIs ==
    ASSUME Typed, NEW i \in 1..Steps
    PROVE  /\ StepAt(i) \in StepRecords
           /\ StepAt(i).rest => i = Steps
           /\ StepAt(i).short = "error" /\ ~StepAt(i).sure =>
                StepAt(i).need <= StepAt(i).take + StepAt(i).numbers + StepAt(i).pass
           /\ message \notin Trusting => LooksFirst(StepAt(i))
           /\ Passed(i) = Passed(i - 1) + BytesIn(StepAt(i), wide)
<1> DEFINE m == Layout
<1>1. /\ m.head \in Seq(StepRecords) /\ m.row \in Seq(StepRecords) /\ m.tail \in Seq(StepRecords)
      /\ Entries(m, count) \in Nat /\ (Len(m.row) = 0 => Entries(m, count) = 0) /\ wide \in Nat
      /\ Rows(m) = Len(m.head) + Entries(m, count) * Len(m.row)
      /\ Steps = Rows(m) + Len(m.tail) /\ InPlace(m)
    BY LayoutIs
<1>2. StepAt(i) = StepIn(m.head, m.row, m.tail, Entries(m, count), i)
    BY <1>1 DEF StepAt, StepIn
<1>3. i \in 1..(Len(m.head) + Entries(m, count) * Len(m.row) + Len(m.tail))
    BY <1>1
<1>4. /\ \/ i \in DOMAIN m.head /\ StepAt(i) = m.head[i]
         \/ \E j \in DOMAIN m.row : StepAt(i) = m.row[j]
         \/ \E j \in DOMAIN m.tail : StepAt(i) = m.tail[j] /\ i = Rows(m) + j
      /\ StepAt(i) \in StepRecords /\ Passed(i) = Passed(i - 1) + BytesIn(StepAt(i), wide)
    <2>1. PICK head \in Seq(StepRecords), row \in Seq(StepRecords), tail \in Seq(StepRecords), n \in Nat, width \in Nat :
            /\ head = m.head /\ row = m.row /\ tail = m.tail /\ n = Entries(m, count) /\ width = wide
        BY <1>1
    <2>2. /\ (Len(row) = 0 => n = 0) /\ i \in 1..(Len(head) + n * Len(row) + Len(tail))
          /\ head \in Seq(StepRecords) /\ row \in Seq(StepRecords) /\ tail \in Seq(StepRecords)
          /\ n \in Nat /\ width \in Nat
        BY <1>1, <1>3, <2>1
    <2>3. PICK s : s = StepIn(head, row, tail, n, i)
        OBVIOUS
    <2>4. IsStep(s, head, row, tail, n, width, i)
        BY <2>2, <2>3, OneMoreStep
    <2>5. s = StepAt(i) /\ \A k : Passed(k) = PassedIn(head, row, tail, n, width, k)
        BY <1>2, <2>1, <2>3 DEF Passed
    <2>6. Rows(m) = Len(head) + n * Len(row)
        BY <1>1, <2>1
    <2> HIDE DEF m
    <2> QED BY <2>1, <2>4, <2>5, <2>6 DEF IsStep
<1>5. PICK part \in {m.head, m.row, m.tail} : \E j \in DOMAIN part : StepAt(i) = part[j]
    BY <1>4
<1>6. message \notin Trusting => LooksFirst(StepAt(i))
    BY <1>5, LayoutsAssumption DEF Typed, Layout
<1>7. StepAt(i).short = "error" /\ ~StepAt(i).sure =>
        StepAt(i).need <= StepAt(i).take + StepAt(i).numbers + StepAt(i).pass
    BY <1>1, <1>5 DEF InPlace
<1>8. StepAt(i).rest => i = Steps
    <2>1. CASE i \in DOMAIN m.head /\ StepAt(i) = m.head[i]
        <3> SUFFICES ASSUME m.head[i].rest PROVE i = Steps
            BY <2>1
        <3>1. i = Len(m.head) /\ m.row = << >> /\ m.tail = << >>
            BY <1>1, <2>1 DEF InPlace
        <3>2. Len(m.row) = 0 /\ Len(m.tail) = 0 /\ Entries(m, count) = 0
            BY <1>1, <3>1
        <3>3. Len(m.head) \in Nat
            BY <1>1, LenProperties
        <3> QED BY <1>1, <3>1, <3>2, <3>3
    <2>2. CASE \E j \in DOMAIN m.row : StepAt(i) = m.row[j]
        BY <1>1, <2>2 DEF InPlace
    <2>3. CASE \E j \in DOMAIN m.tail : StepAt(i) = m.tail[j] /\ i = Rows(m) + j
        BY <1>1, <2>3 DEF InPlace
    <2> QED BY <1>4, <2>1, <2>2, <2>3
<1> QED BY <1>4, <1>6, <1>7, <1>8

\* What is passed is at most all of the reply.
LEMMA PassedUp ==
    ASSUME Typed
    PROVE  /\ Passed(0) = 0 /\ Passed(Steps) = Complete(Layout, count, wide)
           /\ \A i \in 0..Steps : Passed(i) \in 0..Complete(Layout, count, wide)
<1>1. PICK head \in Seq(StepRecords), row \in Seq(StepRecords), tail \in Seq(StepRecords), n \in Nat,
           steps \in Nat, width \in Nat, all \in {Complete(Layout, count, wide)} :
        /\ head = Layout.head /\ row = Layout.row /\ tail = Layout.tail
        /\ n = Entries(Layout, count) /\ steps = Steps /\ width = wide /\ all = Complete(Layout, count, wide)
    BY LayoutIs
<1>2. (Len(row) = 0 => n = 0) /\ steps = Len(head) + n * Len(row) + Len(tail)
    BY <1>1, LayoutIs
<1>3. all = BytesOf(head, width) + n * BytesOf(row, width) + BytesOf(tail, width)
    BY <1>1 DEF Complete
<1>4. \A i : Passed(i) = PassedIn(head, row, tail, n, width, i)
    BY <1>1 DEF Passed
<1>5. /\ PassedIn(head, row, tail, n, width, 0) = 0
      /\ PassedIn(head, row, tail, n, width, steps) = all
      /\ \A i \in 0..steps : PassedIn(head, row, tail, n, width, i) \in 0..all
    BY <1>2, <1>3, AllSteps
<1> QED BY <1>1, <1>4, <1>5
\* The length of a complete reply is a natural number.
LEMMA CompleteIs ==
    ASSUME message \in DOMAIN Layouts, NEW c \in Nat, NEW w \in Nat
    PROVE  /\ Complete(Layout, c, w) \in Nat
           /\ Layout.head = << >> => Complete(Layout, c, w) = 0
           /\ PassedIn(Layout.head, Layout.row, Layout.tail, Entries(Layout, c), w, 0) = 0
           /\ Len(Layout.head) \in Nat /\ Entries(Layout, c) * Len(Layout.row) \in Nat /\ Len(Layout.tail) \in Nat
<1>1. Layout \in MessageRecords /\ InPlace(Layout)
    BY LayoutsAssumption DEF Layout
<1>2. PICK head \in Seq(StepRecords), row \in Seq(StepRecords), tail \in Seq(StepRecords) :
        head = Layout.head /\ row = Layout.row /\ tail = Layout.tail
    BY <1>1 DEF MessageRecords
<1>3. Layout.rows \in {"counted", "halved", "nine"}
    BY <1>1 DEF MessageRecords
<1>4. PICK n \in Nat : n = Entries(Layout, c)
    BY <1>3 DEF Entries
<1>5. Len(row) = 0 => n = 0
    BY <1>2, <1>4, EmptySeq DEF Entries
<1>6. Len(head) \in Nat /\ Len(row) \in Nat /\ Len(tail) \in Nat
    BY LenProperties
<1>7. PICK k \in Nat : k = n * Len(row)
    BY <1>6
<1>8. PICK steps \in Nat : steps = Len(head) + n * Len(row) + Len(tail)
    BY <1>6, <1>7
<1>9. PICK all \in {Complete(Layout, c, w)} : all = BytesOf(head, w) + n * BytesOf(row, w) + BytesOf(tail, w)
    BY <1>2, <1>4 DEF Complete
<1>10. /\ PassedIn(head, row, tail, n, w, 0) = 0 /\ PassedIn(head, row, tail, n, w, steps) = all
       /\ \A i \in 0..steps : PassedIn(head, row, tail, n, w, i) \in 0..all
    BY <1>5, <1>8, <1>9, AllSteps
<1>11. all \in Nat
    <2>1. PassedIn(head, row, tail, n, w, 0) = 0 /\ 0 \in 0..all /\ all \in 0..all
        BY <1>10
    <2>2. \A part \in Seq(StepRecords) : BytesOf(part, w) \in Nat
        <3> TAKE part \in Seq(StepRecords)
        <3>1. Len(part) \in 0..Len(part)
            BY LenProperties
        <3> QED BY <3>1, SumIs
    <2>3. \A a, b, d \in Nat : a + n * b + d \in Nat
        OBVIOUS
    <2> QED BY <1>9, <2>2, <2>3
<1>12. Layout.head = << >> => all = 0
    <2> SUFFICES ASSUME head = << >> PROVE all = 0
        BY <1>2
    <2>1. row = << >> /\ tail = << >>
        BY <1>1, <1>2 DEF InPlace
    <2>2. steps = 0
        BY <1>5, <1>8, <2>1
    <2> QED BY <1>10, <2>2
<1> QED BY <1>2, <1>4, <1>6, <1>7, <1>9, <1>10, <1>11, <1>12

-----------------------------------------------------------------------------
(* The invariant.                                                          *)

\* What has been passed is what the steps taken have, and no more than there is, but for
\* the messages that trust.
MessageInv ==
  /\ Typed
  /\ at \in 1..(Steps + 1)
  /\ size <= Complete(Layout, count, wide) + 1 /\ pos <= Complete(Layout, count, wide) + 1
  /\ pc = "request" => at = 1 /\ pos = 0
  /\ pc = "reading" => at <= Steps /\ pos = Passed(at - 1)
  /\ message \notin Trusting => pc # "panic" /\ pos <= size
  /\ pc = "error" => size < Complete(Layout, count, wide)
  /\ pc = "ok" /\ message \notin Trusting =>
       size >= Complete(Layout, count, wide) \/ \E i \in 1..Steps : StepAt(i).short = "ok"

\* The invariant holds before the request is built.
LEMMA InitMessage == Init => MessageInv
<1> SUFFICES ASSUME Init PROVE MessageInv
    OBVIOUS
<1>1. /\ message \in DOMAIN Layouts /\ stocks \in Stocks /\ pc = "request" /\ count = 0 /\ size = 0
      /\ wide = 1 /\ packed = FALSE /\ at = 1 /\ pos = 0
    BY MessagesAssumption DEF Init
<1>2. Typed
    <2>1. 0 \in 0..MaxCount /\ 1 \in 1..MaxWide /\ FALSE \in BOOLEAN /\ 0 \in Nat /\ 1 \in Nat
        BY MessagesAssumption
    <2> QED BY <1>1, <2>1 DEF Typed
<1>3. Complete(Layout, count, wide) \in Nat
    BY <1>1, CompleteIs
<1>4. Steps \in Nat
    BY <1>2, LayoutIs
<1> QED BY <1>1, <1>2, <1>3, <1>4 DEF MessageInv

\* The reply has its header's length, cut anywhere.
LEMMA AnsweredStep ==
    ASSUME MessageInv, Answered
    PROVE  MessageInv'
<1>1. /\ pc = "request" /\ pc' = IF Layout.head = << >> THEN "ok" ELSE "reading"
      /\ stocks' = 0 /\ UNCHANGED <<message, at, pos>>
      /\ size' \in 0..(Complete(Layout, count', wide') + 1)
    BY DEF Answered
<1>2. count' \in 0..MaxCount /\ wide' \in 1..MaxWide /\ packed' \in BOOLEAN
    BY MessagesAssumption DEF Answered
<1>3. message \in DOMAIN Layouts /\ at = 1 /\ pos = 0 /\ count' \in Nat /\ wide' \in Nat
    BY <1>1, <1>2, MessagesAssumption DEF MessageInv, Typed
<1>4. PICK all \in Nat : all = Complete(Layout, count', wide')
    BY <1>3, CompleteIs
<1>5. /\ Layout.head = << >> => all = 0
      /\ PassedIn(Layout.head, Layout.row, Layout.tail, Entries(Layout, count'), wide', 0) = 0
      /\ Len(Layout.head) \in Nat /\ Entries(Layout, count') * Len(Layout.row) \in Nat /\ Len(Layout.tail) \in Nat
    BY <1>3, <1>4, CompleteIs
<1>6. Layout' = Layout /\ all = Complete(Layout, count, wide)'
    <2>1. Layout' = Layout
        BY <1>1 DEF Layout
    <2>2. Complete(Layout, count, wide)' = Complete(Layout', count', wide')
        BY DEF Complete, Entries, BytesOf
    <2> QED BY <1>4, <2>1, <2>2
<1>7. Steps' = Len(Layout.head) + Entries(Layout, count') * Len(Layout.row) + Len(Layout.tail)
    BY <1>6 DEF Steps, Rows, Entries
<1>8. Passed(0)' = 0
    BY <1>5, <1>6 DEF Passed, Entries
<1>9. Typed'
    BY <1>1, <1>2, <1>3, <1>4, MessagesAssumption DEF MessageInv, Typed
<1>10. Layout.head # << >> => Steps' >= 1
    <2>1. Layout.head \in Seq(StepRecords)
        BY <1>3, LayoutsAssumption DEF Layout, MessageRecords
    <2>2. Layout.head # << >> => Len(Layout.head) >= 1
        BY <2>1, <1>5, EmptySeq
    <2> QED BY <1>5, <1>7, <2>2
<1>11. Steps' \in Nat
    BY <1>5, <1>7
<1>12. size' \in Nat /\ size' <= all + 1
    BY <1>1, <1>4
<1>13. pc' = "reading" => at' <= Steps' /\ pos' = Passed(at - 1)'
    <2>1. Passed(at - 1)' = Passed(0)'
        BY <1>1, <1>3 DEF Passed
    <2> QED BY <1>1, <1>3, <1>8, <1>10, <2>1
<1>14. pc' = "ok" => size' >= all
    BY <1>1, <1>5, <1>12
<1>15. at' \in 1..(Steps' + 1) /\ pos' = 0
    <2>1. at' = 1 /\ pos' = 0
        BY <1>1, <1>3
    <2>2. \A k \in Nat : 1 \in 1..(k + 1)
        OBVIOUS
    <2> QED BY <1>11, <2>1, <2>2
<1>16. pc' \in {"ok", "reading"}
    BY <1>1
<1>17. /\ size' <= Complete(Layout, count, wide)' + 1 /\ pos' <= Complete(Layout, count, wide)' + 1
       /\ pos' <= size'
    BY <1>6, <1>12, <1>15
<1>18. pc' = "ok" => size' >= Complete(Layout, count, wide)'
    BY <1>6, <1>14
<1>19. pc' # "request" /\ pc' # "panic" /\ pc' # "error"
    BY <1>16
<1> QED BY <1>9, <1>13, <1>15, <1>17, <1>18, <1>19 DEF MessageInv

\* What the step that is due reads is among the bytes of the steps so far.
LEMMA DueStep ==
    ASSUME MessageInv, pc = "reading", NEW s, s = StepAt(at)
    PROVE  /\ at \in 1..Steps /\ Steps \in Nat /\ pos \in Nat /\ size \in Nat
           /\ Complete(Layout, count, wide) \in Nat
           /\ s \in StepRecords /\ Reach(s) \in Nat /\ s.pass \in Nat /\ Wanted(s) \in Nat
           /\ Passed(at) = pos + Reach(s) + s.pass /\ Passed(at) <= Complete(Layout, count, wide)
           /\ at = Steps => Passed(at) = Complete(Layout, count, wide)
           /\ s.rest => at = Steps
           /\ s.short = "error" => Wanted(s) <= Reach(s) + s.pass
           /\ message \notin Trusting => Wanted(s) >= Reach(s) + s.pass /\ pos <= size
<1>1. Typed /\ at \in Nat /\ pos \in Nat /\ size \in Nat /\ at <= Steps /\ at >= 1 /\ pos = Passed(at - 1)
    BY DEF MessageInv, Typed
<1>2. Steps \in Nat /\ wide \in Nat /\ wide > 0
    BY <1>1, LayoutIs
<1>3. at \in 1..Steps
    BY <1>1, <1>2
<1>4. /\ s \in StepRecords /\ (s.rest => at = Steps)
      /\ s.short = "error" /\ ~s.sure => s.need <= s.take + s.numbers + s.pass
      /\ message \notin Trusting => LooksFirst(s)
      /\ Passed(at) = Passed(at - 1) + BytesIn(s, wide)
    BY <1>1, <1>3, StepIs
<1>5. s.need \in Nat /\ s.take \in Nat /\ s.numbers \in Nat /\ s.pass \in Nat /\ s.sure \in BOOLEAN
    BY <1>4 DEF StepRecords
<1>6. PICK b \in Nat : b = s.numbers * wide /\ b >= s.numbers /\ (s.numbers = 0 => b = 0)
    <2>1. \A x, y \in Nat : y > 0 => x * y \in Nat /\ x * y >= x /\ (x = 0 => x * y = 0)
        OBVIOUS
    <2> QED BY <1>2, <1>5, <2>1
<1>7. Reach(s) = s.take + b /\ BytesIn(s, wide) = s.take + b + s.pass
    BY <1>6 DEF Reach, BytesIn
<1>8. Wanted(s) = IF s.sure THEN Reach(s) ELSE s.need
    BY DEF Wanted
<1>9. PICK all \in Nat : all = Complete(Layout, count, wide)
    BY <1>1, <1>2, CompleteIs, LayoutIs DEF Typed
<1>10. Passed(Steps) = all /\ Passed(at) \in 0..all
    <2>1. at \in 0..Steps
        BY <1>3
    <2> QED BY <1>1, <1>9, <2>1, PassedUp
<1>11. Passed(at) = pos + Reach(s) + s.pass
    BY <1>1, <1>4, <1>5, <1>6, <1>7
<1>12. s.short = "error" => Wanted(s) <= Reach(s) + s.pass
    BY <1>4, <1>5, <1>6, <1>7, <1>8
<1>13. message \notin Trusting => Wanted(s) >= Reach(s) + s.pass
    BY <1>4, <1>5, <1>6, <1>7, <1>8 DEF LooksFirst
<1>14. message \notin Trusting => pos <= size
    BY DEF MessageInv
<1>15. Reach(s) \in Nat /\ Wanted(s) \in Nat
    BY <1>5, <1>6, <1>7, <1>8
<1> QED BY <1>1, <1>2, <1>3, <1>4, <1>5, <1>9, <1>10, <1>11, <1>12, <1>13, <1>14, <1>15

\* Nothing but the step changes.
LEMMA SameReply ==
    ASSUME UNCHANGED <<message, count, wide>>
    PROVE  /\ Layout' = Layout /\ Steps' = Steps
           /\ Complete(Layout, count, wide)' = Complete(Layout, count, wide)
           /\ \A i : Passed(i)' = Passed(i) /\ StepAt(i)' = StepAt(i)
BY DEF Layout, Steps, Complete, Passed, StepAt, Rows, Entries, BytesOf

\* A step that finds all its bytes, or reads beyond.
LEMMA GoOnStep ==
    ASSUME MessageInv, Read \/ ReadsBeyond
    PROVE  MessageInv'
<1>1. PICK s : s = StepAt(at)
    OBVIOUS
<1>2. /\ pc = "reading" /\ at' = at + 1 /\ pc' = IF at = Steps THEN "ok" ELSE pc
      /\ UNCHANGED <<message, stocks, count, size, wide, packed>>
      /\ Wanted(s) > 0 => ~(Left < Wanted(s))
      /\ \/ pos' = pos + Reach(s) + s.pass
         \/ s.rest /\ ~(Left < Reach(s)) /\ pos' = size
    BY <1>1 DEF Read, ReadsBeyond, NextStep, Lacks, Overruns, FindsSpare
<1>3. PICK all \in Nat : all = Complete(Layout, count, wide)
    BY <1>1, <1>2, DueStep
<1>4. /\ at \in 1..Steps /\ Steps \in Nat /\ pos \in Nat /\ size \in Nat
      /\ Reach(s) \in Nat /\ s.pass \in Nat /\ Wanted(s) \in Nat
      /\ Passed(at) = pos + Reach(s) + s.pass /\ Passed(at) <= all
      /\ at = Steps => Passed(at) = all
      /\ s.rest => at = Steps
      /\ message \notin Trusting => Wanted(s) >= Reach(s) + s.pass /\ pos <= size
    BY <1>1, <1>2, <1>3, DueStep
<1>5. Left = size - pos
    BY DEF Left
<1>6. /\ Layout' = Layout /\ Steps' = Steps /\ Complete(Layout, count, wide)' = all
      /\ \A i : Passed(i)' = Passed(i) /\ StepAt(i)' = StepAt(i)
    BY <1>2, <1>3, SameReply
<1>7. pos' \in Nat /\ (s.rest \/ pos' = Passed(at)) /\ (s.rest => at = Steps) /\ pos' <= all + 1
    <2>1. size <= all + 1
        BY <1>3 DEF MessageInv
    <2> QED BY <1>2, <1>4, <2>1
<1>8. message \notin Trusting => pos' <= size /\ size >= Passed(at)
    BY <1>2, <1>4, <1>5
<1>9. Typed'
    BY <1>2, <1>4, <1>7 DEF MessageInv, Typed
<1>10. at' \in 1..(Steps + 1)
    BY <1>2, <1>4
<1>11. pc' = "reading" => at' <= Steps /\ pos' = Passed(at' - 1)
    <2>1. at' - 1 = at /\ (at # Steps => at' <= Steps)
        BY <1>2, <1>4
    <2> QED BY <1>2, <1>7, <2>1
<1>12. pc' = "reading" => pos' = Passed(at - 1)'
    <2>1. Passed(at - 1)' = Passed(at' - 1)
        BY <1>6 DEF Passed
    <2> QED BY <1>11, <2>1
<1>13. size' <= all + 1 /\ pc' \in {"ok", "reading"}
    BY <1>2, <1>3 DEF MessageInv
<1>14. pc' = "ok" /\ message \notin Trusting => size' >= all
    BY <1>2, <1>4, <1>8
<1> QED BY <1>2, <1>6, <1>7, <1>8, <1>9, <1>10, <1>11, <1>12, <1>13, <1>14 DEF MessageInv

\* The call ends.
LEMMA EndStep ==
    ASSUME MessageInv, TooShort \/ Panics \/ Refuse \/ Nothing
    PROVE  MessageInv'
<1>1. PICK s : s = StepAt(at)
    OBVIOUS
<1>2. /\ pc = "reading" /\ UNCHANGED <<message, stocks, count, size, wide, packed, at, pos>>
      /\ \/ Left < Wanted(s) /\ pc' = s.short
         \/ (Wanted(s) > 0 => ~(Left < Wanted(s))) /\ Left < Reach(s) /\ pc' = "panic"
         \/ pc' \in {"refused", "none"}
    BY <1>1 DEF TooShort, Panics, Refuse, Nothing, Lacks, Overruns
<1>3. PICK all \in Nat : all = Complete(Layout, count, wide)
    BY <1>1, <1>2, DueStep
<1>4. /\ at \in 1..Steps /\ Steps \in Nat /\ pos \in Nat /\ size \in Nat /\ s \in StepRecords
      /\ Reach(s) \in Nat /\ s.pass \in Nat /\ Wanted(s) \in Nat
      /\ Passed(at) = pos + Reach(s) + s.pass /\ Passed(at) <= all
      /\ s.short = "error" => Wanted(s) <= Reach(s) + s.pass
      /\ message \notin Trusting => Wanted(s) >= Reach(s) + s.pass /\ pos <= size
    BY <1>1, <1>2, <1>3, DueStep
<1>5. Left = size - pos
    BY DEF Left
<1>6. /\ Layout' = Layout /\ Steps' = Steps /\ Complete(Layout, count, wide)' = all
      /\ \A i : Passed(i)' = Passed(i) /\ StepAt(i)' = StepAt(i)
    BY <1>2, <1>3, SameReply
<1>7. s.short \in {"error", "ok"}
    BY <1>4 DEF StepRecords
<1>8. Typed'
    BY <1>2, <1>7 DEF MessageInv, Typed
<1>9. message \notin Trusting => pc' # "panic"
    BY <1>2, <1>4, <1>5, <1>7
<1>10. pc' = "error" => size < all
    BY <1>2, <1>4, <1>5, <1>7
<1>11. pc' = "ok" => \E i \in 1..Steps : StepAt(i).short = "ok"
    BY <1>1, <1>2, <1>4
<1>12. pc' \notin {"request", "reading"}
    BY <1>2, <1>7
<1> QED BY <1>2, <1>3, <1>6, <1>8, <1>9, <1>10, <1>11, <1>12 DEF MessageInv

\* The invariant is inductive.
LEMMA MessageStep ==
    ASSUME MessageInv, [Next]_messageVars
    PROVE  MessageInv'
<1>1. CASE Answered
    BY <1>1, AnsweredStep
<1>2. CASE Read \/ ReadsBeyond
    BY <1>2, GoOnStep
<1>3. CASE TooShort \/ Panics \/ Refuse \/ Nothing
    BY <1>3, EndStep
<1>4. CASE UNCHANGED messageVars
    <2>1. UNCHANGED <<message, stocks, pc, count, size, wide, packed, at, pos>>
        BY <1>4 DEF messageVars
    <2>2. /\ Layout' = Layout /\ Steps' = Steps
          /\ Complete(Layout, count, wide)' = Complete(Layout, count, wide)
          /\ \A i : Passed(i)' = Passed(i) /\ StepAt(i)' = StepAt(i)
        BY <2>1, SameReply
    <2>3. Passed(at - 1)' = Passed(at - 1)
        BY <2>1 DEF Passed, Layout, Entries
    <2> QED BY <2>1, <2>2, <2>3 DEF MessageInv, Typed
<1> QED BY <1>1, <1>2, <1>3, <1>4 DEF Next

-----------------------------------------------------------------------------
(* The theorems.                                                           *)

\* While a reply is read, the bytes passed are those of the steps taken.
THEOREM MessageInvariant == Spec => []MessageInv
<1> QED BY InitMessage, MessageStep, PTL DEF Spec

\* The variables keep their types, and no step passes the end of a complete reply.
THEOREM MessageTypes == Spec => []TypeOK
<1>1. MessageInv => TypeOK
    <2> SUFFICES ASSUME MessageInv PROVE TypeOK
        OBVIOUS
    <2>1. Complete(Layout, count, wide) \in Nat
        BY LayoutIs, CompleteIs DEF MessageInv, Typed
    <2>2. {size, pos} \subseteq 0..(Complete(Layout, count, wide) + 1)
        BY <2>1 DEF MessageInv, Typed
    <2> QED BY <2>2 DEF MessageInv, Typed, TypeOK
<1> QED BY <1>1, MessageInvariant, PTL

\* Only the ParseResponse that does not look at a reply's length panics, or reads beyond it:
\* for every length, every number of entries and every width of the numbers.
THEOREM OnlyTheTrustingOverrun == Spec => []OnlyTrustingOverrun
<1>1. MessageInv => OnlyTrustingOverrun
    <2> SUFFICES ASSUME MessageInv, message \notin Trusting PROVE ~(pc = "panic" \/ pos > size)
        BY DEF OnlyTrustingOverrun
    <2>1. pc # "panic" /\ pos <= size /\ pos \in Nat /\ size \in Nat
        BY DEF MessageInv, Typed
    <2> QED BY <2>1
<1> QED BY <1>1, MessageInvariant, PTL

\* A ParseResponse that looks first returns all the entries announced, or refuses a reply
\* to which something is missing; and no reply is refused as too short that is not.
THEOREM AllOrRefused == Spec => []WholeOrRefused
<1>1. MessageInv => WholeOrRefused
    BY DEF MessageInv, WholeOrRefused
<1> QED BY <1>1, MessageInvariant, PTL
=============================================================================
