------------------------- MODULE HostFailoverProofs -------------------------
(***************************************************************************)
(* SurvivesFailures and EmptyIsTrue for any requests, any number of hosts  *)
(* and any changes of them, proved with TLAPS.                             *)
(*                                                                         *)
(* The argument: a host that was asked and did not answer was not usable   *)
(* at that moment, so that it is not among the steady ones, which only get *)
(* fewer (AskedNotSteady); and once offset has gone from 0 to the number   *)
(* of hosts, the sums modulo that number have met every host, wherever     *)
(* they began (RoundMeetsAll).                                             *)
(***************************************************************************)
EXTENDS HostFailover, TLAPS

\* The host that is asked when offset is n.
Asked(r, n) == (from[r] + n) % Hosts[route[r]]

\* While a request asks, none of the hosts it has asked was usable throughout.
AskedNotSteady ==
    \A r \in Request : pc[r] = "ask" =>
        \A n \in 0..(offset[r] - 1) : Asked(r, n) \notin steady[r]

\* Those that are steady are usable.
SteadyUsable ==
    \A r \in Request : pc[r] = "ask" => steady[r] \subseteq UsableNow(route[r])

\* A host is noted only if it has answered.
AnswerNoted == \A r \in Request : pc[r] = "note" => outcome[r] \in Usable

FailoverInv ==
    /\ TypeOK /\ AskedNotSteady /\ SteadyUsable /\ AnswerNoted
    /\ SurvivesFailures /\ EmptyIsTrue

-----------------------------------------------------------------------------
(* Arithmetic of the round.                                                *)

\* A number below twice another one, modulo the other.
LEMMA ModOnce ==
    ASSUME NEW a \in Nat, NEW n \in Nat \ {0}, a < n + n
    PROVE  a % n = IF a < n THEN a ELSE a - n
OBVIOUS

\* From anywhere, as many steps as there are hosts meet each of them.
LEMMA RoundMeetsAll ==
    ASSUME NEW n \in Nat \ {0}, NEW start \in 0..(n - 1), NEW h \in 0..(n - 1)
    PROVE  \E j \in 0..(n - 1) : (start + j) % n = h
<1>1. CASE start <= h
    <2>1. h - start \in Nat /\ h - start \in 0..(n - 1) /\ start + (h - start) = h
        BY <1>1
    <2>2. h % n = h
        BY ModOnce
    <2> QED BY <2>1, <2>2
<1>2. CASE start > h
    <2>1. h + n - start \in Nat /\ h + n - start \in 0..(n - 1) /\ start + (h + n - start) = h + n
        BY <1>2
    <2>2. (h + n) % n = h
        BY ModOnce
    <2> QED BY <2>1, <2>2
<1> QED BY <1>1, <1>2


-----------------------------------------------------------------------------
(* The steps.                                                              *)

\* The numbers of the hosts; the host a request asks is one of them.
LEMMA HostNumbers ==
    ASSUME NEW k \in Route
    PROVE  /\ Hosts[k] \in Nat \ {0}
           /\ Host(k) = 0..(Hosts[k] - 1) /\ Host(k) \subseteq Nat
           /\ 0 \in Host(k) /\ 0 \in 0..Hosts[k]
           /\ UsableNow(k) \subseteq Host(k)
           /\ \A p \in Nat : p % Hosts[k] \in Host(k)
BY FailoverAssumption DEF Host, UsableNow

\* The invariant holds before the first request.
LEMMA InitFailover == Init => FailoverInv
<1> SUFFICES ASSUME Init PROVE FailoverInv
    OBVIOUS
<1>1. \A k \in Route : hosts[k] \in [Host(k) -> Condition]
    <2> SUFFICES ASSUME NEW k \in Route PROVE hosts[k] \in [Host(k) -> Condition]
        OBVIOUS
    <2>1. hosts[k] \in UNION {[Host(l) -> Initially] : l \in Route} /\ DOMAIN hosts[k] = Host(k)
        BY DEF Init
    <2>2. PICK l \in Route : hosts[k] \in [Host(l) -> Initially]
        BY <2>1
    <2> QED BY <2>1, <2>2, FailoverAssumption
<1>2. TypeOK
    <2>1. hosts \in [Route -> UNION {[Host(k) -> Condition] : k \in Route}]
        <3>1. hosts \in [Route -> UNION {[Host(k) -> Initially] : k \in Route}]
            BY DEF Init
        <3> QED BY <1>1, <3>1
    <2>2. \A k \in Route : 0 \in Host(k)
        BY HostNumbers
    <2>3. 0 \in 0..MaxChanges /\ "stock" \in Route
        BY FailoverAssumption DEF Route
    <2> QED BY <1>1, <2>1, <2>2, <2>3 DEF Init, TypeOK
<1> QED BY <1>2 DEF Init, FailoverInv, AskedNotSteady, SteadyUsable, AnswerNoted, SurvivesFailures, EmptyIsTrue

\* The types are kept by each step.
LEMMA NextType ==
    ASSUME TypeOK, AnswerNoted, [Next]_vars
    PROVE  TypeOK'
<1> USE DEF TypeOK
<1>1. ASSUME NEW r \in Request, NEW k \in {"stock", "index"}, Begin(r, k)
      PROVE  TypeOK'
    BY <1>1 DEF Begin, Goto, external, Route
<1>2. ASSUME NEW r \in Request, Prefer(r)
      PROVE  TypeOK'
    <2>1. route[r] \in Route /\ preferred[route[r]] % Hosts[route[r]] \in Host(route[r])
        BY HostNumbers
    <2> HIDE DEF TypeOK
    <2>2. /\ Host(route[r]) \subseteq Nat /\ 0 \in 0..Hosts[route[r]]
          /\ UsableNow(route[r]) \subseteq Host(route[r])
        BY <2>1, HostNumbers
    <2> QED BY <1>2, <2>1, <2>2 DEF Prefer, Goto, external, TypeOK
<1>3. ASSUME NEW r \in Request, HostAnswers(r)
      PROVE  TypeOK'
    BY <1>3 DEF HostAnswers, Goto, external
<1>4. ASSUME NEW r \in Request, HostFails(r)
      PROVE  TypeOK'
    <2>1. route[r] \in Route /\ Hosts[route[r]] \in Nat
        BY HostNumbers
    <2>2. offset[r] + 1 \in 0..Hosts[route[r]]
        BY <1>4, <2>1 DEF HostFails
    <2> QED BY <1>4, <2>2 DEF HostFails, NextOffset, external
<1>5. ASSUME NEW r \in Request, TooMany(r)
      PROVE  TypeOK'
    BY <1>5 DEF TooMany, Goto, external
<1>6. ASSUME NEW r \in Request, AllFailed(r)
      PROVE  TypeOK'
    BY <1>6 DEF AllFailed, Goto, external
<1>7. ASSUME NEW r \in Request, Note(r)
      PROVE  TypeOK'
    <2>1. route[r] \in Route /\ from[r] + offset[r] \in Nat
        OBVIOUS
    <2>2. Noted(r) \in Host(route[r])
        BY <2>1, HostNumbers DEF Noted, Index
    <2>3. Noted(r) \in Nat
        BY <2>1, <2>2, HostNumbers
    <2> QED BY <1>7, <2>1, <2>2, <2>3 DEF Note, Goto, external
<1>8. ASSUME NEW r \in Request, SecondRoute(r)
      PROVE  TypeOK'
    BY <1>8 DEF SecondRoute, Goto, external, Route, Usable
<1>9. ASSUME NEW r \in Request, Return(r)
      PROVE  TypeOK'
    <2>1. Returned(r) \in Usable \cup {"none", "tooMany", "error"}
        BY DEF Returned, Usable
    <2> QED BY <1>9, <2>1 DEF Return, Goto, external
<1>10. ASSUME NEW k \in Route, NEW h \in Host(k), NEW condition \in Condition, Change(k, h, condition)
       PROVE  TypeOK'
    <2>1. hosts'[k] \in [Host(k) -> Condition] /\ \A l \in Route \ {k} : hosts'[l] = hosts[l]
        BY <1>10 DEF Change
    <2>2. hosts' \in [Route -> UNION {[Host(l) -> Condition] : l \in Route}]
        BY <1>10, <2>1 DEF Change
    <2>3. \A r \in Request : steady'[r] \subseteq steady[r]
        BY <1>10 DEF Change
    <2>4. changes' \in 0..MaxChanges
        BY <1>10, FailoverAssumption DEF Change
    <2>5. steady' \in [Request -> SUBSET Nat]
        BY <1>10, <2>3 DEF Change
    <2> QED BY <1>10, <2>1, <2>2, <2>3, <2>4, <2>5 DEF Change, locals
<1>11. CASE UNCHANGED vars
    BY <1>11 DEF vars, external, locals
<1> QED BY <1>1, <1>2, <1>3, <1>4, <1>5, <1>6, <1>7, <1>8, <1>9, <1>10, <1>11 DEF Next, Step


\* A host asked in vain was not usable, and the round meets every host.
LEMMA NextAsked ==
    ASSUME FailoverInv, [Next]_vars
    PROVE  AskedNotSteady' /\ SteadyUsable' /\ AnswerNoted' /\ SurvivesFailures'
<1> USE DEF FailoverInv
<1> DEFINE A(q) == pc[q] = "ask" => \A n \in 0..(offset[q] - 1) : Asked(q, n) \notin steady[q]
           U(q) == pc[q] = "ask" => steady[q] \subseteq UsableNow(route[q])
           N(q) == pc[q] = "note" => outcome[q] \in Usable
           S(q) == pc[q] = "routeDone" /\ outcome[q] = "error" => steady[q] = {}
<1>1. \A q \in Request : A(q) /\ U(q) /\ N(q) /\ S(q)
    BY DEF AskedNotSteady, SteadyUsable, AnswerNoted, SurvivesFailures
<1>2. SUFFICES ASSUME NEW q \in Request PROVE A(q)' /\ U(q)' /\ N(q)' /\ S(q)'
    BY DEF AskedNotSteady, SteadyUsable, AnswerNoted, SurvivesFailures
<1>3. /\ route[q] \in Route /\ offset[q] \in Nat /\ from[q] \in Nat
      /\ pc = [r \in Request |-> pc[r]]
      /\ outcome = [r \in Request |-> outcome[r]]
      /\ route \in [Request -> Route] /\ from \in [Request -> Nat] /\ offset \in [Request -> Nat]
      /\ steady \in [Request -> SUBSET Nat]
    BY DEF TypeOK, Usable
<1> HIDE DEF FailoverInv
<1>4. ASSUME NEW r \in Request, NEW k \in {"stock", "index"}, Begin(r, k)
      PROVE  A(q)' /\ U(q)' /\ N(q)' /\ S(q)'
    BY <1>1, <1>3, <1>4 DEF Begin, Goto, external, Asked, UsableNow
<1>5. ASSUME NEW r \in Request, Prefer(r)
      PROVE  A(q)' /\ U(q)' /\ N(q)' /\ S(q)'
    BY <1>1, <1>3, <1>5 DEF Prefer, Goto, external, Asked, UsableNow
<1>6. ASSUME NEW r \in Request, HostAnswers(r)
      PROVE  A(q)' /\ U(q)' /\ N(q)' /\ S(q)'
    BY <1>1, <1>3, <1>6 DEF HostAnswers, Goto, external, Asked, UsableNow
<1>7. ASSUME NEW r \in Request, HostFails(r)
      PROVE  A(q)' /\ U(q)' /\ N(q)' /\ S(q)'
    <2>1. CASE q # r
        BY <1>1, <1>3, <1>7, <2>1 DEF HostFails, external, Asked, UsableNow
    <2>2. CASE q = r
        <3>1. Asked(r, offset[r]) \notin steady[r]
            BY <1>1, <1>7, <2>2 DEF HostFails, UsableNow, Usable, Asked, Index
        <3>2. pc' = pc /\ offset'[r] = offset[r] + 1 /\ steady' = steady /\ route' = route /\ from' = from
              /\ hosts' = hosts /\ outcome' = outcome
            BY <1>3, <1>7 DEF HostFails, NextOffset, external
        <3>3. A(q)'
            <4> SUFFICES ASSUME NEW n \in 0..offset[r], pc[r] = "ask" PROVE Asked(r, n) \notin steady[r]
                BY <1>3, <2>2, <3>2 DEF Asked
            <4>1. CASE n = offset[r]
                BY <3>1, <4>1
            <4>2. CASE n \in 0..(offset[r] - 1)
                BY <1>1, <2>2, <4>2
            <4> QED BY <1>3, <2>2, <4>1, <4>2
        <3> QED BY <1>1, <3>2, <3>3 DEF UsableNow
    <2> QED BY <2>1, <2>2
<1>8. ASSUME NEW r \in Request, TooMany(r)
      PROVE  A(q)' /\ U(q)' /\ N(q)' /\ S(q)'
    BY <1>1, <1>3, <1>8 DEF TooMany, Goto, external, Asked, UsableNow
<1>9. ASSUME NEW r \in Request, AllFailed(r)
      PROVE  A(q)' /\ U(q)' /\ N(q)' /\ S(q)'
    <2>1. CASE q # r
        BY <1>1, <1>3, <1>9, <2>1 DEF AllFailed, Goto, external, Asked, UsableNow
    <2>2. CASE q = r
        <3>1. pc[r] = "ask" /\ offset[r] = Hosts[route[r]]
            BY <1>9 DEF AllFailed
        <3>2. /\ Hosts[route[r]] \in Nat \ {0}
              /\ from[r] \in 0..(Hosts[route[r]] - 1) /\ steady[r] \subseteq 0..(Hosts[route[r]] - 1)
            BY <3>1, <2>2, <1>3, HostNumbers DEF FailoverInv, TypeOK
        <3>3. steady[r] = {}
            <4> SUFFICES ASSUME NEW h \in steady[r] PROVE FALSE
                OBVIOUS
            <4>1. PICK j \in 0..(Hosts[route[r]] - 1) : (from[r] + j) % Hosts[route[r]] = h
                BY <3>2, RoundMeetsAll
            <4> QED BY <4>1, <3>1, <1>1, <2>2 DEF Asked
        <3> QED BY <1>1, <1>3, <1>9, <2>2, <3>3 DEF AllFailed, Goto, external
    <2> QED BY <2>1, <2>2
<1>10. ASSUME NEW r \in Request, Note(r)
       PROVE  A(q)' /\ U(q)' /\ N(q)' /\ S(q)'
    BY <1>1, <1>3, <1>10 DEF Note, Goto, external, Asked, UsableNow, Usable
<1>11. ASSUME NEW r \in Request, SecondRoute(r)
       PROVE  A(q)' /\ U(q)' /\ N(q)' /\ S(q)'
    BY <1>1, <1>3, <1>11 DEF SecondRoute, Goto, external, Asked, UsableNow
<1>12. ASSUME NEW r \in Request, Return(r)
       PROVE  A(q)' /\ U(q)' /\ N(q)' /\ S(q)'
    BY <1>1, <1>3, <1>12 DEF Return, Goto, external, Asked, UsableNow
<1>13. ASSUME NEW k \in Route, NEW h \in Host(k), NEW condition \in Condition, Change(k, h, condition)
       PROVE  A(q)' /\ U(q)' /\ N(q)' /\ S(q)'
    <2>1. /\ pc' = pc /\ route' = route /\ from' = from /\ offset' = offset /\ outcome' = outcome
          /\ steady'[q] = IF route[q] = k /\ condition \notin Usable THEN steady[q] \ {h} ELSE steady[q]
        BY <1>13 DEF Change, locals
    <2>2. \A l \in Route : \A g \in Host(l) :
              hosts'[l][g] = IF l = k /\ g = h THEN condition ELSE hosts[l][g]
        BY <1>13 DEF Change, FailoverInv, TypeOK
    <2>3. A(q)' /\ N(q)' /\ S(q)'
        BY <1>1, <2>1 DEF Asked
    <2>4. U(q)'
        BY <1>1, <1>3, <2>1, <2>2 DEF UsableNow
    <2> QED BY <2>3, <2>4
<1>14. CASE UNCHANGED vars
    BY <1>1, <1>14 DEF vars, external, locals, Asked, UsableNow
<1> QED BY <1>4, <1>5, <1>6, <1>7, <1>8, <1>9, <1>10, <1>11, <1>12, <1>13, <1>14 DEF Next, Step


\* An empty answer of the second route is returned only with one of the first.
LEMMA NextEmpty ==
    ASSUME FailoverInv, [Next]_vars
    PROVE  EmptyIsTrue'
<1> SUFFICES ASSUME NEW q \in Request, pc'[q] = "done", route'[q] = "exIndex", outcome'[q] = "empty"
             PROVE  first'[q] = "empty"
    BY DEF EmptyIsTrue
<1>1. /\ pc = [r \in Request |-> pc[r]] /\ outcome = [r \in Request |-> outcome[r]]
      /\ route \in [Request -> Route] /\ first = [r \in Request |-> first[r]]
      /\ pc[q] = "done" /\ route[q] = "exIndex" /\ outcome[q] = "empty" => first[q] = "empty"
    BY DEF FailoverInv, TypeOK, EmptyIsTrue
<1>2. ASSUME NEW r \in Request, NEW k \in {"stock", "index"}, Begin(r, k)
      PROVE  first'[q] = "empty"
    BY <1>1, <1>2 DEF Begin, Goto
<1>3. ASSUME NEW r \in Request, Return(r)
      PROVE  first'[q] = "empty"
    BY <1>1, <1>3 DEF Return, Returned, Goto
<1>4. ASSUME NEW r \in Request, Step(r), ~Return(r)
      PROVE  first'[q] = "empty"
    BY <1>1, <1>4 DEF Step, Prefer, HostAnswers, HostFails, TooMany, AllFailed, Note, SecondRoute, Goto
<1>5. ASSUME NEW k \in Route, NEW h \in Host(k), NEW condition \in Condition, Change(k, h, condition)
      PROVE  first'[q] = "empty"
    BY <1>1, <1>5 DEF Change, locals
<1>6. CASE UNCHANGED vars
    BY <1>1, <1>6 DEF vars, locals
<1> QED BY <1>2, <1>3, <1>4, <1>5, <1>6 DEF Next

-----------------------------------------------------------------------------
(* The theorems.                                                           *)

\* The inductive invariant holds in every state of every behaviour.
THEOREM FailoverInvariant == Spec => []FailoverInv
<1>1. FailoverInv /\ [Next]_vars => FailoverInv'
    <2> SUFFICES ASSUME FailoverInv, [Next]_vars PROVE FailoverInv'
        OBVIOUS
    <2>1. TypeOK'
        BY NextType DEF FailoverInv
    <2> QED BY <2>1, NextAsked, NextEmpty DEF FailoverInv
<1> QED BY <1>1, InitFailover, PTL DEF Spec

\* The variables of the failover keep their types: a request's host is one of its route's.
THEOREM FailoverTypes == Spec => []TypeOK
<1>1. FailoverInv => TypeOK
    BY DEF FailoverInv
<1> QED BY <1>1, FailoverInvariant, PTL

\* fetch (routes/kline/service.go) does not end in an error while one of the route's hosts
\* can be used, wherever the shared preference made it begin.
THEOREM FailuresSurvived == Spec => []SurvivesFailures
<1>1. FailoverInv => SurvivesFailures
    BY DEF FailoverInv
<1> QED BY <1>1, FailoverInvariant, PTL

\* Fetch does not turn an error of one of an index's routes into an empty answer.
THEOREM EmptyAnswersTrue == Spec => []EmptyIsTrue
<1>1. FailoverInv => EmptyIsTrue
    BY DEF FailoverInv
<1> QED BY <1>1, FailoverInvariant, PTL
=============================================================================
