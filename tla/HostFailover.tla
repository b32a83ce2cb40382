---------------------------- MODULE HostFailover ----------------------------
(***************************************************************************)
(* Failing over between quotation servers: Service.Fetch and fetch of      *)
(* src/routes/kline/service.go and, with one route and fewer outcomes,     *)
(* query of src/routes/quotes/service.go and MACMarketMonitor of           *)
(* src/cmd/webviewer/mac_sse_client.go.                                    *)
(*                                                                         *)
(* A request asks the hosts of a route one after the other, each over a    *)
(* connection of its own, beginning with the one that answered last.       *)
(* Requests run concurrently and share, per route, the number of that      *)
(* host.  A step is a critical section of service.mu or one host's answer. *)
(***************************************************************************)
EXTENDS Integers, FiniteSets

CONSTANTS
    Request,    \* the requests that are made, each once
    Hosts,      \* the number of hosts of each route
    Initially,  \* bound: the conditions hosts are in to begin with
    MaxChanges  \* bound: how often a host changes

Route == {"stock", "index", "exIndex"}
\* What a host makes of a query: bars, none, bars that are too old, too many.
Condition == {"bars", "empty", "stale", "tooMany", "down"}
Usable == {"bars", "empty"}

ASSUME FailoverAssumption ==
    /\ Hosts \in [Route -> Nat \ {0}]
    /\ Initially \subseteq Condition /\ MaxChanges \in Nat

Host(k) == 0..(Hosts[k] - 1)

VARIABLES
    hosts,      \* external: the condition of each route's hosts
    changes,
    preferred,  \* preferredStock, preferredIndex, preferredEx
    pc, route,  \* of each request
    from,       \* the local preferred
    offset,
    outcome,    \* of the present route, then of the request
    first,      \* the outcome of the first route of two
    steady      \* history: the hosts that were usable since the request began
                \* to ask the hosts of its route

external == <<hosts, changes>>
locals == <<pc, route, from, offset, outcome, first>>
vars == <<external, preferred, locals, steady>>

UsableNow(k) == {h \in Host(k) : hosts[k][h] \in Usable}

\* Mutant: the hosts before the preferred one are not asked.
Index_NoWrap(r) ==
    IF from[r] + offset[r] < Hosts[route[r]] THEN from[r] + offset[r] ELSE Hosts[route[r]] - 1

Index(r) == (from[r] + offset[r]) % Hosts[route[r]]

Goto(r, where) == pc' = [pc EXCEPT ![r] = where]

\* The request begins with the stock hosts or the main hosts of an index.
Begin(r, k) ==
    /\ pc[r] = "new"
    /\ route' = [route EXCEPT ![r] = k]
    /\ Goto(r, "prefer")
    /\ UNCHANGED <<external, preferred, from, offset, outcome, first, steady>>

\* preferredHost()
Prefer(r) ==
    /\ pc[r] = "prefer"
    /\ from' = [from EXCEPT ![r] = preferred[route[r]] % Hosts[route[r]]]
    /\ offset' = [offset EXCEPT ![r] = 0]
    /\ steady' = [steady EXCEPT ![r] = UsableNow(route[r])]
    /\ Goto(r, "ask")
    /\ UNCHANGED <<external, preferred, route, outcome, first>>

\* A host answers with bars, or with none.
HostAnswers(r) ==
    LET k == route[r]
    IN /\ pc[r] = "ask"
       /\ offset[r] < Hosts[k]
       /\ hosts[k][Index(r)] \in Usable
       /\ outcome' = [outcome EXCEPT ![r] = hosts[k][Index(r)]]
       /\ Goto(r, "note")
       /\ UNCHANGED <<external, preferred, route, from, offset, first, steady>>

\* Mutant: the next host is not tried.
NextOffset_Same(n) == n

NextOffset(n) == n + 1

\* A host does not answer, or its bars are too old (validateLiveFreshness).
HostFails(r) ==
    LET k == route[r]
    IN /\ pc[r] = "ask"
       /\ offset[r] < Hosts[k]
       /\ hosts[k][Index(r)] \in {"down", "stale"}
       /\ offset' = [offset EXCEPT ![r] = NextOffset(@)]
       /\ UNCHANGED <<external, preferred, pc, route, from, outcome, first, steady>>

\* ErrTooManyBars ends the search, and says nothing of the host.
TooMany(r) ==
    LET k == route[r]
    IN /\ pc[r] = "ask"
       /\ offset[r] < Hosts[k]
       /\ hosts[k][Index(r)] = "tooMany"
       /\ outcome' = [outcome EXCEPT ![r] = "tooMany"]
       /\ Goto(r, "routeDone")
       /\ UNCHANGED <<external, preferred, route, from, offset, first, steady>>

AllFailed(r) ==
    /\ pc[r] = "ask"
    /\ offset[r] = Hosts[route[r]]
    /\ outcome' = [outcome EXCEPT ![r] = "error"]
    /\ Goto(r, "routeDone")
    /\ UNCHANGED <<external, preferred, route, from, offset, first, steady>>

\* Mutant: the sum is not reduced.
Noted_Unreduced(r) == from[r] + offset[r]

Noted(r) == Index(r)

\* setPreferredHost()
Note(r) ==
    /\ pc[r] = "note"
    /\ preferred' = [preferred EXCEPT ![route[r]] = Noted(r)]
    /\ Goto(r, "routeDone")
    /\ UNCHANGED <<external, route, from, offset, outcome, first, steady>>

\* Fetch: whatever the main hosts said of an index, other than bars, the
\* extended ones are asked.
SecondRoute(r) ==
    /\ pc[r] = "routeDone"
    /\ route[r] = "index" /\ outcome[r] # "bars"
    /\ first' = [first EXCEPT ![r] = outcome[r]]
    /\ route' = [route EXCEPT ![r] = "exIndex"]
    /\ Goto(r, "prefer")
    /\ UNCHANGED <<external, preferred, from, offset, outcome, steady>>

\* Mutant: the outcome of the second route is returned, whatever it is.
Returned_Second(r) == outcome[r]

\* Bars, or an error of the second route, or else the outcome of the first.
Returned(r) ==
    IF route[r] # "exIndex" \/ outcome[r] # "empty" THEN outcome[r] ELSE first[r]

Return(r) ==
    /\ pc[r] = "routeDone"
    /\ ~(route[r] = "index" /\ outcome[r] # "bars")
    /\ outcome' = [outcome EXCEPT ![r] = Returned(r)]
    /\ Goto(r, "done")
    /\ UNCHANGED <<external, preferred, route, from, offset, first, steady>>

\* External: a host's condition changes.
Change(k, h, condition) ==
    /\ changes < MaxChanges
    /\ changes' = changes + 1
    /\ condition # hosts[k][h]
    /\ hosts' = [hosts EXCEPT ![k][h] = condition]
    /\ steady' = [r \in Request |->
                    IF route[r] = k /\ condition \notin Usable THEN steady[r] \ {h} ELSE steady[r]]
    /\ UNCHANGED <<preferred, locals>>

-----------------------------------------------------------------------------

Init ==
    /\ hosts \in {f \in [Route -> UNION {[Host(k) -> Initially] : k \in Route}] :
                    \A k \in Route : DOMAIN f[k] = Host(k)}
    /\ changes = 0
    /\ preferred = [k \in Route |-> 0]
    /\ pc = [r \in Request |-> "new"]
    /\ route = [r \in Request |-> "stock"]
    /\ from = [r \in Request |-> 0]
    /\ offset = [r \in Request |-> 0]
    /\ outcome = [r \in Request |-> "none"]
    /\ first = [r \in Request |-> "none"]
    /\ steady = [r \in Request |-> {}]

Step(r) ==
    \/ Prefer(r)
    \/ HostAnswers(r)
    \/ HostFails(r)
    \/ TooMany(r)
    \/ AllFailed(r)
    \/ Note(r)
    \/ SecondRoute(r)
    \/ Return(r)

Next ==
    \/ \E r \in Request : (\E k \in {"stock", "index"} : Begin(r, k)) \/ Step(r)
    \/ \E k \in Route : \E h \in Host(k), condition \in Condition : Change(k, h, condition)

Spec == Init /\ [][Next]_vars

\* Each query of a host ends, at the latest after its timeout.
FairSpec == Spec /\ \A r \in Request : WF_vars(Step(r))

-----------------------------------------------------------------------------
(* Properties                                                              *)

TypeOK ==
    /\ hosts \in [Route -> UNION {[Host(k) -> Condition] : k \in Route}]
    /\ preferred \in [Route -> Nat]
    /\ \A k \in Route : hosts[k] \in [Host(k) -> Condition] /\ preferred[k] \in Host(k)
    /\ changes \in 0..MaxChanges
    /\ pc \in [Request -> {"new", "prefer", "ask", "note", "routeDone", "done"}]
    /\ route \in [Request -> Route]
    /\ from \in [Request -> Nat] /\ offset \in [Request -> Nat]
    /\ steady \in [Request -> SUBSET Nat]
    /\ \A r \in Request :
        pc[r] \notin {"new", "prefer"} => /\ from[r] \in Host(route[r])
                                        /\ offset[r] \in 0..Hosts[route[r]]
                                        /\ steady[r] \subseteq Host(route[r])
    /\ outcome \in [Request -> Usable \cup {"none", "tooMany", "error"}]
    /\ first \in [Request -> {"none", "empty", "tooMany", "error"}]

\* As long as one host of the route is usable throughout, asking its hosts
\* does not end in an error, wherever it began and whatever the others do.
SurvivesFailures ==
    \A r \in Request :
        pc[r] = "routeDone" /\ outcome[r] = "error" => steady[r] = {}

\* An index is said to have no bars only if neither kind of host failed to
\* answer: an error is not turned into an empty answer.
EmptyIsTrue ==
    \A r \in Request :
        pc[r] = "done" /\ route[r] = "exIndex" /\ outcome[r] = "empty" => first[r] = "empty"

\* Every request returns.
RequestsReturn == \A r \in Request : (pc[r] # "new") ~> (pc[r] = "done")
=============================================================================
