------------------------------ MODULE TdxClient ------------------------------
(***************************************************************************)
(* The life of the connections of a quotation client (src/client.go,       *)
(* client_helpers.go, client_unified.go, client_mac.go).                   *)
(*                                                                         *)
(* A client has one connection, made on demand, and one mutex that is held *)
(* while it connects or exchanges a request for a reply.  A client of one  *)
(* mode makes a child client for the requests of another mode.  Several    *)
(* goroutines, the callers, use one client, the root.                      *)
(*                                                                         *)
(* A step is a critical section of a client's mu, an unlocked access, or,  *)
(* while a client connects, a dial or a handshake: the connection being    *)
(* set up is visible to those who look at it without the mutex.            *)
(*                                                                         *)
(* A socket carries the replies its server has been asked for and that     *)
(* nobody has read; a reply is told by the request it answers.             *)
(***************************************************************************)
EXTENDS Integers, Sequences, SequencesExt, FiniteSets

CONSTANTS
    Caller,     \* goroutines that use the root
    Child,      \* bound: the child clients that exist at a time
    Socket,     \* bound: the sockets that are open at a time
    Address,
    Hosts,      \* the configured addresses of each mode: the primary and its pool
    Calls,      \* the <<mode of the root, operation>> that are used
    AutoSelect, \* Options.AutoSelectFastest
    MaxCalls,   \* bound: calls a caller makes
    root, None

Mode == {"main", "ex", "mac"}
Object == Child \cup {root}
Request == Caller \X (1..MaxCalls)

ASSUME ClientAssumption ==
    /\ Hosts \in [Mode -> Seq(Address) \ {<<>>}]
    /\ \A k, l \in Mode : k # l => ToSet(Hosts[k]) \cap ToSet(Hosts[l]) = {}
    /\ Calls \subseteq Mode \X {"quote", "exQuote", "macQuote", "connect", "connectEx", "disconnect"}
    /\ AutoSelect \in BOOLEAN /\ MaxCalls \in Nat
    /\ root \notin Child /\ None \notin Object \cup Socket \cup Address
    /\ None \notin [address : Address, replies : Seq(Request)]

VARIABLES
    clients,   \* the fields of the root and its children: mode, conn, opt, main, ex
    sockets,   \* None for one that is not open
    pc, op,    \* where each caller is, and in which operation
    target,    \* the client it works on
    order,     \* the addresses it has still to try; the clients it has still to disconnect
    calls,     \* how many calls it has made
    answer,    \* the reply its present call got
    careful    \* history: so far one call at a time, and none to connect twice

vars == <<clients, sockets, pc, op, target, order, calls, answer, careful>>

Open == {s \in Socket : sockets[s] # None}

\* Mutants: the addresses of the mode are not looked up; its primary is not.
NewClient_ParentHosts(mode, opt) ==
    [mode |-> mode, conn |-> None, main |-> None, ex |-> None, opt |-> opt]
NewClient_NoPrimary(mode, opt) ==
    [mode |-> mode, conn |-> None, main |-> None, ex |-> None,
     opt |-> IF mode = "main" THEN opt ELSE [tcp |-> None, pool |-> Tail(Hosts[mode])]]

\* A client of this mode as newClientWithOptions makes it from the options opt
\* of its parent: a main client keeps the address and the pool it finds there.
NewClient(mode, opt) ==
    [mode |-> mode, conn |-> None, main |-> None, ex |-> None,
     opt |-> IF mode = "main" THEN opt ELSE [tcp |-> Head(Hosts[mode]), pool |-> Tail(Hosts[mode])]]

MainOptions == [tcp |-> Head(Hosts["main"]), pool |-> Tail(Hosts["main"])]

\* addresses()
Addresses(opt) == <<opt.tcp>> \o opt.pool

\* The sequences of what is at some places of as, in the order of the places: there is one.
AtPlaces(as, places) ==
    {[i \in DOMAIN p |-> as[p[i]]] :
        p \in {p \in SetToSeqs(places) : \A i, j \in DOMAIN p : i < j => p[i] < p[j]}}

\* The hosts that answer a probe first, each once and fastest first, and then the others.
ProbedOrders(as, answering) ==
    UNION {{fast \o others : others \in AtPlaces(as, {i \in DOMAIN as : as[i] \notin answering})} :
           fast \in SetToSeqs(answering)}

\* connectionOrder(): as configured, or after a probe.
ConnectionOrders(opt) ==
    IF ~AutoSelect THEN {Addresses(opt)}
    ELSE UNION {ProbedOrders(Addresses(opt), R) : R \in SUBSET ToSet(Addresses(opt))}

\* Nobody else holds the mutex of client k.
MuFree(k) == \A c \in Caller : ~(pc[c] \in {"dial", "handshake"} /\ target[c] = k)

Return(c) == pc' = [pc EXCEPT ![c] = "idle"]
Goto(c, where) == pc' = [pc EXCEPT ![c] = where]

\* The operations that begin by asking for a client of a mode.
Wanted(o) == IF o \in {"quote", "connect"} THEN "main" ELSE "ex"

-----------------------------------------------------------------------------
(* The beginning of a call                                                 *)

\* Does the root serve operation o itself?  Connect and ConnectEx go to a
\* child only from the other of the two modes.
Itself(o) ==
    LET mode == clients[root].mode
    IN /\ o \in {"quote", "exQuote"} => mode = Wanted(o)
       /\ o = "connect" => mode # "ex"
       /\ o = "connectEx" => mode # "main"

Call(c, o) ==
    /\ pc[c] = "idle"
    /\ calls[c] < MaxCalls
    /\ <<clients[root].mode, o>> \in Calls
    /\ op' = [op EXCEPT ![c] = o]
    /\ calls' = [calls EXCEPT ![c] = @ + 1]
    /\ answer' = [answer EXCEPT ![c] = None]
    /\ target' = [target EXCEPT ![c] = root]
    /\ Goto(c, IF ~Itself(o) THEN "child"
               ELSE CASE o = "macQuote"                   -> "connectMAC"
                      [] o = "disconnect"                 -> "disconnect"
                      [] o \in {"quote", "exQuote"}       -> "check"
                      [] o \in {"connect", "connectEx"}   -> "connect")
    /\ careful' = /\ careful
                  /\ \A d \in Caller : pc[d] = "idle"
                  /\ o \in {"connect", "connectEx"} => Open = {}
    /\ UNCHANGED <<clients, sockets, order>>

\* A child that nobody refers to.
Unused(k) ==
    /\ k \notin {clients[root].main, clients[root].ex}
    /\ \A c \in Caller : target[c] # k /\ k \notin ToSet(order[c])

\* quotationClient, exQuotationClient, Connect and ConnectEx take the child,
\* and make it if there is none, under the root's mutex.
TakeChild(c) ==
    LET kind == Wanted(op[c])
    IN /\ pc[c] = "child"
       /\ MuFree(root)
       /\ IF clients[root][kind] # None
            THEN target' = [target EXCEPT ![c] = clients[root][kind]] /\ UNCHANGED clients
            ELSE \E k \in Child :
                   /\ Unused(k)
                   /\ clients' = [clients EXCEPT ![k] = NewClient(kind, clients[root].opt),
                                                 ![root] = [@ EXCEPT ![kind] = k]]
                   /\ target' = [target EXCEPT ![c] = k]
       /\ Goto(c, IF op[c] \in {"quote", "exQuote"} THEN "check" ELSE "connect")
       /\ UNCHANGED <<sockets, op, order, calls, answer, careful>>

\* Is there a connection?  Read without the mutex.
Check(c) ==
    /\ pc[c] = "check"
    /\ Goto(c, IF clients[target[c]].conn = None THEN "connect" ELSE "exchange")
    /\ UNCHANGED <<clients, sockets, op, target, order, calls, answer, careful>>

-----------------------------------------------------------------------------
(* Connecting, under the target's mutex from the first dial to the last    *)

\* Connect and ConnectEx; ConnectMAC only if there is no connection.
StartConnect(c) ==
    LET k == target[c]
    IN /\ pc[c] \in {"connect", "connectMAC"}
       /\ MuFree(k)
       /\ IF pc[c] = "connectMAC" /\ clients[k].conn # None
            THEN Goto(c, "exchange") /\ UNCHANGED order
            ELSE /\ \E as \in ConnectionOrders(clients[k].opt) : order' = [order EXCEPT ![c] = as]
                 /\ Goto(c, "dial")
       /\ UNCHANGED <<clients, sockets, op, target, calls, answer, careful>>

\* Mutant: the address that answered is not noted.
Dialled_Unnoted(k, s, a) == [clients EXCEPT ![k].conn = s]

\* connectToAddress: what was in conn is not looked at.
Dialled(k, s, a) == [clients EXCEPT ![k].conn = s, ![k].opt.tcp = a]

Dial(c) ==
    /\ pc[c] = "dial"
    /\ order[c] # <<>>
    /\ \E s \in Socket \ Open :
         LET a == Head(order[c])
         IN /\ sockets' = [sockets EXCEPT ![s] = [address |-> a, replies |-> <<>>]]
            /\ clients' = Dialled(target[c], s, a)
    /\ Goto(c, IF op[c] = "macQuote" THEN "exchange" ELSE "handshake")
    /\ UNCHANGED <<op, target, order, calls, answer, careful>>

\* Mutant: the address that failed is tried again.
NextAddress_Same(as) == as

NextAddress(as) == Tail(as)

DialFails(c) ==
    /\ pc[c] = "dial"
    /\ order[c] # <<>>
    /\ order' = [order EXCEPT ![c] = NextAddress(@)]
    /\ UNCHANGED <<clients, sockets, pc, op, target, calls, answer, careful>>

\* Every address has failed: an error.
NoAddressLeft(c) ==
    /\ pc[c] = "dial"
    /\ order[c] = <<>>
    /\ Return(c)
    /\ UNCHANGED <<clients, sockets, op, target, order, calls, answer, careful>>

Handshake(c) ==
    /\ pc[c] = "handshake"
    /\ Goto(c, IF op[c] \in {"quote", "exQuote"} THEN "exchange" ELSE "idle")
    /\ order' = [order EXCEPT ![c] = <<>>]
    /\ UNCHANGED <<clients, sockets, op, target, calls, answer, careful>>

\* Mutant: the connection is forgotten but not closed.
Closed_Open(k) == sockets

\* closeCurrentConn, as far as the socket is concerned.
Closed(k) ==
    IF clients[k].conn = None THEN sockets ELSE [sockets EXCEPT ![clients[k].conn] = None]

HandshakeFails(c) ==
    LET k == target[c]
    IN /\ pc[c] = "handshake"
       /\ sockets' = Closed(k)
       /\ clients' = [clients EXCEPT ![k].conn = None]
       /\ order' = [order EXCEPT ![c] = NextAddress(@)]
       /\ Goto(c, "dial")
       /\ UNCHANGED <<op, target, calls, answer, careful>>

-----------------------------------------------------------------------------
(* executeProtocol: a request for a reply, under the target's mutex        *)

\* The replies that will come out of the caller's connection, in this order.
Replies(c) == Append(sockets[clients[target[c]].conn].replies, <<c, calls[c]>>)

CanExchange(c) ==
    /\ pc[c] = "exchange"
    /\ MuFree(target[c])
    /\ Return(c)
    /\ order' = [order EXCEPT ![c] = <<>>]
    /\ UNCHANGED <<op, target, calls, careful>>

\* "connection is nil", or the request cannot be built.
NotSent(c) ==
    /\ CanExchange(c)
    /\ UNCHANGED <<clients, sockets, answer>>

\* A whole frame is read: whatever ParseResponse makes of it, the connection stays.
Exchange(c) ==
    LET s == clients[target[c]].conn
    IN /\ CanExchange(c)
       /\ s # None
       /\ sockets' = [sockets EXCEPT ![s].replies = Tail(Replies(c))]
       /\ \/ answer' = [answer EXCEPT ![c] = [request |-> Head(Replies(c)),
                                              address |-> sockets[s].address]]
          \/ UNCHANGED answer
       /\ UNCHANGED clients

\* Mutant: the connection is kept after an error.
AfterError_Kept(c) ==
    /\ sockets' = [sockets EXCEPT ![clients[target[c]].conn].replies = Replies(c)]
    /\ UNCHANGED clients

\* The deferred closeCurrentConn.
AfterError(c) ==
    /\ sockets' = Closed(target[c])
    /\ clients' = [clients EXCEPT ![target[c]].conn = None]

\* Writing or reading fails, times out, or finds a frame it does not take: the
\* reply, or what is left of it, would still come out of the connection.
ExchangeFails(c) ==
    /\ CanExchange(c)
    /\ clients[target[c]].conn # None
    /\ AfterError(c)
    /\ UNCHANGED answer

-----------------------------------------------------------------------------
(* Disconnect                                                              *)

\* The child, if there is one.
IfAny(k) == IF k = None THEN <<>> ELSE <<k>>

\* The root: fields are taken under the mutex, the connection is closed after it.
DisconnectRoot(c) ==
    /\ pc[c] = "disconnect"
    /\ MuFree(root)
    /\ sockets' = Closed(root)
    /\ clients' = [clients EXCEPT ![root] = [@ EXCEPT !.conn = None, !.main = None, !.ex = None]]
    /\ order' = [order EXCEPT ![c] = IfAny(clients[root].main) \o IfAny(clients[root].ex)]
    /\ Goto(c, "children")
    /\ UNCHANGED <<op, target, calls, answer, careful>>

\* Then the children it had, one after the other.
DisconnectChild(c) ==
    LET k == Head(order[c])
    IN /\ pc[c] = "children"
       /\ order[c] # <<>>
       /\ MuFree(k)
       /\ sockets' = Closed(k)
       /\ clients' = [clients EXCEPT ![k].conn = None]
       /\ order' = [order EXCEPT ![c] = Tail(@)]
       /\ UNCHANGED <<pc, op, target, calls, answer, careful>>

Disconnected(c) ==
    /\ pc[c] = "children"
    /\ order[c] = <<>>
    /\ Return(c)
    /\ UNCHANGED <<clients, sockets, op, target, order, calls, answer, careful>>

-----------------------------------------------------------------------------

Init ==
    /\ \E mode \in {call[1] : call \in Calls} :
         clients = [k \in Object |->
                      IF k = root THEN NewClient(mode, MainOptions) ELSE NewClient("main", MainOptions)]
    /\ sockets = [s \in Socket |-> None]
    /\ pc = [c \in Caller |-> "idle"]
    /\ op = [c \in Caller |-> "quote"]
    /\ target = [c \in Caller |-> root]
    /\ order = [c \in Caller |-> <<>>]
    /\ calls = [c \in Caller |-> 0]
    /\ answer = [c \in Caller |-> None]
    /\ careful = TRUE

Step(c) ==
    \/ TakeChild(c)
    \/ Check(c)
    \/ StartConnect(c)
    \/ Dial(c)
    \/ DialFails(c)
    \/ NoAddressLeft(c)
    \/ Handshake(c)
    \/ HandshakeFails(c)
    \/ NotSent(c)
    \/ Exchange(c)
    \/ ExchangeFails(c)
    \/ DisconnectRoot(c)
    \/ DisconnectChild(c)
    \/ Disconnected(c)

Next == \E c \in Caller : (\E o \in {call[2] : call \in Calls} : Call(c, o)) \/ Step(c)

Spec == Init /\ [][Next]_vars

\* A goroutine that can go on does: every dial and exchange has a deadline, and
\* a goroutine that waits for a Go mutex gets it.
FairSpec == Spec /\ \A c \in Caller : SF_vars(Step(c))

-----------------------------------------------------------------------------
(* Properties                                                              *)

ClientState ==
    [mode : Mode, conn : Socket \cup {None}, main : Child \cup {None}, ex : Child \cup {None},
     opt : [tcp : Address, pool : Seq(Address)]]

TypeOK ==
    /\ clients \in [Object -> ClientState]
    /\ sockets \in [Socket -> [address : Address, replies : Seq(Request)] \cup {None}]
    /\ pc \in [Caller -> {"idle", "child", "check", "connect", "connectMAC", "dial", "handshake",
                          "exchange", "disconnect", "children"}]
    /\ op \in [Caller -> {"quote", "exQuote", "macQuote", "connect", "connectEx", "disconnect"}]
    /\ target \in [Caller -> Object]
    /\ order \in [Caller -> Seq(Address) \cup Seq(Child)]
    /\ calls \in [Caller -> 0..MaxCalls]
    /\ answer \in [Caller -> [request : Request, address : Address] \cup {None}]
    /\ careful \in BOOLEAN

\* Though replies carry no checked sequence number, and calls share connections
\* that fail and are replaced, a call only ever gets the reply to its own request.
OwnReply ==
    \A c \in Caller : answer[c] # None => answer[c].request = <<c, calls[c]>>

\* CurrentAddress() is where the client is connected, and no two clients share
\* a connection or have one that is closed.
AddressIsCurrent ==
    \A k \in Object : clients[k].conn # None =>
        /\ sockets[clients[k].conn] # None
        /\ sockets[clients[k].conn].address = clients[k].opt.tcp
        /\ \A l \in Object : clients[l].conn = clients[k].conn => l = k

Reachable ==
    {root, clients[root].main, clients[root].ex} \cup UNION {ToSet(order[c]) : c \in Caller}

\* Used by one goroutine at a time, a client loses track of no connection: an
\* open socket belongs to the root or to a child that Disconnect would close,
\* through failed handshakes, failed exchanges and disconnections.
NothingLeaks ==
    careful => \A s \in Open : \E k \in Object \cap Reachable : clients[k].conn = s

\* A client, the root or a child it made, is connected only to a server that
\* is configured for the client's mode, whichever mode its parent has and
\* whatever servers have failed.
RightServer ==
    \A k \in Object : clients[k].conn # None =>
        sockets[clients[k].conn].address \in ToSet(Hosts[clients[k].mode])

\* Every call returns, whatever the other callers and the servers do.
CallsReturn == \A c \in Caller : (pc[c] # "idle") ~> (pc[c] = "idle")
=============================================================================
