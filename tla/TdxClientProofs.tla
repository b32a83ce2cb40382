--------------------------- MODULE TdxClientProofs ---------------------------
(***************************************************************************)
(* Theorems about the connections of a quotation client, for every number  *)
(* of goroutines, children, sockets and hosts, every choice of operations  *)
(* and any number of calls.                                                *)
(*                                                                         *)
(* ClientInv: a connection is open, is where its client says, and is of    *)
(* one client only (ConnInv); between two exchanges it has no reply that   *)
(* nobody has read (NothingUnread), because a failed exchange closes it.   *)
(* That is why a call reads the reply to its own request.                  *)
(*                                                                         *)
(* RightInv: what a client may be connected to is of its mode.  It holds   *)
(* when only extended requests make children (RightCalls).                 *)
(*                                                                         *)
(* LeakInv: as long as there is one call at a time, an open socket is the  *)
(* connection of a client the root has or is about to disconnect.          *)
(***************************************************************************)
EXTENDS TdxClient, SequenceTheorems, FiniteSetTheorems, TLAPS

\* An open socket has no reply that nobody has read, while no exchange is under way.
NothingUnread == \A s \in Open : sockets[s].replies = <<>>

ConnInv ==
    /\ clients \in [Object -> ClientState]
    /\ sockets \in [Socket -> [address : Address, replies : Seq(Request)] \cup {None}]
    /\ NothingUnread
    /\ AddressIsCurrent

\* A caller in the middle of a call: what its order is of.
InCall ==
    \A c \in Caller :
        /\ pc[c] # "idle" => calls[c] \in 1..MaxCalls
        /\ pc[c] \in {"dial", "handshake"} => order[c] \in Seq(Address)
        /\ pc[c] = "handshake" => order[c] # <<>>
        /\ pc[c] = "children" => order[c] \in Seq(Child)

CallersTyped ==
    /\ pc \in [Caller -> {"idle", "child", "check", "connect", "connectMAC", "dial", "handshake",
                          "exchange", "disconnect", "children"}]
    /\ op \in [Caller -> {"quote", "exQuote", "macQuote", "connect", "connectEx", "disconnect"}]
    /\ target \in [Caller -> Object]
    /\ order \in [Caller -> Seq(Address) \cup Seq(Child)]
    /\ calls \in [Caller -> 0..MaxCalls]
    /\ answer \in [Caller -> [request : Request, address : Address] \cup {None}]
    /\ careful \in BOOLEAN

ClientInv == ConnInv /\ CallersTyped /\ InCall /\ OwnReply

-----------------------------------------------------------------------------
(* Lemmas about the operators.                                             *)

\* The modes, and what the root is not.
LEMMA Modes == Mode = {"main", "ex", "mac"} /\ root \in Object /\ Child \subseteq Object /\ None \notin Object
               /\ root \notin Child /\ None \notin Child /\ None \notin Socket
BY ClientAssumption DEF Mode, Object

\* A sequence that is not empty is a first element and the rest.
LEMMA HeadAndTail ==
    ASSUME NEW S, NEW s \in Seq(S), s # <<>>
    PROVE  Head(s) \in S /\ Tail(s) \in Seq(S) /\ Head(s) \in ToSet(s) /\ ToSet(Tail(s)) \subseteq ToSet(s)
           /\ \A x \in ToSet(s) : x = Head(s) \/ x \in ToSet(Tail(s))
<1>1. /\ Head(s) \in S /\ Tail(s) \in Seq(S) /\ Len(s) \in Nat \ {0} /\ DOMAIN s = 1..Len(s)
      /\ Len(Tail(s)) = Len(s) - 1 /\ \A i \in 1..Len(Tail(s)) : Tail(s)[i] = s[i + 1]
      /\ Head(s) = s[1]
    BY HeadTailProperties, EmptySeq, LenProperties
<1>2. DOMAIN Tail(s) = 1..(Len(s) - 1)
    BY <1>1, LenProperties
<1>3. Head(s) \in ToSet(s) /\ ToSet(Tail(s)) \subseteq ToSet(s)
    BY <1>1, <1>2 DEF ToSet
<1>4. ASSUME NEW i \in 1..Len(s), i # 1
      PROVE  s[i] \in ToSet(Tail(s))
    <2>1. i - 1 \in DOMAIN Tail(s) /\ Tail(s)[i - 1] = s[i]
        BY <1>1, <1>2, <1>4
    <2> QED BY <2>1 DEF ToSet
<1>5. \A x \in ToSet(s) : x = Head(s) \/ x \in ToSet(Tail(s))
    BY <1>1, <1>4 DEF ToSet
<1> QED BY <1>1, <1>3, <1>5

\* A sequence is one of its elements.
LEMMA SeqOfItsElements ==
    ASSUME NEW S, NEW s \in Seq(S)
    PROVE  s \in Seq(ToSet(s)) /\ ToSet(s) \subseteq S
<1>1. Len(s) \in Nat /\ DOMAIN s = 1..Len(s) /\ s \in [1..Len(s) -> S]
    BY LenProperties
<1>2. s \in [1..Len(s) -> ToSet(s)]
    BY <1>1 DEF ToSet
<1>3. s \in Seq(ToSet(s))
    BY <1>1, <1>2
<1> QED BY <1>1, <1>3 DEF ToSet

\* Every list of hosts has a first host.
LEMMA HostFacts ==
    ASSUME NEW m \in Mode
    PROVE  /\ Head(Hosts[m]) \in Address /\ Tail(Hosts[m]) \in Seq(Address)
           /\ Head(Hosts[m]) \in ToSet(Hosts[m]) /\ Tail(Hosts[m]) \in Seq(ToSet(Hosts[m]))
<1>1. Hosts[m] \in Seq(Address) /\ Hosts[m] # <<>>
    BY ClientAssumption
<1>2. Hosts[m] \in Seq(ToSet(Hosts[m]))
    BY <1>1, SeqOfItsElements
<1> QED BY <1>1, <1>2, HeadAndTail

\* The addresses to be tried are the client's own: its address and its pool.
LEMMA OrderFacts ==
    ASSUME NEW A, NEW opt, opt.tcp \in A, opt.pool \in Seq(A), NEW as \in ConnectionOrders(opt)
    PROVE  as \in Seq(A)
<1> DEFINE all == Addresses(opt)
<1>1. all \in Seq(A)
    <2>1. <<opt.tcp>> \in Seq(A)
        OBVIOUS
    <2> QED BY <2>1, ConcatProperties DEF Addresses
<1> HIDE DEF all
<1>2. Len(all) \in Nat /\ DOMAIN all = 1..Len(all) /\ ToSet(all) \subseteq A /\ IsFiniteSet(DOMAIN all)
    BY <1>1, LenProperties, SeqOfItsElements, FS_Interval
<1>3. CASE ~AutoSelect
    BY <1>1, <1>3 DEF ConnectionOrders, all
<1>4. CASE AutoSelect
    <2>0. PICK R \in SUBSET ToSet(all) : as \in ProbedOrders(all, R)
        BY <1>4 DEF ConnectionOrders, all
    <2>1. PICK fast \in SetToSeqs(R), others \in AtPlaces(all, {i \in DOMAIN all : all[i] \notin R}) :
            as = fast \o others
        BY <2>0 DEF ProbedOrders
    <2>2. fast \in Seq(A)
        <3>1. IsFiniteSet(R)
            <4>1. ToSet(all) = {all[i] : i \in DOMAIN all}
                BY DEF ToSet
            <4>2. all \in Surjection(1..Len(all), ToSet(all))
                BY <1>1, <1>2, <4>1, LenProperties DEF Surjection
            <4>3. IsFiniteSet(ToSet(all))
                BY <1>2, <4>2, FS_Surjection
            <4> QED BY <4>3, FS_Subset
        <3>2. Cardinality(R) \in Nat
            BY <3>1, FS_CardinalityType
        <3>3. fast \in [1..Cardinality(R) -> A]
            BY <1>2, <2>1 DEF SetToSeqs
        <3> QED BY <3>2, <3>3
    <2>3. others \in Seq(A)
        <3> DEFINE places == {i \in DOMAIN all : all[i] \notin R}
        <3>1. PICK p \in SetToSeqs(places) : others = [i \in DOMAIN p |-> all[p[i]]]
            BY <2>1 DEF AtPlaces
        <3>2. IsFiniteSet(places)
            BY <1>2, FS_Subset
        <3>3. Cardinality(places) \in Nat
            BY <3>2, FS_CardinalityType
        <3>4. p \in [1..Cardinality(places) -> places]
            BY <3>1 DEF SetToSeqs
        <3>5. \A i \in places : all[i] \in A
            BY <1>1, <1>2, ElementOfSeq
        <3>6. others \in [1..Cardinality(places) -> A]
            BY <3>1, <3>4, <3>5
        <3> HIDE DEF places
        <3> QED BY <3>3, <3>6
    <2> QED BY <2>1, <2>2, <2>3, ConcatProperties
<1> QED BY <1>3, <1>4

-----------------------------------------------------------------------------
(* What becomes of clients and their connections.                          *)

\* A client is connected by a new socket: it is nobody else's.
LEMMA ClientConnected ==
    ASSUME ConnInv, NEW k \in Object, NEW s \in Socket \ Open, NEW a \in Address,
           sockets' = [sockets EXCEPT ![s] = [address |-> a, replies |-> <<>>]],
           clients' = Dialled(k, s, a)
    PROVE  /\ ConnInv'
           /\ clients'[k].conn = s /\ clients'[k].opt.tcp = a /\ clients'[k].opt.pool = clients[k].opt.pool
           /\ clients'[k].mode = clients[k].mode /\ clients'[k].main = clients[k].main
           /\ clients'[k].ex = clients[k].ex
           /\ \A l \in Object \ {k} : clients'[l] = clients[l]
           /\ Open' = Open \cup {s}
<1>1. /\ clients \in [Object -> ClientState] /\ s # None
      /\ sockets \in [Socket -> [address : Address, replies : Seq(Request)] \cup {None}]
    BY Modes DEF ConnInv
<1>2. clients[k] \in ClientState
    BY <1>1
<1> DEFINE new == [address |-> a, replies |-> <<>>]
<1>3. new \in [address : Address, replies : Seq(Request)] /\ new # None
    <2>1. <<>> \in Seq(Request)
        OBVIOUS
    <2>2. new \in [address : Address, replies : Seq(Request)]
        BY <2>1
    <2> QED BY <2>2, ClientAssumption
<1>4. /\ sockets' \in [Socket -> [address : Address, replies : Seq(Request)] \cup {None}]
      /\ sockets'[s] = new /\ \A r \in Socket \ {s} : sockets'[r] = sockets[r]
    BY <1>1, <1>3
<1>5. /\ clients' \in [Object -> ClientState]
      /\ clients'[k].conn = s /\ clients'[k].opt.tcp = a /\ clients'[k].opt.pool = clients[k].opt.pool
      /\ clients'[k].mode = clients[k].mode /\ clients'[k].main = clients[k].main
      /\ clients'[k].ex = clients[k].ex
      /\ \A l \in Object \ {k} : clients'[l] = clients[l]
    BY <1>1, <1>2 DEF ClientState, Dialled
<1>6. Open' = Open \cup {s}
    BY <1>1, <1>3, <1>4 DEF Open
<1>7. NothingUnread'
    BY <1>4, <1>6 DEF ConnInv, NothingUnread, Open
<1>8. AddressIsCurrent'
    <2> SUFFICES ASSUME NEW l \in Object, clients'[l].conn # None
                 PROVE  /\ sockets'[clients'[l].conn] # None
                        /\ sockets'[clients'[l].conn].address = clients'[l].opt.tcp
                        /\ \A j \in Object : clients'[j].conn = clients'[l].conn => j = l
        BY DEF AddressIsCurrent
    <2>1. \A j \in Object \ {k} : clients[j].conn # s
        BY <1>1 DEF ConnInv, AddressIsCurrent, Open
    <2>2. CASE l = k
        BY <1>1, <1>3, <1>4, <1>5, <2>1, <2>2
    <2>3. CASE l # k
        <3>1. clients[l].conn \in Socket \ {s} /\ clients'[l] = clients[l]
            BY <1>1, <1>5, <2>1, <2>3 DEF ClientState
        <3>2. /\ sockets'[clients'[l].conn] # None
              /\ sockets'[clients'[l].conn].address = clients'[l].opt.tcp
            BY <1>4, <3>1 DEF ConnInv, AddressIsCurrent
        <3>3. \A j \in Object : clients'[j].conn = clients'[l].conn => j = l
            BY <1>1, <1>5, <2>3, <3>1 DEF ConnInv, AddressIsCurrent
        <3> QED BY <3>2, <3>3
    <2> QED BY <2>2, <2>3
<1> QED BY <1>4, <1>5, <1>6, <1>7, <1>8 DEF ConnInv

\* A client's connection is closed: nobody else had it.
LEMMA ClientClosed ==
    ASSUME ConnInv, NEW k \in Object, sockets' = Closed(k),
           clients' \in [Object -> ClientState], clients'[k].conn = None,
           \A l \in Object \ {k} : clients'[l] = clients[l]
    PROVE  /\ ConnInv'
           /\ Open' = Open \ {clients[k].conn}
<1>1. /\ clients \in [Object -> ClientState]
      /\ sockets \in [Socket -> [address : Address, replies : Seq(Request)] \cup {None}]
      /\ AddressIsCurrent /\ NothingUnread /\ clients[k].conn \in Socket \cup {None}
    BY DEF ConnInv, ClientState
<1>2. CASE clients[k].conn = None
    <2>1. sockets' = sockets /\ Open' = Open /\ Open' = Open \ {clients[k].conn}
        BY <1>2, Modes DEF Closed, Open
    <2>2. NothingUnread'
        BY <1>1, <2>1 DEF NothingUnread
    <2>3. AddressIsCurrent'
        BY <1>1, <1>2, <2>1 DEF AddressIsCurrent
    <2> QED BY <1>1, <2>1, <2>2, <2>3 DEF ConnInv
<1>3. CASE clients[k].conn # None
    <2> DEFINE s == clients[k].conn
    <2>1. s \in Socket /\ sockets' = [sockets EXCEPT ![s] = None]
        BY <1>1, <1>3 DEF Closed
    <2>2. /\ sockets' \in [Socket -> [address : Address, replies : Seq(Request)] \cup {None}]
          /\ sockets'[s] = None /\ \A r \in Socket \ {s} : sockets'[r] = sockets[r]
        BY <1>1, <2>1
    <2>3. Open' = Open \ {s}
        BY <2>1, <2>2 DEF Open
    <2>4. NothingUnread'
        BY <1>1, <2>2, <2>3 DEF NothingUnread, Open
    <2>5. AddressIsCurrent'
        <3> SUFFICES ASSUME NEW l \in Object, clients'[l].conn # None
                     PROVE  /\ sockets'[clients'[l].conn] # None
                            /\ sockets'[clients'[l].conn].address = clients'[l].opt.tcp
                            /\ \A j \in Object : clients'[j].conn = clients'[l].conn => j = l
            BY DEF AddressIsCurrent
        <3>1. l # k /\ clients'[l] = clients[l] /\ clients[l].conn \in Socket
            BY <1>1 DEF ClientState
        <3>2. clients[l].conn # s
            BY <1>1, <1>3, <3>1 DEF AddressIsCurrent
        <3>3. \A j \in Object : clients'[j].conn = clients'[l].conn => j = l
            BY <1>1, <3>1 DEF AddressIsCurrent
        <3> QED BY <1>1, <2>2, <3>1, <3>2, <3>3 DEF AddressIsCurrent
    <2> QED BY <2>2, <2>3, <2>4, <2>5 DEF ConnInv
<1> QED BY <1>2, <1>3

\* A client that is not connected is made, or refers to another child.
LEMMA ClientsMade ==
    ASSUME ConnInv, UNCHANGED sockets, clients' \in [Object -> ClientState],
           \A l \in Object : \/ clients'[l].conn = None
                             \/ clients'[l].conn = clients[l].conn /\ clients'[l].opt = clients[l].opt
    PROVE  ConnInv'
<1>1. NothingUnread'
    BY DEF ConnInv, NothingUnread, Open
<1>2. AddressIsCurrent'
    BY DEF ConnInv, AddressIsCurrent
<1> QED BY <1>1, <1>2 DEF ConnInv

-----------------------------------------------------------------------------
(* The steps.                                                              *)

\* ClientInv holds of a client that is not connected.
LEMMA InitClient == Init => ClientInv
<1> SUFFICES ASSUME Init PROVE ClientInv
    OBVIOUS
<1>1. MainOptions \in [tcp : Address, pool : Seq(Address)]
    BY HostFacts, Modes DEF MainOptions, Mode
<1>2. ASSUME NEW mode \in Mode PROVE NewClient(mode, MainOptions) \in ClientState
    BY <1>1, HostFacts DEF NewClient, ClientState
<1>3. clients \in [Object -> ClientState] /\ \A k \in Object : clients[k].conn = None
    <2>1. PICK mode \in {call[1] : call \in Calls} :
            clients = [k \in Object |->
                         IF k = root THEN NewClient(mode, MainOptions) ELSE NewClient("main", MainOptions)]
        BY DEF Init
    <2>2. mode \in Mode /\ "main" \in Mode
        BY ClientAssumption DEF Mode
    <2> QED BY <1>2, <2>1, <2>2 DEF NewClient
<1>4. ConnInv
    BY <1>3 DEF Init, ConnInv, NothingUnread, Open, AddressIsCurrent
<1>5. CallersTyped
    BY Modes, ClientAssumption DEF Init, CallersTyped
<1> QED BY <1>4, <1>5 DEF Init, ClientInv, InCall, OwnReply

\* A new call keeps ClientInv.
LEMMA CallStep ==
    ASSUME ClientInv, NEW c \in Caller, NEW o \in {call[2] : call \in Calls}, Call(c, o)
    PROVE  ClientInv'
<1>1. o \in {"quote", "exQuote", "macQuote", "connect", "connectEx", "disconnect"}
    BY ClientAssumption
<1>2. ConnInv'
    BY DEF ClientInv, Call, ConnInv, NothingUnread, Open, AddressIsCurrent
<1>3. pc' \in [Caller -> {"idle", "child", "check", "connect", "connectMAC", "dial", "handshake",
                          "exchange", "disconnect", "children"}]
      /\ pc'[c] \notin {"dial", "handshake", "children"} /\ \A d \in Caller \ {c} : pc'[d] = pc[d]
    BY <1>1 DEF ClientInv, CallersTyped, Call, Goto
<1>4. CallersTyped'
    <2>1. calls' \in [Caller -> 0..MaxCalls]
        BY ClientAssumption DEF ClientInv, CallersTyped, Call
    <2>2. target' \in [Caller -> Object]
        BY Modes DEF ClientInv, CallersTyped, Call
    <2>3. answer' \in [Caller -> [request : Request, address : Address] \cup {None}]
        BY DEF ClientInv, CallersTyped, Call
    <2>4. careful' \in BOOLEAN /\ order' \in [Caller -> Seq(Address) \cup Seq(Child)]
        BY DEF ClientInv, CallersTyped, Call
    <2>5. op' \in [Caller -> {"quote", "exQuote", "macQuote", "connect", "connectEx", "disconnect"}]
        BY <1>1 DEF ClientInv, CallersTyped, Call
    <2> QED BY <1>3, <2>1, <2>2, <2>3, <2>4, <2>5 DEF CallersTyped
<1>5. InCall'
    <2>1. calls'[c] \in 1..MaxCalls /\ \A d \in Caller \ {c} : calls'[d] = calls[d]
        BY ClientAssumption DEF ClientInv, CallersTyped, Call
    <2> QED BY <1>3, <2>1 DEF ClientInv, InCall, Call
<1>6. OwnReply'
    BY DEF ClientInv, CallersTyped, OwnReply, Call
<1> QED BY <1>2, <1>4, <1>5, <1>6 DEF ClientInv

\* A caller takes the child there is, or one that is made of an object that nobody uses.
LEMMA ChildTaken ==
    ASSUME ClientInv, NEW c \in Caller, TakeChild(c)
    PROVE  \E k \in Child :
             /\ target' = [target EXCEPT ![c] = k]
             /\ clients' \in [Object -> ClientState]
             /\ k \in {clients'[root].main, clients'[root].ex}
             /\ clients'[root].mode = clients[root].mode /\ clients'[root].conn = clients[root].conn
             /\ clients'[root].opt = clients[root].opt
             /\ \A l \in Object \ {k, root} : clients'[l] = clients[l]
             /\ {clients[root].main, clients[root].ex} \ {None} \subseteq {clients'[root].main, clients'[root].ex}
             /\ \/ UNCHANGED clients
                \/ Unused(k) /\ clients'[k] = NewClient(Wanted(op[c]), clients[root].opt)
<1> DEFINE kind == Wanted(op[c])
<1>1. /\ kind \in {"main", "ex"} /\ kind \in Mode
      /\ clients \in [Object -> ClientState] /\ clients[root] \in ClientState
    BY Modes DEF ClientInv, ConnInv, Wanted
<1>2. CASE clients[root][kind] # None
    <2>1. UNCHANGED clients /\ target' = [target EXCEPT ![c] = clients[root][kind]]
        BY <1>2 DEF TakeChild
    <2>2. clients[root][kind] \in Child /\ clients[root][kind] \in {clients[root].main, clients[root].ex}
        <3>1. CASE kind = "main"
            BY <1>1, <1>2, <3>1 DEF ClientState
        <3>2. CASE kind = "ex"
            BY <1>1, <1>2, <3>2 DEF ClientState
        <3> QED BY <1>1, <3>1, <3>2
    <2> QED BY <1>1, <2>1, <2>2
<1>3. CASE clients[root][kind] = None
    <2>1. PICK k \in Child :
            /\ Unused(k)
            /\ clients' = [clients EXCEPT ![k] = NewClient(kind, clients[root].opt),
                                          ![root] = [@ EXCEPT ![kind] = k]]
            /\ target' = [target EXCEPT ![c] = k]
        BY <1>3 DEF TakeChild
    <2>2. NewClient(kind, clients[root].opt) \in ClientState
        BY <1>1, HostFacts DEF NewClient, ClientState
    <2> DEFINE made == [clients[root] EXCEPT ![kind] = k]
    <2>3. /\ made \in ClientState /\ made.mode = clients[root].mode
          /\ made.conn = clients[root].conn /\ made.opt = clients[root].opt
          /\ k \in {made.main, made.ex}
          /\ {clients[root].main, clients[root].ex} \ {None} \subseteq {made.main, made.ex}
        <3>1. CASE kind = "main"
            BY <1>1, <1>3, <3>1 DEF ClientState
        <3>2. CASE kind = "ex"
            BY <1>1, <1>3, <3>2 DEF ClientState
        <3> QED BY <1>1, <3>1, <3>2
    <2>4. k \in Object /\ k # root
        BY Modes
    <2>5. clients'[k] = NewClient(kind, clients[root].opt) /\ clients'[root] = made
          /\ \A l \in Object \ {k, root} : clients'[l] = clients[l]
        BY <1>1, <2>1, <2>4, Modes
    <2>6. clients' \in [Object -> ClientState]
        BY <1>1, <2>1, <2>2, <2>3, <2>4, Modes
    <2> HIDE DEF made
    <2> QED BY <2>1, <2>3, <2>5, <2>6
<1> QED BY <1>2, <1>3

\* Taking or making a child client keeps ClientInv.
LEMMA TakeChildStep ==
    ASSUME ClientInv, NEW c \in Caller, TakeChild(c)
    PROVE  ClientInv'
<1>1. ConnInv /\ CallersTyped /\ InCall /\ OwnReply /\ pc[c] = "child"
    BY DEF ClientInv, TakeChild
<1>2. /\ pc' \in [Caller -> {"idle", "child", "check", "connect", "connectMAC", "dial", "handshake",
                             "exchange", "disconnect", "children"}]
      /\ pc'[c] \in {"check", "connect"} /\ \A d \in Caller \ {c} : pc'[d] = pc[d]
    BY <1>1 DEF CallersTyped, TakeChild, Goto
<1>3. UNCHANGED <<sockets, op, order, calls, answer, careful>>
    BY DEF TakeChild
<1>4. InCall' /\ OwnReply'
    BY <1>1, <1>2, <1>3 DEF InCall, OwnReply
<1>5. PICK k \in Child :
             /\ target' = [target EXCEPT ![c] = k]
             /\ clients' \in [Object -> ClientState]
             /\ clients'[root].conn = clients[root].conn /\ clients'[root].opt = clients[root].opt
             /\ \A l \in Object \ {k, root} : clients'[l] = clients[l]
             /\ \/ UNCHANGED clients
                \/ clients'[k] = NewClient(Wanted(op[c]), clients[root].opt)
    BY ChildTaken
<1>6. CallersTyped'
    BY <1>1, <1>2, <1>3, <1>5, Modes DEF CallersTyped
<1>7. ConnInv'
    <2>1. ASSUME NEW l \in Object
          PROVE  \/ clients'[l].conn = None
                 \/ clients'[l].conn = clients[l].conn /\ clients'[l].opt = clients[l].opt
        BY <1>5 DEF NewClient
    <2> QED BY <1>1, <1>3, <1>5, <2>1, ClientsMade
<1> QED BY <1>4, <1>6, <1>7 DEF ClientInv

\* Steps that change no client and no socket, but the order of c and where it is.
LEMMA CallerSteps ==
    ASSUME ClientInv, NEW c \in Caller,
           Check(c) \/ DialFails(c) \/ NoAddressLeft(c) \/ Handshake(c) \/ NotSent(c) \/ Disconnected(c)
    PROVE  ClientInv'
<1>1. ConnInv /\ CallersTyped /\ InCall /\ OwnReply
    BY DEF ClientInv
<1>2. UNCHANGED <<clients, sockets, op, target, calls, answer, careful>>
    BY DEF Check, DialFails, NoAddressLeft, Handshake, NotSent, CanExchange, Disconnected
<1>3. ConnInv' /\ OwnReply'
    BY <1>1, <1>2 DEF ConnInv, NothingUnread, Open, AddressIsCurrent, OwnReply
<1>4. order' \in [Caller -> Seq(Address) \cup Seq(Child)] /\ InCall'
      /\ pc' \in [Caller -> {"idle", "child", "check", "connect", "connectMAC", "dial", "handshake",
                             "exchange", "disconnect", "children"}]
    <2>1. CASE Check(c)
        BY <1>1, <2>1 DEF Check, Goto, CallersTyped, InCall
    <2>2. CASE DialFails(c)
        <3>1. order[c] \in Seq(Address) /\ order[c] # <<>> /\ order' = [order EXCEPT ![c] = Tail(order[c])]
              /\ UNCHANGED pc /\ pc[c] = "dial"
            BY <1>1, <2>2 DEF DialFails, NextAddress, InCall
        <3>2. Tail(order[c]) \in Seq(Address)
            BY <3>1, HeadAndTail
        <3> QED BY <1>1, <1>2, <3>1, <3>2 DEF CallersTyped, InCall
    <2>3. CASE NoAddressLeft(c)
        BY <1>1, <2>3 DEF NoAddressLeft, Return, CallersTyped, InCall
    <2>4. CASE Handshake(c)
        BY <1>1, <2>4 DEF Handshake, Goto, CallersTyped, InCall
    <2>5. CASE NotSent(c)
        BY <1>1, <2>5 DEF NotSent, CanExchange, Return, CallersTyped, InCall
    <2>6. CASE Disconnected(c)
        BY <1>1, <2>6 DEF Disconnected, Return, CallersTyped, InCall
    <2> QED BY <2>1, <2>2, <2>3, <2>4, <2>5, <2>6
<1>5. CallersTyped'
    BY <1>1, <1>2, <1>4 DEF CallersTyped
<1> QED BY <1>3, <1>4, <1>5 DEF ClientInv

\* Deciding to connect, or that one is connected, keeps ClientInv.
LEMMA StartConnectStep ==
    ASSUME ClientInv, NEW c \in Caller, StartConnect(c)
    PROVE  ClientInv'
<1>1. ConnInv /\ CallersTyped /\ InCall /\ OwnReply
    BY DEF ClientInv
<1>2. UNCHANGED <<clients, sockets, op, target, calls, answer, careful>> /\ pc[c] # "idle"
    BY DEF StartConnect
<1>3. ConnInv' /\ OwnReply'
    BY <1>1, <1>2 DEF ConnInv, NothingUnread, Open, AddressIsCurrent, OwnReply
<1>4. \/ Goto(c, "exchange") /\ UNCHANGED order
      \/ /\ \E as \in ConnectionOrders(clients[target[c]].opt) : order' = [order EXCEPT ![c] = as]
         /\ Goto(c, "dial")
    BY DEF StartConnect
<1>5. CASE Goto(c, "exchange") /\ UNCHANGED order
    <2>1. CallersTyped'
        BY <1>1, <1>2, <1>5 DEF CallersTyped, Goto
    <2>2. InCall'
        BY <1>1, <1>2, <1>5 DEF CallersTyped, InCall, Goto
    <2> QED BY <1>3, <2>1, <2>2 DEF ClientInv
<1>6. ASSUME NEW as \in ConnectionOrders(clients[target[c]].opt), order' = [order EXCEPT ![c] = as],
             Goto(c, "dial")
      PROVE  ClientInv'
    <2>1. clients[target[c]] \in ClientState
        BY <1>1 DEF ConnInv, CallersTyped
    <2>2. as \in Seq(Address)
        BY <1>6, <2>1, OrderFacts DEF ClientState
    <2>3. CallersTyped'
        BY <1>1, <1>2, <1>6, <2>2 DEF CallersTyped, Goto
    <2>4. InCall'
        BY <1>1, <1>2, <1>6, <2>2 DEF CallersTyped, InCall, Goto
    <2> QED BY <1>3, <2>3, <2>4 DEF ClientInv
<1> QED BY <1>4, <1>5, <1>6

\* A dial keeps ClientInv: the new socket owes nothing.
LEMMA DialStep ==
    ASSUME ClientInv, NEW c \in Caller, Dial(c)
    PROVE  ClientInv'
<1>1. /\ ConnInv /\ CallersTyped /\ InCall /\ OwnReply /\ pc[c] = "dial"
      /\ target[c] \in Object /\ order[c] \in Seq(Address) /\ order[c] # <<>>
    BY DEF ClientInv, Dial, CallersTyped, InCall
<1>2. Head(order[c]) \in Address
    BY <1>1, HeadAndTail
<1>3. ConnInv'
    BY <1>1, <1>2, ClientConnected DEF Dial
<1>4. UNCHANGED <<op, target, order, calls, answer, careful>> /\ (Goto(c, "exchange") \/ Goto(c, "handshake"))
    BY DEF Dial
<1>5. CallersTyped' /\ InCall'
    BY <1>1, <1>4 DEF CallersTyped, InCall, Goto
<1>6. OwnReply'
    BY <1>1, <1>4 DEF OwnReply
<1> QED BY <1>3, <1>5, <1>6 DEF ClientInv

\* A client whose connection is closed stays as it is otherwise.
LEMMA ClosedConn ==
    ASSUME ConnInv, NEW k \in Object, sockets' = Closed(k), clients' = [clients EXCEPT ![k].conn = None]
    PROVE  /\ ConnInv' /\ Open' = Open \ {clients[k].conn}
           /\ clients'[k] = [clients[k] EXCEPT !.conn = None] /\ clients'[k].conn = None
           /\ clients'[k].opt = clients[k].opt /\ clients'[k].mode = clients[k].mode
           /\ clients'[k].main = clients[k].main /\ clients'[k].ex = clients[k].ex
           /\ \A l \in Object \ {k} : clients'[l] = clients[l]
<1>1. clients \in [Object -> ClientState] /\ clients[k] \in ClientState
    BY DEF ConnInv
<1>2. /\ clients' \in [Object -> ClientState]
      /\ clients'[k] = [clients[k] EXCEPT !.conn = None] /\ clients'[k].conn = None
      /\ clients'[k].opt = clients[k].opt /\ clients'[k].mode = clients[k].mode
      /\ clients'[k].main = clients[k].main /\ clients'[k].ex = clients[k].ex
      /\ \A l \in Object \ {k} : clients'[l] = clients[l]
    BY <1>1 DEF ClientState
<1> QED BY <1>2, ClientClosed

\* A handshake that fails keeps ClientInv: the socket is closed.
LEMMA HandshakeFailsStep ==
    ASSUME ClientInv, NEW c \in Caller, HandshakeFails(c)
    PROVE  ClientInv'
<1>1. /\ ConnInv /\ CallersTyped /\ InCall /\ OwnReply /\ pc[c] = "handshake"
      /\ target[c] \in Object /\ order[c] \in Seq(Address) /\ order[c] # <<>>
    BY DEF ClientInv, HandshakeFails, CallersTyped, InCall
<1>2. Tail(order[c]) \in Seq(Address)
    BY <1>1, HeadAndTail
<1>3. ConnInv'
    BY <1>1, ClosedConn DEF HandshakeFails
<1>4. UNCHANGED <<op, target, calls, answer, careful>> /\ Goto(c, "dial")
      /\ order' = [order EXCEPT ![c] = Tail(order[c])]
    BY DEF HandshakeFails, NextAddress
<1>5. CallersTyped' /\ InCall'
    BY <1>1, <1>2, <1>4 DEF CallersTyped, InCall, Goto
<1>6. OwnReply'
    BY <1>1, <1>4 DEF OwnReply
<1> QED BY <1>3, <1>5, <1>6 DEF ClientInv

\* What every end of an exchange does to the callers.
LEMMA Exchanged ==
    ASSUME ClientInv, NEW c \in Caller, CanExchange(c),
           answer' \in [Caller -> [request : Request, address : Address] \cup {None}]
    PROVE  CallersTyped' /\ InCall'
<1>1. /\ pc' = [pc EXCEPT ![c] = "idle"] /\ order' = [order EXCEPT ![c] = <<>>]
      /\ UNCHANGED <<op, target, calls, careful>>
      /\ CallersTyped /\ InCall
    BY DEF ClientInv, CanExchange, Return
<1>2. <<>> \in Seq(Address)
    OBVIOUS
<1>3. pc'[c] = "idle" /\ \A d \in Caller \ {c} : pc'[d] = pc[d] /\ order'[d] = order[d] /\ calls'[d] = calls[d]
    BY <1>1 DEF CallersTyped
<1>4. CallersTyped'
    BY <1>1, <1>2 DEF CallersTyped
<1> QED BY <1>1, <1>3, <1>4 DEF InCall

\* The connection had no unread reply, so that the one that is read is the caller's own.
LEMMA OwnReplyRead ==
    ASSUME ClientInv, NEW c \in Caller, Exchange(c)
    PROVE  /\ UNCHANGED <<clients, sockets>>
           /\ \/ \E a \in Address : answer' = [answer EXCEPT ![c] = [request |-> <<c, calls[c]>>, address |-> a]]
              \/ UNCHANGED answer
<1> DEFINE s   == clients[target[c]].conn
           own == <<c, calls[c]>>
<1>1. /\ ConnInv /\ clients \in [Object -> ClientState] /\ target[c] \in Object
      /\ sockets \in [Socket -> [address : Address, replies : Seq(Request)] \cup {None}]
    BY DEF ClientInv, CallersTyped, ConnInv
<1>2. s \in Socket /\ s \in Open /\ sockets[s] \in [address : Address, replies : Seq(Request)]
      /\ sockets[s].replies = <<>>
    BY <1>1 DEF Exchange, ConnInv, AddressIsCurrent, NothingUnread, Open, ClientState
<1>3. Replies(c) = <<own>> /\ Head(Replies(c)) = own /\ Tail(Replies(c)) = <<>>
    BY <1>2 DEF Replies
<1>4. sockets' = [sockets EXCEPT ![s].replies = <<>>] /\ UNCHANGED clients
    BY <1>3 DEF Exchange
<1>5. sockets' = sockets
    BY <1>1, <1>2, <1>4
<1>6. \/ answer' = [answer EXCEPT ![c] = [request |-> own, address |-> sockets[s].address]]
      \/ UNCHANGED answer
    BY <1>3 DEF Exchange
<1>7. sockets[s].address \in Address
    BY <1>2
<1> HIDE DEF s, own
<1>8. \/ \E a \in Address : answer' = [answer EXCEPT ![c] = [request |-> own, address |-> a]]
      \/ UNCHANGED answer
    BY <1>6, <1>7
<1> QED BY <1>4, <1>5, <1>8 DEF own

\* An exchange keeps ClientInv: the reply read is the one to this request.
LEMMA ExchangeStep ==
    ASSUME ClientInv, NEW c \in Caller, Exchange(c)
    PROVE  ClientInv'
<1> DEFINE own == <<c, calls[c]>>
<1>1. ConnInv /\ CallersTyped /\ InCall /\ OwnReply
    BY DEF ClientInv
<1>2. UNCHANGED <<op, target, calls, careful>> /\ CanExchange(c)
    BY DEF Exchange, CanExchange
<1>3. /\ UNCHANGED <<clients, sockets>>
      /\ \/ \E a \in Address : answer' = [answer EXCEPT ![c] = [request |-> own, address |-> a]]
         \/ UNCHANGED answer
    BY OwnReplyRead
<1>4. ConnInv'
    BY <1>1, <1>3 DEF ConnInv, NothingUnread, Open, AddressIsCurrent
<1>5. own \in Request
    BY <1>1, <1>2 DEF Request, InCall, CanExchange
<1>6. answer' \in [Caller -> [request : Request, address : Address] \cup {None}]
    <2> HIDE DEF own
    <2> QED BY <1>1, <1>3, <1>5 DEF CallersTyped
<1>7. CallersTyped' /\ InCall'
    BY <1>2, <1>6, Exchanged
<1>8. OwnReply'
    BY <1>1, <1>2, <1>3 DEF OwnReply, CallersTyped
<1> QED BY <1>4, <1>7, <1>8 DEF ClientInv

\* An exchange that fails keeps ClientInv: the socket is closed with what it owes.
LEMMA ExchangeFailsStep ==
    ASSUME ClientInv, NEW c \in Caller, ExchangeFails(c)
    PROVE  ClientInv'
<1>1. ConnInv /\ CallersTyped /\ InCall /\ OwnReply /\ target[c] \in Object
    BY DEF ClientInv, CallersTyped
<1>2. CanExchange(c) /\ UNCHANGED <<answer, calls>>
    BY DEF ExchangeFails, CanExchange
<1>3. ConnInv'
    BY <1>1, ClosedConn DEF ExchangeFails, AfterError
<1>4. CallersTyped' /\ InCall'
    BY <1>1, <1>2, Exchanged DEF CallersTyped
<1>5. OwnReply'
    BY <1>1, <1>2 DEF OwnReply
<1> QED BY <1>3, <1>4, <1>5 DEF ClientInv

\* The root after its fields are taken.
LEMMA RootTaken ==
    ASSUME ClientInv, NEW c \in Caller, DisconnectRoot(c)
    PROVE  /\ ConnInv' /\ Open' = Open \ {clients[root].conn}
           /\ clients'[root].conn = None /\ clients'[root].main = None /\ clients'[root].ex = None
           /\ clients'[root].opt = clients[root].opt /\ clients'[root].mode = clients[root].mode
           /\ \A l \in Object \ {root} : clients'[l] = clients[l]
           /\ order'[c] \in Seq(Child)
           /\ order' = [order EXCEPT ![c] = order'[c]]
           /\ \A k \in {clients[root].main, clients[root].ex} \ {None} : k \in ToSet(order'[c])
<1>1. /\ ConnInv /\ CallersTyped /\ clients \in [Object -> ClientState] /\ clients[root] \in ClientState
    BY Modes DEF ClientInv, ConnInv
<1>2. /\ clients' \in [Object -> ClientState]
      /\ clients'[root].conn = None /\ clients'[root].main = None /\ clients'[root].ex = None
      /\ clients'[root].opt = clients[root].opt /\ clients'[root].mode = clients[root].mode
      /\ \A l \in Object \ {root} : clients'[l] = clients[l]
    BY <1>1, Modes DEF DisconnectRoot, ClientState
<1>3. ConnInv' /\ Open' = Open \ {clients[root].conn}
    BY <1>1, <1>2, Modes, ClientClosed DEF DisconnectRoot
<1> DEFINE m  == clients[root].main
           e  == clients[root].ex
           as == IfAny(m) \o IfAny(e)
<1>4. m \in Child \cup {None} /\ e \in Child \cup {None}
    BY <1>1 DEF ClientState
<1>5. order' = [order EXCEPT ![c] = as] /\ order'[c] = as
    BY <1>1 DEF DisconnectRoot, CallersTyped
<1> HIDE DEF m, e
<1>6. as \in Seq(Child) /\ \A k \in {m, e} \ {None} : k \in ToSet(as)
    <2>1. CASE m = None /\ e = None
        BY <2>1 DEF IfAny
    <2>2. CASE m = None /\ e # None
        <3>1. as = <<e>> /\ as \in Seq(Child) /\ 1 \in DOMAIN as /\ as[1] = e
            BY <1>4, <2>2 DEF IfAny
        <3> QED BY <2>2, <3>1 DEF ToSet
    <2>3. CASE m # None /\ e = None
        <3>1. as = <<m>> /\ as \in Seq(Child) /\ 1 \in DOMAIN as /\ as[1] = m
            BY <1>4, <2>3 DEF IfAny
        <3> QED BY <2>3, <3>1 DEF ToSet
    <2>4. CASE m # None /\ e # None
        <3>1. as = <<m>> \o <<e>> /\ <<m>> \in Seq(Child) /\ <<e>> \in Seq(Child)
            BY <1>4, <2>4 DEF IfAny
        <3>2. /\ <<m>> \o <<e>> \in Seq(Child)
              /\ Len(<<m>> \o <<e>>) = Len(<<m>>) + Len(<<e>>)
              /\ \A i \in 1..(Len(<<m>>) + Len(<<e>>)) :
                    (<<m>> \o <<e>>)[i] = IF i <= Len(<<m>>) THEN <<m>>[i] ELSE <<e>>[i - Len(<<m>>)]
            BY <3>1, ConcatProperties
        <3>3. Len(<<m>>) = 1 /\ Len(<<e>>) = 1 /\ <<m>>[1] = m /\ <<e>>[1] = e
            OBVIOUS
        <3> HIDE DEF as
        <3>4. as \in Seq(Child) /\ Len(as) = 2 /\ as[1] = m /\ as[2] = e
            BY <3>1, <3>2, <3>3
        <3>5. 1 \in DOMAIN as /\ 2 \in DOMAIN as
            BY <3>4, LenProperties
        <3> QED BY <3>4, <3>5 DEF ToSet
    <2> QED BY <2>1, <2>2, <2>3, <2>4
<1> QED BY <1>2, <1>3, <1>5, <1>6 DEF m, e

\* Disconnecting the root keeps ClientInv.
LEMMA DisconnectRootStep ==
    ASSUME ClientInv, NEW c \in Caller, DisconnectRoot(c)
    PROVE  ClientInv'
<1>1. CallersTyped /\ InCall /\ OwnReply /\ pc[c] = "disconnect"
    BY DEF ClientInv, DisconnectRoot
<1>2. ConnInv' /\ order'[c] \in Seq(Child) /\ order' = [order EXCEPT ![c] = order'[c]]
    BY RootTaken
<1>3. UNCHANGED <<op, target, calls, answer, careful>> /\ Goto(c, "children")
    BY DEF DisconnectRoot
<1>4. order' \in [Caller -> Seq(Address) \cup Seq(Child)] /\ \A d \in Caller \ {c} : order'[d] = order[d]
    BY <1>1, <1>2 DEF CallersTyped
<1>5. CallersTyped' /\ InCall'
    BY <1>1, <1>2, <1>3, <1>4 DEF CallersTyped, InCall, Goto
<1>6. OwnReply'
    BY <1>1, <1>3 DEF OwnReply
<1> QED BY <1>2, <1>5, <1>6 DEF ClientInv

\* Disconnecting a child keeps ClientInv.
LEMMA DisconnectChildStep ==
    ASSUME ClientInv, NEW c \in Caller, DisconnectChild(c)
    PROVE  ClientInv'
<1>1. /\ ConnInv /\ CallersTyped /\ InCall /\ OwnReply
      /\ pc[c] = "children" /\ order[c] \in Seq(Child) /\ order[c] # <<>>
    BY DEF ClientInv, InCall, DisconnectChild
<1>2. Head(order[c]) \in Object /\ Tail(order[c]) \in Seq(Child)
    BY <1>1, HeadAndTail, Modes
<1>3. ConnInv'
    BY <1>1, <1>2, ClosedConn DEF DisconnectChild
<1>4. UNCHANGED <<pc, op, target, calls, answer, careful>> /\ order' = [order EXCEPT ![c] = Tail(order[c])]
    BY DEF DisconnectChild
<1>5. CallersTyped' /\ InCall'
    BY <1>1, <1>2, <1>4 DEF CallersTyped, InCall
<1>6. OwnReply'
    BY <1>1, <1>4 DEF OwnReply
<1> QED BY <1>3, <1>5, <1>6 DEF ClientInv

\* ClientInv is inductive.
LEMMA ClientNext == ClientInv /\ [Next]_vars => ClientInv'
<1> SUFFICES ASSUME ClientInv, [Next]_vars PROVE ClientInv'
    OBVIOUS
<1>1. ASSUME NEW c \in Caller, NEW o \in {call[2] : call \in Calls}, Call(c, o) PROVE ClientInv'
    BY <1>1, CallStep
<1>2. ASSUME NEW c \in Caller, Step(c) PROVE ClientInv'
    BY <1>2, TakeChildStep, CallerSteps, StartConnectStep, DialStep, HandshakeFailsStep, ExchangeStep,
       ExchangeFailsStep, DisconnectRootStep, DisconnectChildStep DEF Step
<1>3. CASE UNCHANGED vars
    BY <1>3 DEF vars, ClientInv, ConnInv, NothingUnread, Open, AddressIsCurrent, CallersTyped, InCall, OwnReply
<1> QED BY <1>1, <1>2, <1>3 DEF Next

-----------------------------------------------------------------------------
(* What follows from the invariant.                                        *)

\* ClientInv is an invariant of any number of callers, children, sockets and hosts.
THEOREM ClientInvariant == Spec => []ClientInv
BY InitClient, ClientNext, PTL DEF Spec

\* The state of the client, of its children and of the callers keeps its type: the order of
\* addresses to try, in particular, is never taken for one of children to disconnect.
THEOREM ClientTypes == Spec => []TypeOK
<1>1. ClientInv => TypeOK
    BY DEF ClientInv, ConnInv, CallersTyped, TypeOK
<1> QED BY <1>1, ClientInvariant, PTL

\* executeProtocol: what a call gets is the reply to its own request, whatever calls fail on
\* the connection that is shared.
THEOREM RepliesOwn == Spec => []OwnReply
<1>1. ClientInv => OwnReply
    BY DEF ClientInv
<1> QED BY <1>1, ClientInvariant, PTL

\* CurrentAddress() is where the client is connected, and connections are not shared by clients.
THEOREM AddressesCurrent == Spec => []AddressIsCurrent
<1>1. ClientInv => AddressIsCurrent
    BY DEF ClientInv, ConnInv
<1> QED BY <1>1, ClientInvariant, PTL

-----------------------------------------------------------------------------
(* The servers of a mode.                                                  *)

\* Main requests are not made of a client of another mode, nor Connect of an extended one: the
\* child they would make keeps the hosts of its parent (the run ClientRightServer).
RightCalls == <<"ex", "connect">> \notin Calls /\ \A m \in Mode : <<m, "quote">> \in Calls => m = "main"

\* What a client may be connected to is of its mode,
RightOptions ==
    \A k \in Object : /\ clients[k].opt.tcp \in ToSet(Hosts[clients[k].mode])
                      /\ clients[k].opt.pool \in Seq(ToSet(Hosts[clients[k].mode]))

\* and so is what a caller has still to try,
RightOrders ==
    \A c \in Caller : pc[c] \in {"dial", "handshake"} =>
        order[c] \in Seq(ToSet(Hosts[clients[target[c]].mode]))

\* because the children are made for extended requests.
ExChildren == \A c \in Caller : pc[c] = "child" => Wanted(op[c]) = "ex"

RightInv == RightOptions /\ RightOrders /\ ExChildren

\* A step of c in which no client changes its mode or its pool.
LEMMA RightKept ==
    ASSUME RightInv, NEW c \in Caller,
           \A l \in Object : /\ clients'[l].mode = clients[l].mode
                             /\ clients'[l].opt.pool = clients[l].opt.pool
                             /\ \/ clients'[l].opt.tcp = clients[l].opt.tcp
                                \/ clients'[l].opt.tcp \in ToSet(Hosts[clients[l].mode]),
           target' \in [Caller -> Object],
           \A d \in Caller \ {c} : /\ pc'[d] = pc[d] /\ order'[d] = order[d]
                                   /\ target'[d] = target[d] /\ op'[d] = op[d],
           pc'[c] \in {"dial", "handshake"} => order'[c] \in Seq(ToSet(Hosts[clients[target'[c]].mode])),
           pc'[c] = "child" => Wanted(op'[c]) = "ex"
    PROVE  RightInv'
<1>1. RightOptions'
    BY DEF RightInv, RightOptions
<1>2. RightOrders'
    BY DEF RightInv, RightOrders
<1>3. ExChildren'
    BY DEF RightInv, ExChildren
<1> QED BY <1>1, <1>2, <1>3 DEF RightInv

\* RightInv holds of a client as its constructor leaves it.
LEMMA InitRight == Init => RightInv
<1> SUFFICES ASSUME Init PROVE RightInv
    OBVIOUS
<1>1. PICK mode \in {call[1] : call \in Calls} :
        clients = [k \in Object |->
                     IF k = root THEN NewClient(mode, MainOptions) ELSE NewClient("main", MainOptions)]
    BY DEF Init
<1>2. mode \in Mode /\ "main" \in Mode
    BY ClientAssumption DEF Mode
<1> QED
    <2>1. ASSUME NEW m \in Mode PROVE /\ Head(Hosts[m]) \in ToSet(Hosts[m])
                                      /\ Tail(Hosts[m]) \in Seq(ToSet(Hosts[m]))
        BY HostFacts
    <2>2. RightOptions
        BY <1>1, <1>2, <2>1 DEF RightOptions, NewClient, MainOptions
    <2> QED BY <2>2 DEF Init, RightInv, RightOrders, ExChildren

\* A new call keeps RightInv, if it makes no main child of an extended or MAC client.
LEMMA CallRight ==
    ASSUME RightCalls, ClientInv, RightInv, NEW c \in Caller, NEW o \in {call[2] : call \in Calls}, Call(c, o)
    PROVE  RightInv'
<1>1. /\ CallersTyped /\ clients[root] \in ClientState
      /\ <<clients[root].mode, o>> \in Calls
    BY Modes DEF ClientInv, ConnInv, Call
<1>2. /\ pc' \in [Caller -> {"idle", "child", "check", "connect", "connectMAC", "dial", "handshake",
                             "exchange", "disconnect", "children"}]
      /\ pc'[c] \notin {"dial", "handshake"} /\ \A d \in Caller \ {c} : pc'[d] = pc[d]
    BY CallStep, <1>1 DEF ClientInv, CallersTyped, Call, Goto
<1>3. UNCHANGED <<clients, order>> /\ target' = [target EXCEPT ![c] = root] /\ op' = [op EXCEPT ![c] = o]
    BY DEF Call
<1>4. pc'[c] = "child" => Wanted(o) = "ex"
    <2>0. o \in {"quote", "exQuote", "macQuote", "connect", "connectEx", "disconnect"}
        BY ClientAssumption
    <2>1. pc'[c] = "child" => ~Itself(o)
        BY <1>1, <2>0 DEF Call, Goto, CallersTyped
    <2>2. o = "quote" => Itself(o)
        BY <1>1 DEF RightCalls, Itself, Wanted, ClientState
    <2>3. o = "connect" => Itself(o)
        BY <1>1 DEF RightCalls, Itself
    <2> QED BY <2>1, <2>2, <2>3 DEF Wanted
<1>5. target' \in [Caller -> Object] /\ op'[c] = o
      /\ \A d \in Caller \ {c} : target'[d] = target[d] /\ op'[d] = op[d]
    BY <1>1, <1>3, Modes DEF CallersTyped
<1> QED BY <1>2, <1>3, <1>4, <1>5, RightKept

\* A child gets addresses of its own kind.
LEMMA TakeChildRight ==
    ASSUME ClientInv, RightInv, NEW c \in Caller, TakeChild(c)
    PROVE  RightInv'
<1>1. /\ CallersTyped /\ RightOptions /\ RightOrders /\ ExChildren /\ pc[c] = "child"
      /\ Wanted(op[c]) = "ex" /\ clients \in [Object -> ClientState]
    BY DEF ClientInv, ConnInv, RightInv, ExChildren, TakeChild
<1>2. /\ pc'[c] \in {"check", "connect"} /\ \A d \in Caller \ {c} : pc'[d] = pc[d]
      /\ UNCHANGED <<op, order>>
    BY <1>1 DEF CallersTyped, TakeChild, Goto
<1>3. PICK k \in Child :
             /\ target' = [target EXCEPT ![c] = k]
             /\ clients'[root].mode = clients[root].mode /\ clients'[root].opt = clients[root].opt
             /\ \A l \in Object \ {k, root} : clients'[l] = clients[l]
             /\ \/ UNCHANGED clients
                \/ Unused(k) /\ clients'[k] = NewClient(Wanted(op[c]), clients[root].opt)
    BY ChildTaken
<1>4. /\ "ex" \in Mode /\ Head(Hosts["ex"]) \in ToSet(Hosts["ex"]) /\ Tail(Hosts["ex"]) \in Seq(ToSet(Hosts["ex"]))
    BY HostFacts, Modes
<1>5. RightOptions'
    <2>1. CASE UNCHANGED clients
        BY <1>1, <2>1 DEF RightOptions
    <2>2. CASE clients'[k] = NewClient("ex", clients[root].opt)
        <3>1. /\ clients'[k].mode = "ex" /\ clients'[k].opt.tcp = Head(Hosts["ex"])
              /\ clients'[k].opt.pool = Tail(Hosts["ex"])
            BY <2>2 DEF NewClient
        <3> QED BY <1>1, <1>3, <1>4, <3>1 DEF RightOptions
    <2> QED BY <1>1, <1>3, <2>1, <2>2
<1>6. RightOrders'
    <2> SUFFICES ASSUME NEW d \in Caller, pc'[d] \in {"dial", "handshake"}
                 PROVE  order'[d] \in Seq(ToSet(Hosts[clients'[target'[d]].mode]))
        BY DEF RightOrders
    <2>1. d # c /\ target'[d] = target[d] /\ target[d] \in Object
        BY <1>1, <1>2, <1>3 DEF CallersTyped
    <2>2. clients'[target[d]].mode = clients[target[d]].mode
        BY <1>3, <2>1 DEF Unused
    <2> QED BY <1>1, <1>2, <2>1, <2>2 DEF RightOrders
<1>7. ExChildren'
    BY <1>1, <1>2 DEF ExChildren
<1> QED BY <1>5, <1>6, <1>7 DEF RightInv

\* The other steps keep RightInv.
LEMMA StepRight ==
    ASSUME ClientInv, RightInv, NEW c \in Caller, Step(c)
    PROVE  RightInv'
<1>1. /\ CallersTyped /\ RightOptions /\ RightOrders /\ target \in [Caller -> Object]
      /\ clients \in [Object -> ClientState]
    BY DEF ClientInv, ConnInv, CallersTyped, RightInv
<1> DEFINE hosts == ToSet(Hosts[clients[target[c]].mode])
<1>2. /\ clients[target[c]].opt.tcp \in hosts /\ clients[target[c]].opt.pool \in Seq(hosts)
      /\ pc[c] \in {"dial", "handshake"} => order[c] \in Seq(hosts)
    BY <1>1 DEF RightOptions, RightOrders
<1> HIDE DEF hosts
<1>3. CASE TakeChild(c)
    BY <1>3, TakeChildRight
<1>4. ASSUME Check(c) \/ NoAddressLeft(c) \/ Handshake(c) \/ NotSent(c) \/ Disconnected(c)
      PROVE  RightInv'
    <2>1. /\ UNCHANGED <<clients, op, target>> /\ pc'[c] \notin {"dial", "handshake", "child"}
          /\ \A d \in Caller \ {c} : pc'[d] = pc[d] /\ order'[d] = order[d]
        BY <1>1, <1>4 DEF Check, NoAddressLeft, Handshake, NotSent, CanExchange, Disconnected, Goto, Return,
                          CallersTyped
    <2> QED BY <1>1, <2>1, RightKept
<1>5. CASE StartConnect(c)
    <2>1. UNCHANGED <<clients, op, target>> /\ pc'[c] \in {"exchange", "dial"}
          /\ \A d \in Caller \ {c} : pc'[d] = pc[d] /\ order'[d] = order[d]
        BY <1>1, <1>5 DEF StartConnect, Goto, CallersTyped
    <2>2. pc'[c] = "dial" => order'[c] \in Seq(hosts)
        BY <1>1, <1>2, <1>5, OrderFacts DEF StartConnect, Goto, CallersTyped
    <2> QED BY <1>1, <2>1, <2>2, RightKept DEF hosts
<1>6. CASE Dial(c)
    <2>1. /\ UNCHANGED <<op, target, order>> /\ order[c] \in Seq(Address) /\ order[c] \in Seq(hosts)
          /\ order[c] # <<>> /\ pc'[c] \in {"exchange", "handshake"}
          /\ \A d \in Caller \ {c} : pc'[d] = pc[d]
        BY <1>1, <1>2, <1>6 DEF Dial, Goto, ClientInv, InCall, CallersTyped
    <2>2. Head(order[c]) \in Address /\ Head(order[c]) \in hosts
        BY <2>1, HeadAndTail
    <2>3. PICK s \in Socket \ Open :
            /\ sockets' = [sockets EXCEPT ![s] = [address |-> Head(order[c]), replies |-> <<>>]]
            /\ clients' = Dialled(target[c], s, Head(order[c]))
        BY <1>6 DEF Dial
    <2>4. /\ clients'[target[c]].opt.tcp = Head(order[c])
          /\ clients'[target[c]].opt.pool = clients[target[c]].opt.pool
          /\ clients'[target[c]].mode = clients[target[c]].mode
          /\ \A l \in Object \ {target[c]} : clients'[l] = clients[l]
        BY <1>1, <2>2, <2>3, ClientConnected DEF ClientInv
    <2> QED BY <1>1, <2>1, <2>2, <2>4, RightKept DEF hosts
<1>7. CASE DialFails(c)
    <2>1. /\ UNCHANGED <<clients, pc, op, target>> /\ order' = [order EXCEPT ![c] = Tail(@)]
          /\ order[c] \in Seq(hosts) /\ order[c] # <<>> /\ pc[c] = "dial"
        BY <1>2, <1>7 DEF DialFails, NextAddress
    <2>2. Tail(order[c]) \in Seq(hosts)
        BY <2>1, HeadAndTail
    <2>3. order'[c] = Tail(order[c]) /\ \A d \in Caller \ {c} : order'[d] = order[d]
        BY <1>1, <2>1 DEF CallersTyped
    <2> QED BY <1>1, <2>1, <2>2, <2>3, RightKept DEF hosts
<1>8. CASE HandshakeFails(c)
    <2>1. /\ UNCHANGED <<op, target>> /\ order' = [order EXCEPT ![c] = Tail(@)] /\ Goto(c, "dial")
          /\ sockets' = Closed(target[c]) /\ clients' = [clients EXCEPT ![target[c]].conn = None]
          /\ order[c] \in Seq(hosts) /\ order[c] # <<>>
        BY <1>2, <1>8 DEF HandshakeFails, NextAddress, ClientInv, InCall
    <2>2. Tail(order[c]) \in Seq(hosts)
        BY <2>1, HeadAndTail
    <2>3. /\ order'[c] = Tail(order[c]) /\ pc'[c] = "dial"
          /\ \A d \in Caller \ {c} : order'[d] = order[d] /\ pc'[d] = pc[d]
        BY <1>1, <2>1 DEF CallersTyped, Goto
    <2>4. \A l \in Object : clients'[l].mode = clients[l].mode /\ clients'[l].opt = clients[l].opt
        BY <1>1, <2>1, ClosedConn DEF ClientInv
    <2> QED BY <1>1, <2>1, <2>2, <2>3, <2>4, RightKept DEF hosts
<1>9. ASSUME Exchange(c) \/ ExchangeFails(c)
      PROVE  RightInv'
    <2>1. \A l \in Object : clients'[l].mode = clients[l].mode /\ clients'[l].opt = clients[l].opt
        <3>1. CASE Exchange(c)
            BY <3>1 DEF Exchange
        <3>2. CASE ExchangeFails(c)
            BY <1>1, <3>2, ClosedConn DEF ExchangeFails, AfterError, ClientInv
        <3> QED BY <1>9, <3>1, <3>2
    <2>2. /\ UNCHANGED <<op, target>> /\ pc'[c] = "idle"
          /\ \A d \in Caller \ {c} : pc'[d] = pc[d] /\ order'[d] = order[d]
        BY <1>1, <1>9 DEF Exchange, ExchangeFails, CanExchange, Return, CallersTyped
    <2> QED BY <1>1, <2>1, <2>2, RightKept
<1>10. CASE DisconnectRoot(c)
    <2>1. \A l \in Object : clients'[l].mode = clients[l].mode /\ clients'[l].opt = clients[l].opt
        BY <1>10, RootTaken
    <2>2. /\ UNCHANGED <<op, target>> /\ pc'[c] = "children"
          /\ \A d \in Caller \ {c} : pc'[d] = pc[d] /\ order'[d] = order[d]
        BY <1>1, <1>10 DEF DisconnectRoot, Goto, CallersTyped
    <2> QED BY <1>1, <2>1, <2>2, RightKept
<1>11. CASE DisconnectChild(c)
    <2>1. Head(order[c]) \in Object /\ pc[c] = "children"
        BY <1>11, HeadAndTail, Modes DEF DisconnectChild, ClientInv, InCall
    <2>2. \A l \in Object : clients'[l].mode = clients[l].mode /\ clients'[l].opt = clients[l].opt
        BY <1>11, <2>1, ClosedConn DEF DisconnectChild, ClientInv
    <2>3. /\ UNCHANGED <<pc, op, target>> /\ \A d \in Caller \ {c} : order'[d] = order[d]
        BY <1>1, <1>11 DEF DisconnectChild, CallersTyped
    <2> QED BY <1>1, <2>1, <2>2, <2>3, RightKept
<1> QED BY <1>3, <1>4, <1>5, <1>6, <1>7, <1>8, <1>9, <1>10, <1>11 DEF Step

\* RightInv is inductive, given ClientInv.
LEMMA RightNext == ASSUME RightCalls PROVE ClientInv /\ RightInv /\ [Next]_vars => RightInv'
<1> SUFFICES ASSUME ClientInv, RightInv, [Next]_vars PROVE RightInv'
    OBVIOUS
<1>1. CASE UNCHANGED vars
    BY <1>1 DEF vars, RightInv, RightOptions, RightOrders, ExChildren
<1> QED BY <1>1, CallRight, StepRight DEF Next

\* Connect, ConnectEx, ConnectMAC and the children: a client of whatever mode is connected to a
\* server of its mode, whatever the modes of the hosts, as long as main requests are not made
\* through a client of another mode.
THEOREM ServersAreRight == ASSUME RightCalls PROVE Spec => []RightServer
<1>1. ClientInv /\ RightInv => RightServer
    BY DEF ClientInv, ConnInv, RightInv, RightOptions, RightServer, AddressIsCurrent
<1> QED BY <1>1, InitRight, RightNext, ClientInvariant, PTL DEF Spec

-----------------------------------------------------------------------------
(* A client used by one goroutine at a time.                               *)

OneAtATime == \A c, d \in Caller : pc[c] # "idle" /\ pc[d] # "idle" => c = d

\* The root, the children it has and those that are still to be disconnected.
Kept == {root, clients[root].main, clients[root].ex}
        \cup UNION {ToSet(order[c]) : c \in {c \in Caller : pc[c] = "children"}}

NothingLost == \A s \in Open : \E k \in Object \cap Kept : clients[k].conn = s

AtWork == {"check", "connect", "connectMAC", "dial", "handshake", "exchange"}

\* A caller works on a client that the root still has,
OwnTarget == \A c \in Caller : pc[c] \in AtWork => target[c] \in {root, clients[root].main, clients[root].ex}

\* and connects it only when it is not connected.
Unconnected ==
    \A c \in Caller :
        /\ pc[c] \in {"connect", "dial"} => clients[target[c]].conn = None
        /\ pc[c] = "child" /\ op[c] \notin {"quote", "exQuote"} => Open = {}

LeakInv == careful => OneAtATime /\ NothingLost /\ OwnTarget /\ Unconnected

\* The clients that hold a connection are the same as long as the root has the same children.
LEMMA KeptSame ==
    ASSUME clients'[root].main = clients[root].main, clients'[root].ex = clients[root].ex,
           \A d \in Caller : /\ pc'[d] = "children" <=> pc[d] = "children"
                             /\ pc[d] = "children" => order'[d] = order[d]
    PROVE  Kept' = Kept
<1>1. {c \in Caller : pc[c] = "children"}' = {c \in Caller : pc[c] = "children"}
    OBVIOUS
<1>2. \A d \in {c \in Caller : pc[c] = "children"} : ToSet(order[d])' = ToSet(order[d])
    BY DEF ToSet
<1> QED BY <1>1, <1>2 DEF Kept

\* What a step of the only caller has to keep.
LEMMA LeakKept ==
    ASSUME OneAtATime, NEW c \in Caller, pc[c] # "idle", NothingLost',
           \A d \in Caller \ {c} : pc'[d] = pc[d],
           pc'[c] \in AtWork => target'[c] \in {root, clients'[root].main, clients'[root].ex},
           pc'[c] \in {"connect", "dial"} => clients'[target'[c]].conn = None,
           pc'[c] # "child"
    PROVE  LeakInv'
<1>1. \A d \in Caller \ {c} : pc'[d] = "idle"
    BY DEF OneAtATime
<1>2. OneAtATime'
    BY <1>1 DEF OneAtATime
<1>3. OwnTarget'
    BY <1>1 DEF OwnTarget, AtWork
<1>4. Unconnected'
    BY <1>1 DEF Unconnected
<1> QED BY <1>2, <1>3, <1>4 DEF LeakInv

\* At first no socket is open.
LEMMA InitLeak == Init => LeakInv
<1> SUFFICES ASSUME Init PROVE LeakInv
    OBVIOUS
<1>1. Open = {} /\ \A c \in Caller : pc[c] = "idle"
    BY DEF Init, Open
<1> QED BY <1>1 DEF LeakInv, OneAtATime, NothingLost, OwnTarget, Unconnected, AtWork

\* A call begins when there is no other, and one to connect when nothing is connected.
LEMMA CallLeak ==
    ASSUME ClientInv, LeakInv, NEW c \in Caller, NEW o \in {call[2] : call \in Calls}, Call(c, o)
    PROVE  LeakInv'
<1> SUFFICES ASSUME careful' PROVE (OneAtATime /\ NothingLost /\ OwnTarget /\ Unconnected)'
    BY DEF LeakInv
<1>1. /\ careful /\ \A d \in Caller : pc[d] = "idle"
      /\ o \in {"connect", "connectEx"} => Open = {}
      /\ UNCHANGED <<clients, sockets, order>>
    BY DEF Call
<1>2. /\ CallersTyped /\ NothingLost /\ CallersTyped' /\ clients[root] \in ClientState /\ AddressIsCurrent
      /\ root \in Object
    BY <1>1, CallStep, Modes DEF ClientInv, LeakInv, ConnInv
<1>3. \A d \in Caller \ {c} : pc'[d] = "idle"
    BY <1>1, <1>2 DEF Call, Goto, CallersTyped
<1>4. /\ target'[c] = root /\ op'[c] = o
      /\ pc'[c] = IF ~Itself(o) THEN "child"
                  ELSE CASE o = "macQuote"                   -> "connectMAC"
                         [] o = "disconnect"                 -> "disconnect"
                         [] o \in {"quote", "exQuote"}       -> "check"
                         [] o \in {"connect", "connectEx"}   -> "connect"
    BY <1>2 DEF Call, Goto, CallersTyped
<1>5. o \in {"quote", "exQuote", "macQuote", "connect", "connectEx", "disconnect"}
    BY ClientAssumption
<1>6. pc'[c] \notin {"dial", "children"}
      /\ (pc'[c] = "connect" => o \in {"connect", "connectEx"})
      /\ (pc'[c] = "child" => o \in {"quote", "exQuote", "connect", "connectEx"})
    <2>1. o = "macQuote" \/ o = "disconnect" => Itself(o)
        BY DEF Itself
    <2> QED BY <1>4, <1>5, <2>1
<1>7. OneAtATime'
    BY <1>3 DEF OneAtATime
<1>8. NothingLost'
    <2>1. Kept' = Kept
        BY <1>1, <1>3, <1>6, KeptSame
    <2> QED BY <1>1, <1>2, <2>1 DEF NothingLost, Open
<1>9. OwnTarget'
    BY <1>3, <1>4 DEF OwnTarget, AtWork
<1>10. Unconnected'
    <2>1. Open' = Open
        BY <1>1 DEF Open
    <2>2. Open = {} => clients[root].conn = None
        BY <1>2 DEF AddressIsCurrent, Open, ClientState
    <2> QED BY <1>1, <1>3, <1>4, <1>6, <2>1, <2>2 DEF Unconnected
<1> QED BY <1>7, <1>8, <1>9, <1>10

\* The object that a child is made of had no connection to lose.
LEMMA TakeChildLeak ==
    ASSUME ClientInv, careful, OneAtATime, NothingLost, Unconnected, NEW c \in Caller, TakeChild(c)
    PROVE  LeakInv'
<1>1. /\ CallersTyped /\ pc[c] = "child" /\ clients \in [Object -> ClientState] /\ AddressIsCurrent
      /\ UNCHANGED <<sockets, order>>
    BY DEF ClientInv, ConnInv, TakeChild
<1>2. /\ \A d \in Caller \ {c} : pc'[d] = pc[d]
      /\ pc'[c] \in {"check", "connect"} /\ (pc'[c] = "connect" => op[c] \notin {"quote", "exQuote"})
    BY <1>1 DEF TakeChild, Goto, CallersTyped
<1>3. PICK k \in Child :
        /\ target' = [target EXCEPT ![c] = k]
        /\ k \in {clients'[root].main, clients'[root].ex}
        /\ clients'[root].conn = clients[root].conn
        /\ \A l \in Object \ {k, root} : clients'[l] = clients[l]
        /\ {clients[root].main, clients[root].ex} \ {None} \subseteq {clients'[root].main, clients'[root].ex}
        /\ \/ UNCHANGED clients
           \/ Unused(k) /\ clients'[k] = NewClient(Wanted(op[c]), clients[root].opt)
    BY ChildTaken
<1>4. target'[c] = k /\ k \in Object /\ k # root
    BY <1>1, <1>3, Modes DEF CallersTyped
<1>5. \A d \in Caller : (pc'[d] = "children" <=> pc[d] = "children")
    BY <1>1, <1>2
<1>6. Object \cap Kept \subseteq Kept'
    <2>1. {d \in Caller : pc[d] = "children"}' = {d \in Caller : pc[d] = "children"}
        BY <1>5
    <2>2. \A d \in {d \in Caller : pc[d] = "children"} : ToSet(order[d])' = ToSet(order[d])
        BY <1>1 DEF ToSet
    <2> QED BY <1>3, <2>1, <2>2, Modes DEF Kept
<1>7. NothingLost'
    <2> SUFFICES ASSUME NEW s \in Open' PROVE \E l \in Object \cap Kept' : clients'[l].conn = s
        BY DEF NothingLost
    <2>1. s \in Open
        BY <1>1 DEF Open
    <2>2. PICK l \in Object \cap Kept : clients[l].conn = s
        BY <2>1 DEF NothingLost
    <2>3. l \in Object \cap Kept'
        BY <1>6
    <2>4. clients'[l].conn = clients[l].conn
        <3>1. CASE UNCHANGED clients
            BY <3>1
        <3>2. CASE Unused(k)
            <4>1. k \notin Kept
                BY <1>4, <3>2 DEF Kept, Unused
            <4> QED BY <1>3, <4>1, <2>2
        <3> QED BY <1>3, <3>1, <3>2
    <2> QED BY <2>2, <2>3, <2>4
<1>8. pc'[c] = "connect" => clients'[k].conn = None
    <2>1. CASE clients'[k] = NewClient(Wanted(op[c]), clients[root].opt)
        BY <2>1 DEF NewClient
    <2>2. CASE UNCHANGED clients
        <3>1. pc'[c] = "connect" => Open = {}
            BY <1>1, <1>2 DEF Unconnected
        <3>2. Open = {} => clients[k].conn = None
            BY <1>1, <1>4 DEF AddressIsCurrent, Open, ClientState
        <3> QED BY <2>2, <3>1, <3>2
    <2> QED BY <1>3, <2>1, <2>2
<1> QED BY <1>1, <1>2, <1>3, <1>4, <1>7, <1>8, LeakKept

\* While a caller connects or exchanges, the client that it works on is one the root has, and is
\* the only one to lose a connection, or to get one when it has none.
LEMMA WorkLeak ==
    ASSUME ClientInv, careful, OneAtATime, NothingLost, OwnTarget, Unconnected, NEW c \in Caller,
           \/ Check(c) \/ StartConnect(c) \/ Dial(c) \/ DialFails(c) \/ NoAddressLeft(c) \/ Handshake(c)
           \/ HandshakeFails(c) \/ NotSent(c) \/ Exchange(c) \/ ExchangeFails(c)
    PROVE  LeakInv'
<1> DEFINE k == target[c]
<1>1. /\ CallersTyped /\ ConnInv /\ AddressIsCurrent /\ k \in Object /\ clients \in [Object -> ClientState]
      /\ pc[c] \in AtWork /\ k \in {root, clients[root].main, clients[root].ex}
    BY DEF ClientInv, ConnInv, CallersTyped, OwnTarget, AtWork, Check, StartConnect, Dial, DialFails,
           NoAddressLeft, Handshake, HandshakeFails, NotSent, Exchange, ExchangeFails, CanExchange
<1>2. UNCHANGED target
    BY DEF Check, StartConnect, Dial, DialFails, NoAddressLeft, Handshake, HandshakeFails, NotSent,
           Exchange, ExchangeFails, CanExchange
<1>3. /\ \A d \in Caller \ {c} : pc'[d] = pc[d] /\ order'[d] = order[d]
      /\ pc'[c] \notin {"children", "child"} /\ pc[c] \notin {"children", "idle"}
    BY <1>1 DEF Check, StartConnect, Dial, DialFails, NoAddressLeft, Handshake, HandshakeFails, NotSent,
           Exchange, ExchangeFails, CanExchange, Goto, Return, CallersTyped, AtWork
<1>4. ASSUME \A l \in Object \ {k} : clients'[l] = clients[l],
             clients'[k].main = clients[k].main, clients'[k].ex = clients[k].ex, NothingLost',
             pc'[c] \in {"connect", "dial"} => clients'[k].conn = None
      PROVE  LeakInv'
    <2>1. clients'[root].main = clients[root].main /\ clients'[root].ex = clients[root].ex
        BY <1>4, Modes
    <2> QED BY <1>1, <1>2, <1>3, <1>4, <2>1, LeakKept
<1>5. ASSUME \A l \in Object \ {k} : clients'[l] = clients[l],
             clients'[k].main = clients[k].main, clients'[k].ex = clients[k].ex
      PROVE  Kept' = Kept
    <2>1. clients'[root].main = clients[root].main /\ clients'[root].ex = clients[root].ex
        BY <1>5, Modes
    <2> QED BY <1>3, <2>1, KeptSame
<1>6. k \in Object \cap Kept
    BY <1>1 DEF Kept
<1> HIDE DEF k
<1>7. ASSUME UNCHANGED <<clients, sockets>>, pc'[c] \in {"connect", "dial"} => clients[k].conn = None
      PROVE  LeakInv'
    <2>1. Kept' = Kept
        BY <1>5, <1>7
    <2>2. NothingLost'
        BY <1>7, <2>1 DEF NothingLost, Open
    <2> QED BY <1>4, <1>7, <2>2
<1>8. ASSUME sockets' = Closed(k), clients' = [clients EXCEPT ![k].conn = None]
      PROVE  LeakInv'
    <2>1. /\ \A l \in Object \ {k} : clients'[l] = clients[l]
          /\ clients'[k].main = clients[k].main /\ clients'[k].ex = clients[k].ex
          /\ Open' = Open \ {clients[k].conn} /\ clients'[k].conn = None
        BY <1>1, <1>8, ClosedConn DEF k
    <2>2. Kept' = Kept
        BY <1>5, <2>1
    <2>3. NothingLost'
        BY <2>1, <2>2 DEF NothingLost
    <2> QED BY <1>4, <2>1, <2>3
<1>9. CASE Check(c)
    BY <1>1, <1>7, <1>9 DEF Check, Goto, CallersTyped, k
<1>10. CASE StartConnect(c)
    <2>1. pc'[c] = "dial" => pc[c] = "connect" \/ clients[k].conn = None
        BY <1>1, <1>10 DEF StartConnect, Goto, CallersTyped, k
    <2>2. pc[c] = "connect" => clients[k].conn = None
        BY DEF Unconnected, k
    <2>3. pc'[c] # "connect"
        BY <1>1, <1>10 DEF StartConnect, Goto, CallersTyped
    <2> QED BY <1>7, <1>10, <2>1, <2>2, <2>3 DEF StartConnect
<1>11. CASE Dial(c)
    <2>1. order[c] \in Seq(Address) /\ order[c] # <<>>
        BY <1>11 DEF Dial, ClientInv, InCall
    <2>2. Head(order[c]) \in Address
        BY <2>1, HeadAndTail
    <2>3. PICK s \in Socket \ Open :
            /\ sockets' = [sockets EXCEPT ![s] = [address |-> Head(order[c]), replies |-> <<>>]]
            /\ clients' = Dialled(k, s, Head(order[c]))
        BY <1>11 DEF Dial, k
    <2>4. /\ \A l \in Object \ {k} : clients'[l] = clients[l]
          /\ clients'[k].main = clients[k].main /\ clients'[k].ex = clients[k].ex
          /\ Open' = Open \cup {s} /\ clients'[k].conn = s
        BY <1>1, <2>2, <2>3, ClientConnected DEF k
    <2>5. Kept' = Kept
        BY <1>5, <2>4
    <2>6. clients[k].conn = None
        BY <1>11 DEF Dial, Unconnected, k
    <2>7. NothingLost'
        <3> SUFFICES ASSUME NEW r \in Open' PROVE \E l \in Object \cap Kept' : clients'[l].conn = r
            BY DEF NothingLost
        <3>1. CASE r = s
            BY <1>6, <2>4, <2>5, <3>1
        <3>2. CASE r \in Open
            <4>1. PICK l \in Object \cap Kept : clients[l].conn = r
                BY <3>2 DEF NothingLost
            <4>2. l # k
                BY <2>6, <3>2, <4>1, Modes DEF Open
            <4> QED BY <2>4, <2>5, <4>1, <4>2
        <3> QED BY <2>4, <3>1, <3>2
    <2>8. pc'[c] \notin {"connect", "dial"}
        BY <1>1, <1>11 DEF Dial, Goto, CallersTyped
    <2> QED BY <1>4, <2>4, <2>7, <2>8
<1>12. CASE DialFails(c)
    BY <1>7, <1>12 DEF DialFails, Unconnected, k
<1>13. CASE NoAddressLeft(c)
    BY <1>1, <1>7, <1>13 DEF NoAddressLeft, Return, CallersTyped
<1>14. CASE Handshake(c)
    BY <1>1, <1>7, <1>14 DEF Handshake, Goto, CallersTyped
<1>15. CASE HandshakeFails(c)
    BY <1>8, <1>15 DEF HandshakeFails, k
<1>16. CASE NotSent(c)
    BY <1>1, <1>7, <1>16 DEF NotSent, CanExchange, Return, CallersTyped
<1>17. CASE Exchange(c)
    <2>1. UNCHANGED <<clients, sockets>>
        BY <1>17, OwnReplyRead
    <2> QED BY <1>1, <1>7, <1>17, <2>1 DEF Exchange, CanExchange, Return, CallersTyped
<1>18. CASE ExchangeFails(c)
    BY <1>8, <1>18 DEF ExchangeFails, AfterError, k
<1> QED BY <1>9, <1>10, <1>11, <1>12, <1>13, <1>14, <1>15, <1>16, <1>17, <1>18

\* Disconnect loses the root's references to its children only when it has noted them, and a
\* child leaves the note when it is closed.
LEMMA DisconnectLeak ==
    ASSUME ClientInv, careful, OneAtATime, NothingLost, NEW c \in Caller,
           DisconnectRoot(c) \/ DisconnectChild(c) \/ Disconnected(c)
    PROVE  LeakInv'
<1>1. /\ CallersTyped /\ ConnInv /\ AddressIsCurrent /\ clients \in [Object -> ClientState]
    BY DEF ClientInv, ConnInv
<1>2. /\ \A d \in Caller \ {c} : pc'[d] = pc[d] /\ order'[d] = order[d] /\ pc[d] = "idle"
      /\ pc'[c] \in {"children", "idle"} /\ pc[c] # "idle"
    BY <1>1 DEF DisconnectRoot, DisconnectChild, Disconnected, Goto, Return, CallersTyped, OneAtATime
<1>3. /\ pc[c] = "children" => Kept = {root, clients[root].main, clients[root].ex} \cup ToSet(order[c])
      /\ pc[c] # "children" => Kept = {root, clients[root].main, clients[root].ex}
      /\ pc'[c] = "children" => Kept' = {root, clients'[root].main, clients'[root].ex} \cup ToSet(order'[c])
      /\ pc'[c] # "children" => Kept' = {root, clients'[root].main, clients'[root].ex}
    <2>1. /\ pc[c] = "children" => {d \in Caller : pc[d] = "children"} = {c}
          /\ pc[c] # "children" => {d \in Caller : pc[d] = "children"} = {}
          /\ pc'[c] = "children" => {d \in Caller : pc'[d] = "children"} = {c}
          /\ pc'[c] # "children" => {d \in Caller : pc'[d] = "children"} = {}
        BY <1>2
    <2> QED BY <2>1 DEF Kept, ToSet
<1>4. NothingLost'
    <2> SUFFICES ASSUME NEW s \in Open' PROVE \E l \in Object \cap Kept' : clients'[l].conn = s
        BY DEF NothingLost
    <2>1. CASE DisconnectRoot(c)
        <3>1. /\ Open' = Open \ {clients[root].conn} /\ pc[c] # "children" /\ pc'[c] = "children"
              /\ \A l \in Object \ {root} : clients'[l] = clients[l]
              /\ \A k \in {clients[root].main, clients[root].ex} \ {None} : k \in ToSet(order'[c])
            BY <1>1, <2>1, RootTaken DEF DisconnectRoot, Goto, CallersTyped
        <3>2. PICK l \in Object \cap Kept : clients[l].conn = s
            BY <3>1 DEF NothingLost
        <3>3. l # root /\ l # None /\ l \in {clients[root].main, clients[root].ex}
            BY <1>3, <3>1, <3>2, Modes
        <3> QED BY <1>3, <3>1, <3>2, <3>3
    <2>2. CASE DisconnectChild(c)
        <3>1. /\ pc[c] = "children" /\ order[c] \in Seq(Child) /\ order[c] # <<>>
              /\ sockets' = Closed(Head(order[c]))
              /\ clients' = [clients EXCEPT ![Head(order[c])].conn = None]
              /\ order' = [order EXCEPT ![c] = Tail(order[c])] /\ UNCHANGED pc
            BY <2>2 DEF DisconnectChild, ClientInv, InCall
        <3>2. Head(order[c]) \in Object /\ \A x \in ToSet(order[c]) : x = Head(order[c]) \/ x \in ToSet(Tail(order[c]))
            BY <3>1, HeadAndTail, Modes
        <3>3. /\ Open' = Open \ {clients[Head(order[c])].conn}
              /\ \A l \in Object \ {Head(order[c])} : clients'[l] = clients[l]
              /\ clients'[Head(order[c])].main = clients[Head(order[c])].main
              /\ clients'[Head(order[c])].ex = clients[Head(order[c])].ex
            BY <1>1, <3>1, <3>2, ClosedConn
        <3>4. order'[c] = Tail(order[c]) /\ clients'[root].main = clients[root].main
              /\ clients'[root].ex = clients[root].ex
            BY <1>1, <3>1, <3>3, Modes DEF CallersTyped
        <3>5. PICK l \in Object \cap Kept : clients[l].conn = s
            BY <3>3 DEF NothingLost
        <3>6. l # Head(order[c])
            BY <3>3, <3>5
        <3>7. l \in Kept'
            BY <1>3, <3>1, <3>2, <3>4, <3>5, <3>6
        <3> QED BY <3>3, <3>5, <3>6, <3>7
    <2>3. CASE Disconnected(c)
        <3>1. UNCHANGED <<clients, sockets>> /\ pc[c] = "children" /\ order[c] = <<>> /\ pc'[c] = "idle"
            BY <1>1, <2>3 DEF Disconnected, Return, CallersTyped
        <3>2. ToSet(order[c]) = {}
            BY <3>1 DEF ToSet
        <3>3. Kept' = Kept
            BY <1>3, <3>1, <3>2
        <3> QED BY <3>1, <3>3 DEF NothingLost, Open
    <2> QED BY <2>1, <2>2, <2>3
<1> QED BY <1>2, <1>4, LeakKept DEF AtWork

\* LeakInv is inductive, given ClientInv.
LEMMA LeakNext == ClientInv /\ LeakInv /\ [Next]_vars => LeakInv'
<1> SUFFICES ASSUME ClientInv, LeakInv, [Next]_vars PROVE LeakInv'
    OBVIOUS
<1>1. CASE UNCHANGED vars
    BY <1>1 DEF vars, LeakInv, OneAtATime, NothingLost, OwnTarget, Unconnected, Open, Kept
<1>2. ASSUME NEW c \in Caller, NEW o \in {call[2] : call \in Calls}, Call(c, o) PROVE LeakInv'
    BY <1>2, CallLeak
<1>3. ASSUME NEW c \in Caller, Step(c) PROVE LeakInv'
    <2>1. UNCHANGED careful
        BY <1>3 DEF Step, TakeChild, Check, StartConnect, Dial, DialFails, NoAddressLeft, Handshake, HandshakeFails,
                    NotSent, Exchange, ExchangeFails, CanExchange, DisconnectRoot, DisconnectChild, Disconnected
    <2>2. CASE ~careful
        BY <2>1, <2>2 DEF LeakInv
    <2>3. CASE careful
        <3>1. OneAtATime /\ NothingLost /\ OwnTarget /\ Unconnected
            BY <2>3 DEF LeakInv
        <3>2. CASE TakeChild(c)
            BY <2>3, <3>1, <3>2, TakeChildLeak
        <3>3. CASE DisconnectRoot(c) \/ DisconnectChild(c) \/ Disconnected(c)
            BY <2>3, <3>1, <3>3, DisconnectLeak
        <3> QED BY <1>3, <2>3, <3>1, <3>2, <3>3, WorkLeak DEF Step
    <2> QED BY <2>2, <2>3, <2>1 DEF ClientInv, CallersTyped
<1> QED BY <1>1, <1>2, <1>3 DEF Next

\* Used by one goroutine at a time, a client loses track of no connection, through failed
\* handshakes, failed exchanges and disconnections.
THEOREM NoConnectionLost == Spec => []NothingLeaks
<1>1. ASSUME ClientInv, LeakInv PROVE NothingLeaks
    <2>1. Kept \subseteq Reachable
        BY DEF Kept, Reachable
    <2> QED BY <1>1, <2>1 DEF LeakInv, NothingLost, NothingLeaks
<1> QED BY <1>1, InitLeak, LeakNext, ClientInvariant, PTL DEF Spec
=============================================================================
