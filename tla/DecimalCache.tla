---------------------------- MODULE DecimalCache ----------------------------
(***************************************************************************)
(* Quotations carry prices as integers.  How many digits are decimals is   *)
(* told by the market's list of securities, which the client reads once    *)
(* and keeps: decimalPoints by code, decimalPointsLoaded by market.  Each  *)
(* look at them and each change is a critical section of its own, between  *)
(* which pages are requested; several goroutines may call at a time.  A    *)
(* code without a cached decimal point keeps the default scale.            *)
(***************************************************************************)
EXTENDS Integers, Sequences, SequencesExt

CONSTANTS Caller,    \* goroutines that ask for quotations
          Market, Code,
          Lists,     \* the codes each market lists at first: a sequence by market
          Batches,   \* the sets of keys that may be asked for
          ListPage,  \* DefaultSecurityListCount, the length of a page
          MaxCalls,  \* bound: calls that are made
          MaxListed, \* bound: length of a market's list
          None

ASSUME DecimalAssumption ==
  /\ {ListPage, MaxCalls, MaxListed} \subseteq Nat /\ ListPage > 0
  /\ Lists \in [Market -> Seq(Code)]
  /\ Batches \subseteq SUBSET (Market \X Code)

VARIABLES cached,  \* decimalPoints: the keys it has
          loaded,  \* decimalPointsLoaded
          listed,  \* the server's list by market
          caller,  \* each goroutine's call
          calls,   \* how many were made
          given    \* history: the keys that a finished call had decimal points for

decimalVars == <<cached, loaded, listed, caller, calls, given>>

Key == Market \X Code
Call == [pc : {"idle", "cached", "loaded", "markets", "page", "store", "mark", "again", "done"},
         keys : SUBSET Key, todo : SUBSET Key, out : SUBSET Key, owed : SUBSET Key,
         markets : SUBSET Market, failed : SUBSET Market, market : Market \cup {None},
         start : Nat, items : Seq(Code)]
Idle == [pc |-> "idle", keys |-> {}, todo |-> {}, out |-> {}, markets |-> {}, market |-> None,
         start |-> 0, items |-> << >>, failed |-> {}, owed |-> {}]

At(c, p) == caller[c].pc = p
Update(c, r) == caller' = [caller EXCEPT ![c] = r]

-----------------------------------------------------------------------------
(* loadDecimalPointMap: what is cached, what must be loaded.               *)

\* The quotation itself; its keys are those asked for, or those of the reply.
Quote(c) ==
  /\ At(c, "idle") /\ calls < MaxCalls
  /\ \E keys \in Batches :
       Update(c, [Idle EXCEPT !.pc = "cached", !.keys = keys, !.todo = keys, !.owed = given \cap keys])
  /\ calls' = calls + 1
  /\ UNCHANGED <<cached, loaded, listed, given>>

\* cachedDecimalPoint, one key after the other.
LookUp(c) ==
  /\ At(c, "cached")
  /\ LET r == caller[c]
     IN IF r.todo = {}
        THEN Update(c, [r EXCEPT !.pc = "markets"])
        ELSE \E k \in r.todo :
               Update(c, IF k \in cached
                         THEN [r EXCEPT !.todo = @ \ {k}, !.out = @ \cup {k}]
                         ELSE [r EXCEPT !.todo = @ \ {k}, !.market = k[1], !.pc = "loaded"])
  /\ UNCHANGED <<cached, loaded, listed, calls, given>>

\* decimalPointMarketLoaded, after the mutex was released and taken again.
NeedsMarket(c) ==
  /\ At(c, "loaded")
  /\ LET r == caller[c]
     IN Update(c, [r EXCEPT !.pc = "cached",
                            !.markets = IF r.market \in loaded THEN @ ELSE @ \cup {r.market}])
  /\ UNCHANGED <<cached, loaded, listed, calls, given>>

-----------------------------------------------------------------------------
(* loadDecimalPointMarket.                                                 *)

\* The next market, in any order; one that somebody loaded meanwhile is left out.
StartLoad(c) ==
  /\ At(c, "markets") /\ caller[c].markets # {}
  /\ \E m \in caller[c].markets :
       LET r == [caller[c] EXCEPT !.markets = @ \ {m}, !.market = m, !.start = 0]
       IN Update(c, IF m \in loaded THEN r ELSE [r EXCEPT !.pc = "page"])
  /\ UNCHANGED <<cached, loaded, listed, calls, given>>

PageAt(m, start) == SubSeq(listed[m], start + 1,
                           IF start + ListPage < Len(listed[m]) THEN start + ListPage ELSE Len(listed[m]))

LoadPage(c) ==
  /\ At(c, "page")
  /\ LET r == caller[c]
     IN Update(c, [r EXCEPT !.pc = "store", !.items = PageAt(r.market, r.start)])
  /\ UNCHANGED <<cached, loaded, listed, calls, given>>

\* Mutant: the market is marked as loaded all the same.
AfterFailure_Marked == "mark"

\* After a request that failed: what was stored stays, the market is not marked, and
\* the quotation goes on without an error.
AfterFailure == "markets"

LoadFails(c) ==
  /\ At(c, "page")
  /\ LET r == caller[c] IN Update(c, [r EXCEPT !.pc = AfterFailure, !.failed = @ \cup {r.market}, !.start = 0])
  /\ UNCHANGED <<cached, loaded, listed, calls, given>>

\* Mutant: a page replaces what the market had.
Stored_Anew(m, items) == {k \in cached : k[1] # m} \cup ({m} \X ToSet(items))

Stored(m, items) == cached \cup ({m} \X ToSet(items))

StorePage(c) ==
  /\ At(c, "store")
  /\ LET r == caller[c]
     IN /\ cached' = Stored(r.market, r.items)
        /\ Update(c, [r EXCEPT !.pc = IF Len(r.items) < ListPage THEN "mark" ELSE "page",
                               !.start = @ + ListPage, !.items = << >>])
  /\ UNCHANGED <<loaded, listed, calls, given>>

MarkLoaded(c) ==
  /\ At(c, "mark")
  /\ loaded' = loaded \cup {caller[c].market}
  /\ Update(c, [caller[c] EXCEPT !.pc = "markets", !.start = 0])
  /\ UNCHANGED <<cached, listed, calls, given>>

-----------------------------------------------------------------------------
(* The answer.                                                             *)

\* The keys not yet answered are looked up once more, each under the mutex.
LoadsDone(c) ==
  /\ At(c, "markets") /\ caller[c].markets = {}
  /\ LET r == caller[c] IN Update(c, [r EXCEPT !.pc = "again", !.todo = r.keys \ r.out])
  /\ UNCHANGED <<cached, loaded, listed, calls, given>>

LookUpAgain(c) ==
  /\ At(c, "again") /\ caller[c].todo # {}
  /\ \E k \in caller[c].todo :
       Update(c, [caller[c] EXCEPT !.todo = @ \ {k}, !.out = @ \cup ({k} \cap cached)])
  /\ UNCHANGED <<cached, loaded, listed, calls, given>>

\* Prices are scaled by what was found; then the shares of each key are asked for, which
\* changes nothing kept, and of which a failure is left out of the answer likewise.
AnswerQuote(c) ==
  /\ At(c, "again") /\ caller[c].todo = {}
  /\ Update(c, [caller[c] EXCEPT !.pc = "done"])
  /\ given' = given \cup caller[c].out
  /\ UNCHANGED <<cached, loaded, listed, calls>>

Return(c) ==
  /\ At(c, "done")
  /\ Update(c, Idle)
  /\ UNCHANGED <<cached, loaded, listed, calls, given>>

-----------------------------------------------------------------------------
\* The exchange lists another code, anywhere in the list.
ListCode ==
  /\ \E m \in Market, x \in Code :
       /\ x \notin ToSet(listed[m]) /\ Len(listed[m]) < MaxListed
       /\ \E i \in 1..(Len(listed[m]) + 1) : listed' = [listed EXCEPT ![m] = InsertAt(@, i, x)]
  /\ UNCHANGED <<cached, loaded, caller, calls, given>>

DecimalInit ==
  /\ cached = {} /\ loaded = {} /\ listed = Lists
  /\ caller = [c \in Caller |-> Idle]
  /\ calls = 0 /\ given = {}

Step(c) == \/ LookUp(c) \/ NeedsMarket(c) \/ StartLoad(c) \/ LoadPage(c) \/ LoadFails(c) \/ StorePage(c)
           \/ MarkLoaded(c) \/ LoadsDone(c) \/ LookUpAgain(c) \/ AnswerQuote(c) \/ Return(c)
DecimalNext == (\E c \in Caller : Quote(c) \/ Step(c)) \/ ListCode

DecimalSpec == DecimalInit /\ [][DecimalNext]_decimalVars

-----------------------------------------------------------------------------
(* Properties.                                                             *)

DecimalTypeOK ==
  /\ cached \subseteq Key /\ loaded \subseteq Market /\ given \subseteq Key
  /\ listed \in [Market -> Seq(Code)] /\ calls \in Nat
  /\ caller \in [Caller -> Call]
  /\ \A c \in Caller : /\ caller[c].out \cup caller[c].todo \subseteq caller[c].keys
                       /\ caller[c].pc \in {"loaded", "page", "store", "mark"} => caller[c].market \in Market

\* A quotation has the decimal points of all its codes, unless a request of its own for
\* the list failed: whoever finds a market marked, or half loaded by another goroutine,
\* finds in the end every code that was listed from the beginning.
MissingMeansFailure ==
  \A c \in Caller : At(c, "done") =>
    \A k \in caller[c].keys \ caller[c].out :
      k[1] \in caller[c].failed \/ k[2] \notin ToSet(Lists[k[1]])

\* A code's price does not jump back to the default scale: a quotation asked for after
\* one that had the code's decimal point has it too, whatever fails or is loaded again.
ScaleIsKept == \A c \in Caller : At(c, "done") => caller[c].owed \subseteq caller[c].out
=============================================================================
