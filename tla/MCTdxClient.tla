---------------------------- MODULE MCTdxClient -----------------------------
(* Instances of TdxClient for TLC. *)
EXTENDS TdxClient, TLC

CONSTANTS main1, main2, ex1, mac1

TwoMainHosts == [main |-> <<main1, main2>>, ex |-> <<ex1>>, mac |-> <<mac1>>]

\* Requests a client of each mode is made for, and those of its child.
UsualCalls ==
    {<<"main", "quote">>, <<"main", "exQuote">>, <<"main", "connect">>, <<"main", "disconnect">>,
     <<"ex", "exQuote">>, <<"ex", "connectEx">>, <<"ex", "disconnect">>,
     <<"mac", "macQuote">>, <<"mac", "exQuote">>, <<"mac", "disconnect">>}

QuotesOnly == {<<"main", "quote">>}

QuotesFromEx == {<<"ex", "quote">>, <<"ex", "connectEx">>}

Symmetry == Permutations(Caller) \cup Permutations(Socket) \cup Permutations(Child)
=============================================================================
