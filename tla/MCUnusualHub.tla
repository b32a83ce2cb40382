---------------------------- MODULE MCUnusualHub ----------------------------
(* Instances of UnusualHub for TLC. *)
EXTENDS UnusualHub, TLC

CONSTANTS c1, c2

Symmetry == Permutations(Subscriber)

\* Two markets, one stock in each: a connection may watch either or both.
TwoMarkets == {{<<0, c1>>}, {<<1, c1>>}, {<<0, c1>>, <<1, c1>>}}

\* One market, two stocks.
TwoStocks == {{<<0, c1>>}, {<<0, c1>>, <<0, c2>>}}

\* Two stocks within a day, or one over a change of day: what a second day adds to the
\* interests is little, and to the states much.
OneStockAtMidnight ==
    day > 1 =>
        /\ \A s \in Subscriber : targets[s] \subseteq {<<0, c1>>}
        /\ \A m \in Market : \A i \in DOMAIN feed[m] : feed[m][i] = c1
OneStock == {{<<0, c1>>}}
=============================================================================
