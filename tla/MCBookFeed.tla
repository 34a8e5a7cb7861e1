----------------------------- MODULE MCBookFeed -----------------------------
(* TLC instances of BookFeed: three market orders on two prices.           *)
EXTENDS BookFeed

CONSTANTS m1, m2, m3

MCMarketIds == {m1, m2, m3}
MCPrices == {1, 2}
MCNetworks == {{}, {"lose", "duplicate", "reorder"}}
MCSizes == {1, 2}

\* Under faults a run goes on while it keeps to two orders, or to one price.
OnePrice ==
    /\ \A id \in DOMAIN market : market[id].price = 1
    /\ \A id \in DOMAIN book.orders : book.orders[id].price = 1
    /\ \A i \in DOMAIN wire : wire[i].price = 1

Small == faults = {} \/ Cardinality(used) <= 2 \/ OnePrice

IdSymmetry == Permutations(MCMarketIds)

=============================================================================
