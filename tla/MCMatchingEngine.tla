-------------------------- MODULE MCMatchingEngine --------------------------
(* TLC instances of MatchingEngine.                                        *)
EXTENDS EngineLife

CONSTANTS s1, s2, t1, t2, k1, k2

MCFeed == {TRUE}
MCNoFeed == {FALSE}
MCFeedOrNot == {TRUE, FALSE}
MCOneSession == {s1}
MCTwoSessions == {s1, s2}
MCOneToken == {t1}
MCTwoTokens == {t1, t2}
MCOneId == {k1}
MCTwoIds == {k1, k2}
MCOne == {1}
MCTwo == {2}
MCOneTwo == {1, 2}
MCThree == {3}
MCZeroTwo == {0, 2}

\* No action reads the last reply, so states that differ in nothing else are one;
\* properties of replies are checked on the steps.
ButReply == <<market_data, books, tables, counters, worker>>

\* A run goes on with one order or with one market order.
Small ==
    \/ next_order <= FirstOrder + 1
    \/ \A t \in DOMAIN books : Cardinality(DOMAIN books[t].orders) <= 1

IdSymmetry == Permutations({k1, k2})
SessionSymmetry == Permutations({s1, s2})

=============================================================================
