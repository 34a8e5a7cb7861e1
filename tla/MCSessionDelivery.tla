-------------------------- MODULE MCSessionDelivery --------------------------
(* TLC instances of SessionDelivery.                                       *)
EXTENDS SessionDelivery, TLC

CONSTANTS s1, s2, f1, f2

MCOneSession == {s1}
MCTwoSessions == {s1, s2}
MCOneFeed == {f1}
MCTwoFeeds == {f1, f2}
MCBreaking == [s \in MCTwoSessions |-> {"break", "garbage"}]
MCInquiring == [s \in MCOneSession |-> {"inquire", "break"}]
MCStalling == s1 :> {"stall"} @@ s2 :> {"inquire", "break", "garbage"}
MCOne == {1}
MCTwo == {2}
MCOneTwo == {1, 2}

\* A run goes on while one order is entered and the second session left alone; or
\* while both sessions enter one order of the same volume, which is only filled, by
\* one thread at a time, and the second session does not break.
Untouched(s) ==
    /\ pending[s] = <<>> /\ running[s] /\ socket[s] = "open" /\ wire[s] = <<>>
    /\ at[s] = "idle"

OneOrderEach ==
    /\ \A n \in DOMAIN open : open[n].left = 2
    /\ \A n, m \in DOMAIN open : open[n].session = open[m].session => n = m
    /\ \A i \in DOMAIN reply : reply[i].type \in {"confirmed", "trade"}

Small ==
    \/ next_order <= FirstOrder + 1 /\ Untouched(s2)
    \/ /\ next_ref <= 5 /\ OneOrderEach
       /\ \E f \in Feeds : pending[f] = <<>>
       /\ socket[s2] = "open" /\ ~closed[s2]

FeedSymmetry == Permutations(Feeds)

\* No action reads the last reply of the engine.
ButReply == <<open, next_order, next_ref, threads, sending, write_mutex, closed, running, socket, full, alive>>

=============================================================================
