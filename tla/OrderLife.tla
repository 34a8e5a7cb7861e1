------------------------------ MODULE OrderLife ------------------------------
(***************************************************************************)
(* What the matching engine promises of an order's life, without books,    *)
(* prices or indexes: the specification MatchingEngine implements          *)
(* (EngineLife) and SessionDelivery builds on.                             *)
(*                                                                         *)
(* Each action is one call of the engine.  An order is confirmed once and  *)
(* with the volume it came with; all of that volume is traded, rests, or   *)
(* is cancelled; it changes only by events that say so; and every such     *)
(* event carries the next activity reference.                              *)
(***************************************************************************)
EXTENDS Naturals, Sequences, SequencesExt

CONSTANTS
    Sessions,       \* session ids
    Volumes,        \* volumes an order may have, new or modified
    FirstOrder      \* number of the first order

VARIABLES
    open,           \* open orders: number -> session and volume left
    next_order,     \* next order number
    next_ref,       \* next activity reference
    reply           \* events of the last call

vars == <<open, next_order, next_ref, reply>>

Event(type, n, s, quantity, ref) ==
    [type |-> type, order |-> n, session |-> s, quantity |-> quantity, ref |-> ref]

Refusal == [type |-> "refused"]

Init ==
    /\ open = [n \in {} |-> n]
    /\ next_order = FirstOrder
    /\ next_ref = 1
    /\ reply = <<>>

-----------------------------------------------------------------------------
\* Order n stays with `left`, or goes if that is nothing.
Keep(n, s, left) ==
    open' = [m \in (DOMAIN open \cup {n}) \ (IF left = 0 THEN {n} ELSE {}) |->
                IF m = n THEN [session |-> s, left |-> left] ELSE open[m]]

TradeOf(n, s, quantity, ref) ==
    IF quantity = 0 THEN <<>> ELSE <<Event("trade", n, s, quantity, ref)>>

\* A new order: it trades some of its volume at once; the rest stays or is
\* cancelled.
Accept(s, volume, traded, stays) ==
    LET n == next_order
        rest == IF stays \/ traded = volume THEN <<>>
                ELSE <<Event("cancelled", n, s, 0, next_ref + IF traded = 0 THEN 1 ELSE 2)>>
    IN  /\ next_order' = next_order + 1
        /\ traded \in 0 .. volume
        /\ reply' = <<Event("confirmed", n, s, volume, next_ref)>>
                        \o TradeOf(n, s, traded, next_ref + 1) \o rest
        /\ next_ref' = next_ref + Len(reply')
        /\ Keep(n, s, IF stays THEN volume - traded ELSE 0)

\* Its session sets anew what an open order has left, and it may trade at once.
Modify(n, left, traded) ==
    /\ n \in DOMAIN open
    /\ traded \in 0 .. left
    /\ UNCHANGED next_order
    /\ next_ref' = next_ref + IF traded = 0 THEN 1 ELSE 2
    /\ LET s == open[n].session
       IN  /\ reply' = <<Event("modified", n, s, left, next_ref)>>
                          \o TradeOf(n, s, traded, next_ref + 1)
           /\ Keep(n, s, left - traded)

Cancel(n) ==
    /\ n \in DOMAIN open
    /\ UNCHANGED next_order
    /\ next_ref' = next_ref + 1
    /\ reply' = <<Event("cancelled", n, open[n].session, 0, next_ref)>>
    /\ Keep(n, open[n].session, 0)

\* A book update: some open orders trade, by ascending number.
Match(S) ==
    /\ S # {} /\ S \subseteq DOMAIN open
    /\ UNCHANGED next_order
    /\ next_ref' = next_ref + Cardinality(S)
    /\ \E traded \in [S -> Volumes] :
        /\ \A n \in S : traded[n] <= open[n].left
        /\ LET left(n) == IF n \in S THEN open[n].left - traded[n] ELSE open[n].left
           IN  open' = [n \in {m \in DOMAIN open : left(m) > 0} |->
                            [open[n] EXCEPT !.left = left(n)]]
        /\ \E nth \in [1 .. Cardinality(S) -> S] :
            /\ \A i, j \in DOMAIN nth : i < j => nth[i] < nth[j]
            /\ reply' = [i \in DOMAIN nth |->
                    Event("trade", nth[i], open[nth[i]].session, traded[nth[i]],
                          next_ref + i - 1)]

\* A session is gone: so are its orders, and nothing is said.
Drop(s) ==
    /\ open' = [n \in {m \in DOMAIN open : open[m].session # s} |-> open[n]]
    /\ reply' = <<>>
    /\ UNCHANGED <<next_order, next_ref>>

\* A call that changes nothing: refused, or with nothing to do.
Pass ==
    /\ reply' \in {<<Refusal>>, <<>>}
    /\ UNCHANGED <<open, next_order, next_ref>>

Next ==
    \/ \E s \in Sessions :
        \/ \E volume \in Volumes : \E traded \in 0 .. volume, stays \in BOOLEAN :
                Accept(s, volume, traded, stays)
        \/ Drop(s)
    \/ \E n \in DOMAIN open :
        \/ \E left \in Volumes : \E traded \in 0 .. left : Modify(n, left, traded)
        \/ Cancel(n)
    \/ \E S \in SUBSET DOMAIN open : Match(S)
    \/ Pass

Spec == Init /\ [][Next]_vars

=============================================================================
