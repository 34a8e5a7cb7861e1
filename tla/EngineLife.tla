------------------------------ MODULE EngineLife ------------------------------
(***************************************************************************)
(* MatchingEngine implements OrderLife.  What a client sees of the engine  *)
(* is the volume its orders have left and the events about them; books,    *)
(* prices, fill numbers, indexes and session threads are the engine's own. *)
(***************************************************************************)
EXTENDS MatchingEngine

\* What the events of a reply say at OrderLife's level.
Said(event) ==
    IF "ref" \notin DOMAIN event THEN [type |-> "refused"]
    ELSE [type |-> event.type, order |-> event.order, session |-> event.session,
          quantity |-> IF event.type = "trade" THEN event.quantity ELSE event.remaining,
          ref |-> event.ref]

Life == INSTANCE OrderLife WITH
    Volumes <- Quantity \ {0},
    open <- [n \in DOMAIN open_orders |->
                [session |-> open_orders[n].session, left |-> open_orders[n].remaining]],
    next_ref <- next_activity,
    reply <- [i \in DOMAIN reply |-> Said(reply[i])]

\* Every call of the engine is a call OrderLife allows: no order changes behind
\* its owner's back, none is forgotten with volume left, every unit of a
\* confirmed volume is traded, rests or is cancelled, the orders of a closed
\* session and only those go unsaid, and references are handed out in order.
LifeKept == Life!Spec

=============================================================================
