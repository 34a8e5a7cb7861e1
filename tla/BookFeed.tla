------------------------------ MODULE BookFeed ------------------------------
(***************************************************************************)
(* One token's book behind its TBT feed.  The exchange that publishes the  *)
(* feed and the datagrams it travels in are external: src/ only shows what *)
(* arrives (marketDataLoop, runtime.cpp:1738-1787).  The simulator's part  *)
(* is Receive: every datagram is applied to the book at once, whatever its *)
(* sequence number says.                                                   *)
(***************************************************************************)
EXTENDS ExternalBook, Sequences, SequencesExt

CONSTANTS
    Sizes,      \* quantities the exchange's orders have
    Networks,   \* what a network may do: subsets of {"lose", "duplicate", "reorder"}
    MaxWire     \* bound: datagrams in flight

ASSUME FeedAssumption ==
    /\ Sizes \subseteq Quantity \ {0}
    /\ Networks \subseteq SUBSET {"lose", "duplicate", "reorder"}
    /\ MaxWire \in Nat

VARIABLES
    faults,     \* what this run's network may do to datagrams
    market,     \* orders resting at the exchange, by id
    used,       \* ids the exchange has given out
    wire,       \* datagrams in flight, oldest first
    book        \* the simulator's ExternalBook for the token

feed_vars == <<faults, market, used, wire, book>>

Message ==
    [kind : {"N", "M", "X"}, id : MarketIds, side : Side, price : Prices, quantity : Quantity]
      \cup [kind : {"T"}, buy : MarketIds, sell : MarketIds, price : Prices, quantity : Quantity]

FeedInit ==
    /\ faults \in Networks
    /\ market = Empty
    /\ used = {}
    /\ wire = <<>>
    /\ book = EmptyBook

-----------------------------------------------------------------------------
(* The exchange.                                                           *)

Publish(message) ==
    /\ Len(wire) < MaxWire
    /\ wire' = Append(wire, message)
    /\ UNCHANGED book

ExchangeNew(id, side, price, quantity) ==
    /\ id \notin used
    /\ used' = used \cup {id}
    /\ market' = Put(market, id, [side |-> side, price |-> price, quantity |-> quantity])
    /\ Publish([kind |-> "N", id |-> id, side |-> side, price |-> price, quantity |-> quantity])

ExchangeModify(id, price, quantity) ==
    /\ id \in DOMAIN market
    /\ market' = [market EXCEPT ![id].price = price, ![id].quantity = quantity]
    /\ Publish([kind |-> "M", id |-> id, side |-> market[id].side,
                price |-> price, quantity |-> quantity])
    /\ UNCHANGED used

ExchangeCancel(id) ==
    /\ id \in DOMAIN market
    /\ market' = Without(market, id)
    /\ Publish([kind |-> "X", id |-> id, side |-> market[id].side,
                price |-> market[id].price, quantity |-> market[id].quantity])
    /\ UNCHANGED used

Shrink(orders, id, quantity) ==
    IF orders[id].quantity = quantity THEN Without(orders, id)
    ELSE [orders EXCEPT ![id].quantity = @ - quantity]

ExchangeTrade(buy, sell, quantity) ==
    /\ {buy, sell} \subseteq DOMAIN market
    /\ market[buy].side = "buy" /\ market[sell].side = "sell"
    /\ quantity <= market[buy].quantity /\ quantity <= market[sell].quantity
    /\ market' = Shrink(Shrink(market, buy, quantity), sell, quantity)
    /\ Publish([kind |-> "T", buy |-> buy, sell |-> sell,
                price |-> market[sell].price, quantity |-> quantity])
    /\ UNCHANGED used

-----------------------------------------------------------------------------
(* The network.                                                            *)

Lose ==
    /\ "lose" \in faults
    /\ \E i \in DOMAIN wire : wire' = RemoveAt(wire, i)
    /\ UNCHANGED <<market, used, book>>

Duplicate ==
    /\ "duplicate" \in faults
    /\ Len(wire) < MaxWire
    /\ \E i \in DOMAIN wire : wire' = InsertAt(wire, i, wire[i])
    /\ UNCHANGED <<market, used, book>>

-----------------------------------------------------------------------------
(* The simulator: onTbtOrderMessage and onTbtTradeMessage as far as the    *)
(* book is concerned.                                                      *)

Apply(b, m) ==
    CASE m.kind = "N" -> OnNew(b, m.id, m.side, m.price, m.quantity)
      [] m.kind = "M" -> OnModify(b, m.id, m.side, m.price, m.quantity)
      [] m.kind = "X" -> OnCancel(b, m.id, m.side, m.price, m.quantity)
      [] m.kind = "T" -> OnTrade(b, m.buy, m.sell, m.price, m.quantity)

Receive ==
    \E i \in DOMAIN wire :
        /\ i = 1 \/ "reorder" \in faults
        /\ wire' = RemoveAt(wire, i)
        /\ book' = Apply(book, wire[i])
        /\ UNCHANGED <<market, used>>

Exchange ==
    \E id \in MarketIds, price \in Prices, quantity \in Sizes :
        \/ \E side \in Side : ExchangeNew(id, side, price, quantity)
        \/ ExchangeModify(id, price, quantity)
        \/ ExchangeCancel(id)
        \/ \E other \in MarketIds : ExchangeTrade(id, other, quantity)

FeedNext ==
    /\ Exchange \/ Lose \/ Duplicate \/ Receive
    /\ UNCHANGED faults

FeedSpec == FeedInit /\ [][FeedNext]_feed_vars

-----------------------------------------------------------------------------
FeedTypeOK ==
    /\ faults \in Networks
    /\ IsTable(market, used, MarketOrder)
    /\ used \subseteq MarketIds
    /\ wire \in Seq(Message) /\ Len(wire) <= MaxWire
    /\ IsBook(book)

\* The orders of a table that rest at one price of one side, and their size.
At(orders, side, price) ==
    {id \in DOMAIN orders : orders[id].side = side /\ orders[id].price = price}

Depth(orders, side, price) ==
    SumFunctionOnSet([id \in DOMAIN orders |-> orders[id].quantity], At(orders, side, price))

LevelsOf(orders, side) ==
    [price \in {orders[id].price : id \in {i \in DOMAIN orders : orders[i].side = side}} |->
        [quantity |-> Depth(orders, side, price),
         order_count |-> Cardinality(At(orders, side, price))]]

\* The book that shows exactly the orders given.
BookOfOrders(orders) ==
    [buy |-> LevelsOf(orders, "buy"), sell |-> LevelsOf(orders, "sell"), orders |-> orders]

\* The book b once it has heard all of `messages`.
CaughtUp(b, messages) ==
    LET after[i \in 0 .. Len(messages)] ==
            IF i = 0 THEN b ELSE Apply(after[i - 1], messages[i])
    IN  after[Len(messages)]

\* On a feed that loses, repeats and reorders nothing, the book is the
\* exchange's own as of the last datagram applied: applying what is still in
\* flight yields exactly the exchange's levels, order counts included, and its
\* orders.  Any drift between level and order bookkeeping in removeLevel,
\* removeKnown or onModify (runtime.cpp:434-533) breaks it several messages
\* after the faulty one.
BookFollowsFeed == faults = {} => CaughtUp(book, wire) = BookOfOrders(market)

\* No level of book b is above what the orders b knows of can account for.
Covered(b) ==
    \A side \in Side : \A price \in DOMAIN b[side] :
        /\ b[side][price].quantity <= Depth(b.orders, side, price)
        /\ b[side][price].order_count \in 1 .. Cardinality(At(b.orders, side, price))

\* On any feed, however many datagrams are lost, repeated or reordered, the
\* book never shows more than the orders it knows of can account for: neither
\* quantity nor order count of a level exceeds that of the known orders at its
\* price.  The engine fills client orders against this quantity
\* (runtime.cpp:471, 480), so an overstated level would be a phantom fill.
NeverOverstates == Covered(book)

=============================================================================
