---------------------------- MODULE ExternalBook ----------------------------
(***************************************************************************)
(* The market-data book the simulator builds for one token from TBT order  *)
(* and trade messages (class ExternalBook, runtime.cpp:417-538).           *)
(*                                                                         *)
(* A book is a value, not a state: the market-data threads only touch it   *)
(* inside MatchingEngine's mutex.  It is a record with one field per side, *)
(* "buy" for bids_ and "sell" for asks_, each a partial function from      *)
(* price to level, and `orders`, the partial function orders_ from market  *)
(* order id to what the book remembers of it.                              *)
(***************************************************************************)
EXTENDS Naturals, FiniteSetsExt

CONSTANTS
    Prices,      \* prices seen on the wire (uint32_t)
    MarketIds,   \* market order ids: bit patterns of the TBT order id
    U32          \* modulus of uint32_t: 2^32 in the program

ASSUME BookAssumption ==
    /\ U32 \in Nat \ {0}
    /\ Prices \subseteq 0 .. U32 - 1

Side == {"buy", "sell"}
Quantity == 0 .. U32 - 1

Level == [quantity : Nat, order_count : Nat]
MarketOrder == [side : Side, price : Prices, quantity : Quantity]

\* f is a table: a function from some of the keys K into V.
IsTable(f, K, V) == f \in [DOMAIN f -> V] /\ DOMAIN f \subseteq K

IsBook(b) ==
    /\ b = [buy |-> b.buy, sell |-> b.sell, orders |-> b.orders]
    /\ \A side \in Side : IsTable(b[side], Prices, Level)
    /\ IsTable(b.orders, MarketIds, MarketOrder)

Empty == [x \in {} |-> x]
EmptyBook == [buy |-> Empty, sell |-> Empty, orders |-> Empty]

\* The book with other levels on one side and another table of orders.
Revise(book, side, levels, orders) ==
    [buy |-> IF side = "buy" THEN levels ELSE book.buy,
     sell |-> IF side = "sell" THEN levels ELSE book.sell,
     orders |-> orders]

Put(f, x, v) == [y \in DOMAIN f \cup {x} |-> IF y = x THEN v ELSE f[y]]
Without(f, x) == Restrict(f, DOMAIN f \ {x})

-----------------------------------------------------------------------------
(* Price levels.  The quantity of a level is 64 bits wide and no sequence  *)
(* of messages a run can receive overflows it.                             *)

AddLevel(levels, price, quantity) ==
    LET old == IF price \in DOMAIN levels THEN levels[price]
               ELSE [quantity |-> 0, order_count |-> 0]
    IN  Put(levels, price, [quantity |-> old.quantity + quantity,
                            order_count |-> old.order_count + 1])

\* Mutant of RemoveLevel: only a level left with exactly nothing is erased.
RemoveLevelExact(levels, price, quantity, decrement_order_count) ==
    IF price \notin DOMAIN levels THEN levels
    ELSE IF levels[price].quantity = quantity THEN Without(levels, price)
    ELSE [levels EXCEPT ![price].quantity = @ - quantity,
                        ![price].order_count = @ - IF decrement_order_count THEN 1 ELSE 0]

\* A level that would be emptied, of quantity or of orders, is erased: in the
\* second case with whatever quantity it still shows.
RemoveLevel(levels, price, quantity, decrement_order_count) ==
    IF price \notin DOMAIN levels THEN levels
    ELSE LET level == levels[price]
             count == IF decrement_order_count /\ level.order_count > 0
                      THEN level.order_count - 1 ELSE level.order_count
         IN  IF level.quantity <= quantity \/ count = 0
             THEN Without(levels, price)
             ELSE Put(levels, price, [quantity |-> level.quantity - quantity,
                                      order_count |-> count])

-----------------------------------------------------------------------------
(* Orders the book knows.                                                  *)

Insert(book, id, side, price, quantity) ==
    Revise(book, side, AddLevel(book[side], price, quantity),
           Put(book.orders, id, [side |-> side, price |-> price, quantity |-> quantity]))

\* Mutant of RemoveKnown: an order traded to the end keeps its place in the count.
RemoveKnownUncounted(book, id, quantity) ==
    LET order == book.orders[id]
        whole == quantity = 0 \/ quantity >= order.quantity
        taken == IF whole THEN order.quantity ELSE quantity
    IN  Revise(book, order.side,
               RemoveLevel(book[order.side], order.price, taken, FALSE),
               IF whole THEN Without(book.orders, id)
               ELSE [book.orders EXCEPT ![id].quantity = @ - taken])

\* removeKnown, once the id is found: a quantity of 0 or one that reaches the
\* order's own takes the whole order, anything less only shrinks it.
RemoveKnown(book, id, quantity) ==
    LET order == book.orders[id]
        whole == quantity = 0 \/ quantity >= order.quantity
        taken == IF whole THEN order.quantity ELSE quantity
    IN  Revise(book, order.side,
               RemoveLevel(book[order.side], order.price, taken, whole),
               IF whole THEN Without(book.orders, id)
               ELSE [book.orders EXCEPT ![id].quantity = @ - taken])

\* One leg of a cancel or of a trade: an unknown id still takes the quantity
\* from the level the message names, and leaves the level's order count alone.
TakeOut(book, id, side, price, quantity) ==
    IF id \in DOMAIN book.orders THEN RemoveKnown(book, id, quantity)
    ELSE Revise(book, side, RemoveLevel(book[side], price, quantity, FALSE), book.orders)

-----------------------------------------------------------------------------
(* The four message handlers.                                              *)

OnModify(book, id, side, price, quantity) ==
    LET rest == IF id \notin DOMAIN book.orders THEN book
                ELSE LET old == book.orders[id]
                     IN  Revise(book, old.side,
                                RemoveLevel(book[old.side], old.price, old.quantity, TRUE),
                                Without(book.orders, id))
    IN  Insert(rest, id, side, price, quantity)

\* Mutant of OnNew: the same order announced twice is counted twice.
OnNewUnchecked(book, id, side, price, quantity) ==
    Insert(book, id, side, price, quantity)

OnNew(book, id, side, price, quantity) ==
    IF id \in DOMAIN book.orders
    THEN OnModify(book, id, side, price, quantity)
    ELSE Insert(book, id, side, price, quantity)

OnCancel(book, id, side, price, quantity) ==
    TakeOut(book, id, side, price, quantity)

OnTrade(book, buy_id, sell_id, price, quantity) ==
    TakeOut(TakeOut(book, buy_id, "buy", price, quantity),
            sell_id, "sell", price, quantity)

-----------------------------------------------------------------------------
(* Top of book.  bids_ is sorted downwards and asks_ upwards; the level's  *)
(* 64-bit quantity is cut to 32 bits on the way out, so a top of 0 may     *)
(* stand in front of a deeper book.                                        *)

Opposite(side) == IF side = "buy" THEN "sell" ELSE "buy"

BestPrice(book, side) ==
    IF side = "buy" THEN Max(DOMAIN book[side]) ELSE Min(DOMAIN book[side])

TopQuantity(book, side) ==
    IF DOMAIN book[side] = {} THEN 0
    ELSE book[side][BestPrice(book, side)].quantity % U32

=============================================================================
