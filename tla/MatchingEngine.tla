--------------------------- MODULE MatchingEngine ---------------------------
(***************************************************************************)
(* class MatchingEngine (runtime.cpp:540-1139): client orders matched      *)
(* against the top of the books built from market data.                    *)
(*                                                                         *)
(* Every public method runs under the engine's one mutex, so each is one   *)
(* atomic action here; validation, which the code does before locking,     *)
(* reads nothing that is shared.  The callers are the session threads      *)
(* (client requests), the market-data threads (book messages) and whoever  *)
(* finds a session broken (onSessionClosed).  `reply` is what the last     *)
(* call returned: the events its caller then dispatches to the sessions.   *)
(*                                                                         *)
(* Abstracted: names, account and time fields, the disclosed volume and    *)
(* the flag words, of which only "the request is supported" is left.       *)
(***************************************************************************)
EXTENDS ExternalBook, Sequences, SequencesExt

CONSTANTS
    MarketData,         \* values of market_data looked at
    Tokens,             \* tokens requests and messages name
    AllowedTokens,      \* allowed_tokens_, read from token_filter_file
    MaxBooks,           \* max_book_contracts
    Sessions,           \* session ids
    Volumes,            \* volumes of supported requests
    Ticks,              \* quantities market-data messages carry
    Claims,             \* what an update request says of filled and remaining volume
    FirstOrder,         \* exchange_order_number_start
    FirstFill,          \* fill_number_start
    FreedNodeReused,    \* may another thread overwrite a node eraseOpenOrderLocked freed?
    MaxOrders,          \* bound: orders accepted
    MaxActivity         \* bound: activity references handed out

ASSUME FeedChosen == MarketData \subseteq BOOLEAN

ASSUME EngineAssumption ==
    /\ FreedNodeReused \in BOOLEAN
    /\ AllowedTokens \subseteq Tokens
    /\ MaxBooks \in Nat
    /\ 0 \notin Prices
    /\ Volumes \subseteq Quantity \ {0}
    /\ Ticks \subseteq Quantity /\ Claims \subseteq Quantity
    /\ FirstOrder \in Nat /\ FirstFill \in Quantity
    /\ MaxOrders \in Nat /\ MaxActivity \in Nat

VARIABLES
    market_data,        \* is there a market_data_stream in the configuration?
    books,              \* books_: token -> ExternalBook
    open_orders,        \* open_orders_: exchange order number -> order
    ids_by_token,       \* open_order_ids_by_token_, {} where the code has no entry
    ids_by_session,     \* open_order_ids_by_session_, likewise
    next_order,         \* next_exchange_order_number_
    next_fill,          \* next_fill_number_
    next_activity,      \* next_last_activity_reference_
    worker,             \* per session: its thread and its SessionConnection
    reply               \* events returned by the last call

tables == <<open_orders, ids_by_token, ids_by_session>>
counters == <<next_order, next_fill, next_activity>>
vars == <<market_data, books, tables, counters, worker, reply>>

Order == [session : Sessions, token : Tokens, side : Side, price : Prices,
          volume : Quantity, remaining : Quantity, filled : Quantity]

Init ==
    /\ market_data \in MarketData
    /\ books = Empty
    /\ open_orders = Empty
    /\ ids_by_token = [t \in Tokens |-> {}]
    /\ ids_by_session = [s \in Sessions |-> {}]
    /\ next_order = FirstOrder
    /\ next_fill = FirstFill
    /\ next_activity = 1
    /\ worker = [s \in Sessions |-> "running"]
    /\ reply = <<>>

-----------------------------------------------------------------------------
(* Events.                                                                 *)

OrderEvent(type, n, order, ref) ==
    [type |-> type, order |-> n, session |-> order.session, token |-> order.token,
     side |-> order.side, limit |-> order.price, filled |-> order.filled,
     remaining |-> order.remaining, ref |-> ref]

TradeEvent(n, order, ref, fill, price, quantity) ==
    [type |-> "trade", order |-> n, session |-> order.session, token |-> order.token,
     side |-> order.side, limit |-> order.price, filled |-> order.filled,
     remaining |-> order.remaining, ref |-> ref,
     fill |-> fill, price |-> price, quantity |-> quantity]

ErrorEvent(type, s, n, error) ==
    [type |-> type, order |-> n, session |-> s, error |-> error]

-----------------------------------------------------------------------------
(* Books and matching.                                                     *)

Least(a, b) == IF a <= b THEN a ELSE b

\* Mutant of CanTrackToken: one book too many.
CanTrackTokenAtLimit(t) ==
    /\ t \in AllowedTokens
    /\ t \in DOMAIN books \/ Cardinality(DOMAIN books) <= MaxBooks

CanTrackToken(t) ==
    /\ t \in AllowedTokens
    /\ t \in DOMAIN books \/ Cardinality(DOMAIN books) < MaxBooks

BookOf(t) == IF t \in DOMAIN books THEN books[t] ELSE EmptyBook

Crosses(side, limit, top) == IF side = "buy" THEN top <= limit ELSE top >= limit

Marketable(book, order) ==
    LET top == Opposite(order.side)
    IN  /\ DOMAIN book[top] # {}
        /\ Crosses(order.side, order.price, BestPrice(book, top))

\* matchTopLocked: what the opposite top of book offers the order, 0 if nothing.
Available(book, order) ==
    IF Marketable(book, order) THEN TopQuantity(book, Opposite(order.side)) ELSE 0

\* Mutant of ApplyFill: the remaining volume is forgotten.
ApplyFillForgetful(order, quantity) ==
    [order EXCEPT !.filled = (@ + quantity) % U32,
                  !.remaining = IF quantity = @ THEN 0 ELSE @]

\* Mutant of ApplyFill: the traded volume is not counted.
ApplyFillUncounted(order, quantity) == [order EXCEPT !.remaining = @ - quantity]

\* Mutant of ApplyFill: 32 bits are taken for unbounded.
ApplyFillUnwrapped(order, quantity) ==
    [order EXCEPT !.filled = @ + quantity, !.remaining = @ - quantity]

ApplyFill(order, quantity) ==
    [order EXCEPT !.filled = (@ + quantity) % U32, !.remaining = @ - quantity]

-----------------------------------------------------------------------------
(* The order table and its two indexes.                                    *)

\* eraseOpenOrderLocked erases the order first and reads its number, token and
\* session afterwards.  Three callers pass it a reference to the very order it
\* erases (runtime.cpp:771, 1039, 1054): the reads then see freed memory, and
\* if another thread has had it meanwhile the lookup finds no such entry and
\* the number stays behind in that index.  Only this is modelled of what freed
\* memory may hold: not that it names another order's number or session.
Missed(freed) == IF FreedNodeReused THEN SUBSET freed ELSE {{}}

\* The tables become `orders`, indexed by by_token and by_session, less the
\* orders in `gone`; those in `freed` are erased by reference.
Store(orders, by_token, by_session, gone, freed) ==
    /\ open_orders' = Restrict(orders, DOMAIN orders \ gone)
    /\ \E missed \in Missed(freed) :
        ids_by_token' = [t \in Tokens |->
            by_token[t] \ {n \in gone \ missed : orders[n].token = t}]
    /\ \E missed \in Missed(freed) :
        ids_by_session' = [s \in Sessions |->
            by_session[s] \ {n \in gone \ missed : orders[n].session = s}]

-----------------------------------------------------------------------------
(* Requests of a session.  Its thread reads one payload at a time and      *)
(* dispatches what the engine answers before it reads the next.            *)

\* A call that only answers.
Refuse(type, s, n, error) ==
    /\ reply' = <<ErrorEvent(type, s, n, error)>>
    /\ UNCHANGED <<books, tables, counters, worker>>

\* fillOpenOrderLocked for the order n its own session has just stored or
\* modified, after the event that says so: the order takes what the top of
\* `book` offers it.  The other arguments are the tables with the order in them.
FillStored(type, n, book, orders, by_token, by_session) ==
    LET order == orders[n]
        quantity == Least(Available(book, order), order.remaining)
        filled == ApplyFill(order, quantity)
        gone == IF quantity > 0 /\ filled.remaining = 0 THEN {n} ELSE {}
        told == OrderEvent(type, n, order, next_activity)
    IN  /\ Store([orders EXCEPT ![n] = filled], by_token, by_session, gone, gone)
        /\ IF quantity = 0
           THEN /\ reply' = <<told>>
                /\ next_activity' = next_activity + 1
                /\ UNCHANGED next_fill
           ELSE /\ reply' = <<told, TradeEvent(n, filled, next_activity + 1, next_fill,
                                BestPrice(book, Opposite(order.side)), quantity)>>
                /\ next_activity' = next_activity + 2
                /\ next_fill' = (next_fill + 1) % U32

\* A request isValidNewOrder turns down, before the engine locks anything.
RefuseEntry(s) ==
    /\ worker[s] = "running"
    /\ Refuse("entry_error", s, 0, "unsupported_order")

RefuseToken(s, t) ==
    /\ worker[s] = "running"
    /\ market_data /\ ~CanTrackToken(t)
    /\ Refuse("entry_error", s, 0, "unsupported_token")

\* Without market data an order is confirmed and filled whole at its own price.
FillAtOnce(s, order) ==
    /\ ~market_data
    /\ LET filled == ApplyFill(order, order.remaining)
       IN  reply' = <<OrderEvent("confirmed", next_order, order, next_activity),
                      TradeEvent(next_order, filled, next_activity + 1, next_fill,
                                 order.price, filled.filled)>>
    /\ next_activity' = next_activity + 2
    /\ next_fill' = (next_fill + 1) % U32
    /\ UNCHANGED <<books, tables>>

\* An IOC order takes what the top offers; what is left is cancelled.
ImmediateOrCancel(s, order) ==
    /\ market_data /\ CanTrackToken(order.token)
    /\ books' = Put(books, order.token, BookOf(order.token))
    /\ LET book == BookOf(order.token)
           quantity == Least(Available(book, order), order.remaining)
           filled == ApplyFill(order, quantity)
           traded == IF quantity = 0 THEN <<>>
                     ELSE <<TradeEvent(next_order, filled, next_activity + 1, next_fill,
                                BestPrice(book, Opposite(order.side)), quantity)>>
           cancelled == IF filled.remaining = 0 THEN <<>>
                        ELSE <<OrderEvent("cancelled", next_order,
                                [filled EXCEPT !.remaining = 0],
                                next_activity + 1 + Len(traded))>>
       IN  /\ reply' = <<OrderEvent("confirmed", next_order, order, next_activity)>>
                          \o traded \o cancelled
           /\ next_activity' = next_activity + 1 + Len(traded) + Len(cancelled)
           /\ next_fill' = (next_fill + Len(traded)) % U32
    /\ UNCHANGED tables

\* Mutant of RestDayOrder: the order is left out of its session's index.
RestDayOrderUnindexed(s, order) ==
    /\ market_data /\ CanTrackToken(order.token)
    /\ books' = Put(books, order.token, BookOf(order.token))
    /\ FillStored("confirmed", next_order, BookOf(order.token),
                  Put(open_orders, next_order, order),
                  [ids_by_token EXCEPT ![order.token] = @ \cup {next_order}],
                  ids_by_session)

RestDayOrder(s, order) ==
    /\ market_data /\ CanTrackToken(order.token)
    /\ books' = Put(books, order.token, BookOf(order.token))
    /\ FillStored("confirmed", next_order, BookOf(order.token),
                  Put(open_orders, next_order, order),
                  [ids_by_token EXCEPT ![order.token] = @ \cup {next_order}],
                  [ids_by_session EXCEPT ![s] = @ \cup {next_order}])

NewOrder(s, token, side, price, volume) ==
    /\ worker[s] = "running"
    /\ next_order < FirstOrder + MaxOrders
    /\ LET order == [session |-> s, token |-> token, side |-> side, price |-> price,
                     volume |-> volume, remaining |-> volume, filled |-> 0]
       IN  \/ FillAtOnce(s, order)
           \/ ImmediateOrCancel(s, order)
           \/ RestDayOrder(s, order)
    /\ next_order' = next_order + 1
    /\ UNCHANGED worker

\* An update request names its order by a number the client chose.  Number 0 is
\* never accepted, not even when the engine has given it out.
RefuseUpdate(s, n, type, error) ==
    /\ worker[s] = "running"
    /\ \/ error = "unsupported_order"
       \/ error = "unknown_order" /\ n # 0
            /\ (n \in DOMAIN open_orders => open_orders[n].session # s)
    /\ Refuse(type, s, n, error)

\* Mutant of ModifyOrder: the client's remaining volume is taken as it comes.
ModifyOrderUnclamped(s, n, price, volume, remaining, filled) ==
    /\ worker[s] = "running"
    /\ next_activity <= MaxActivity
    /\ n # 0 /\ n \in DOMAIN open_orders /\ open_orders[n].session = s
    /\ LET live == [open_orders[n] EXCEPT !.price = price, !.volume = volume,
                        !.filled = filled, !.remaining = remaining]
       IN  FillStored("modified", n, BookOf(live.token), [open_orders EXCEPT ![n] = live],
                      ids_by_token, ids_by_session)
    /\ UNCHANGED <<books, next_order, worker>>

\* The client's idea of volume, filled and remaining replaces the engine's.
ModifyOrder(s, n, price, volume, remaining, filled) ==
    /\ worker[s] = "running"
    /\ next_activity <= MaxActivity
    /\ n # 0 /\ n \in DOMAIN open_orders /\ open_orders[n].session = s
    /\ LET live == [open_orders[n] EXCEPT
                        !.price = price, !.volume = volume, !.filled = filled,
                        !.remaining = IF remaining = 0 THEN volume
                                      ELSE Least(remaining, volume)]
       IN  FillStored("modified", n, BookOf(live.token), [open_orders EXCEPT ![n] = live],
                      ids_by_token, ids_by_session)
    /\ UNCHANGED <<books, next_order, worker>>

CancelOrder(s, n) ==
    /\ worker[s] = "running"
    /\ next_activity <= MaxActivity
    /\ n # 0 /\ n \in DOMAIN open_orders /\ open_orders[n].session = s
    /\ Store(open_orders, ids_by_token, ids_by_session, {n}, {})
    /\ reply' = <<OrderEvent("cancelled", n, [open_orders[n] EXCEPT !.remaining = 0],
                             next_activity)>>
    /\ next_activity' = next_activity + 1
    /\ UNCHANGED <<books, next_order, next_fill, worker>>

-----------------------------------------------------------------------------
(* Market data.                                                            *)

\* Mutant of Leftovers: every order finds the whole top.
LeftoversUnshared(takers, top_quantity) == {[n \in takers |-> top_quantity]}

\* The loop of maybeFillRestingOrdersLocked goes through the takers of one side
\* by ascending order number and lets each take from what the ones before it
\* left of the top quantity: left[n] is best_*_qty when the loop reaches n.
Leftovers(takers, top_quantity) ==
    {left \in [takers -> 0 .. top_quantity] :
        \A n \in takers :
            LET earlier == {m \in takers : m < n}
                m == Max(earlier)
            IN  left[n] = IF earlier = {} THEN top_quantity
                          ELSE left[m] - Least(left[m], open_orders[m].remaining)}

\* maybeFillRestingOrdersLocked once token t's book has become `book`.  Orders
\* of a session object that is gone are dropped unfilled, all others that cross
\* share the top; expired() reads the same before and after the loop since an
\* object with open orders cannot go away meanwhile (NoOrphans).
FillResting(t, book) ==
    LET indexed == ids_by_token[t] \cap DOMAIN open_orders
        stale == {n \in indexed : worker[open_orders[n].session] = "expired"}
        takers(side) == {n \in indexed \ stale : /\ open_orders[n].side = side
                                                 /\ Marketable(book, open_orders[n])}
    IN  \E buying \in Leftovers(takers("buy"), TopQuantity(book, "sell")),
           selling \in Leftovers(takers("sell"), TopQuantity(book, "buy")) :
            LET taken == [n \in takers("buy") \cup takers("sell") |->
                            Least(IF n \in takers("buy") THEN buying[n] ELSE selling[n],
                                  open_orders[n].remaining)]
                filled == {n \in DOMAIN taken : taken[n] > 0}
                after == [n \in DOMAIN open_orders |->
                            IF n \in filled THEN ApplyFill(open_orders[n], taken[n])
                            ELSE open_orders[n]]
                done == {n \in filled : after[n].remaining = 0}
            IN  /\ Store(after, ids_by_token, ids_by_session, stale \cup done, done)
                /\ \E nth \in [1 .. Cardinality(filled) -> filled] :
                    /\ \A i, j \in DOMAIN nth : i < j => nth[i] < nth[j]
                    /\ reply' = [i \in DOMAIN nth |->
                        TradeEvent(nth[i], after[nth[i]], next_activity + i - 1,
                            (next_fill + i - 1) % U32,
                            BestPrice(book, Opposite(after[nth[i]].side)), taken[nth[i]])]
                /\ next_activity' = next_activity + Cardinality(filled)
                /\ next_fill' = (next_fill + Cardinality(filled)) % U32

\* A message for a token that cannot be tracked is dropped.
IgnoreToken(t) ==
    /\ market_data /\ ~CanTrackToken(t)
    /\ reply' = <<>>
    /\ UNCHANGED <<books, tables, counters, worker>>

BookUpdate(t, book) ==
    /\ market_data /\ CanTrackToken(t)
    /\ books' = Put(books, t, book)
    /\ FillResting(t, book)
    /\ UNCHANGED <<next_order, worker>>

TbtOrder(t, id, side, price, quantity) ==
    LET book == BookOf(t)
    IN  \/ BookUpdate(t, OnNew(book, id, side, price, quantity))
        \/ BookUpdate(t, OnModify(book, id, side, price, quantity))
        \/ BookUpdate(t, OnCancel(book, id, side, price, quantity))

\* Mutant of TbtTrade: a trade message changes the book and nothing else.
TbtTradeQuiet(t, buy_id, sell_id, price, quantity) ==
    /\ market_data /\ CanTrackToken(t)
    /\ books' = Put(books, t, OnTrade(BookOf(t), buy_id, sell_id, price, quantity))
    /\ reply' = <<>>
    /\ UNCHANGED <<tables, counters, worker>>

TbtTrade(t, buy_id, sell_id, price, quantity) ==
    BookUpdate(t, OnTrade(BookOf(t), buy_id, sell_id, price, quantity))

-----------------------------------------------------------------------------
(* Sessions going away.                                                    *)

\* Mutant of DropOrders: the close stops at the first order.
DropOneOrder(s) ==
    LET known == ids_by_session[s] \cap DOMAIN open_orders
        gone == IF known = {} THEN {} ELSE {Min(known)}
    IN  /\ Store(open_orders, ids_by_token, ids_by_session, gone, gone)
        /\ reply' = <<>>
        /\ UNCHANGED <<books, counters>>

\* onSessionClosed.
DropOrders(s) ==
    LET gone == ids_by_session[s] \cap DOMAIN open_orders
    IN  /\ Store(open_orders, ids_by_token, ids_by_session, gone, gone)
        /\ reply' = <<>>
        /\ UNCHANGED <<books, counters>>

\* A thread that fails to write to the session's socket reports it closed,
\* while the session's own thread may go on reading requests.
WriteFailed(s) ==
    /\ worker[s] # "expired"
    /\ DropOrders(s)
    /\ UNCHANGED worker

\* Mutant of WorkerExit: only a writer that fails tells the engine.
WorkerExitSilent(s) ==
    /\ worker[s] = "running"
    /\ worker' = [worker EXCEPT ![s] = "exited"]
    /\ reply' = <<>>
    /\ UNCHANGED <<books, tables, counters>>

\* run() leaves its loop; only then can the last reference to the connection go.
WorkerExit(s) ==
    /\ worker[s] = "running"
    /\ worker' = [worker EXCEPT ![s] = "exited"]
    /\ DropOrders(s)

Expire(s) ==
    /\ worker[s] = "exited"
    /\ worker' = [worker EXCEPT ![s] = "expired"]
    /\ reply' = <<>>
    /\ UNCHANGED <<books, tables, counters>>

-----------------------------------------------------------------------------
\* What decodeExchangeOrderNumber makes of a request's double.  The conversion is
\* exact below 2^53, and the orders of a run are far fewer.
OrderNumbers == 0 .. FirstOrder + MaxOrders - 1

Request(s) ==
    \/ RefuseEntry(s)
    \/ \E t \in Tokens : RefuseToken(s, t)
    \/ \E t \in Tokens, side \in Side, price \in Prices, volume \in Volumes :
            NewOrder(s, t, side, price, volume)
    \/ \E n \in OrderNumbers :
        \/ \E type \in {"modify_error", "cancel_error"},
              error \in {"unsupported_order", "unknown_order"} :
                RefuseUpdate(s, n, type, error)
        \/ \E price \in Prices, volume \in Volumes, remaining, filled \in Claims :
                ModifyOrder(s, n, price, volume, remaining, filled)
        \/ CancelOrder(s, n)

MarketMessage(t) ==
    \/ IgnoreToken(t)
    \/ \E price \in Prices, quantity \in Ticks, id \in MarketIds :
        \/ \E side \in Side : TbtOrder(t, id, side, price, quantity)
        \/ \E sell_id \in MarketIds : TbtTrade(t, id, sell_id, price, quantity)

Close(s) == WriteFailed(s) \/ WorkerExit(s) \/ Expire(s)

Next ==
    /\ \/ \E s \in Sessions : Request(s) \/ Close(s)
       \/ \E t \in Tokens : MarketMessage(t)
    /\ UNCHANGED market_data

Spec == Init /\ [][Next]_vars

-----------------------------------------------------------------------------
(* Properties.                                                             *)

StateOK ==
    /\ IsTable(books, Tokens, {books[t] : t \in DOMAIN books})
    /\ \A t \in DOMAIN books : IsBook(books[t])
    /\ IsTable(open_orders, FirstOrder .. next_order - 1, Order)
    /\ ids_by_token \in [Tokens -> SUBSET (FirstOrder .. next_order - 1)]
    /\ ids_by_session \in [Sessions -> SUBSET (FirstOrder .. next_order - 1)]
    /\ next_order \in Nat /\ next_order >= FirstOrder
    /\ next_fill \in Quantity
    /\ next_activity \in Nat
    /\ worker \in [Sessions -> {"running", "exited", "expired"}]

TypeOK == market_data \in MarketData /\ StateOK

\* Every open order is in the index of its token and in the index of its
\* session: a book update finds it and a closed session takes it along, although
\* numbers of erased orders may stay there when eraseOpenOrderLocked reads an order
\* it has freed (957-975) and finds nothing to erase.
OrdersIndexed ==
    \A n \in DOMAIN open_orders :
        /\ n \in ids_by_token[open_orders[n].token]
        /\ n \in ids_by_session[open_orders[n].session]

\* An open order has a running session thread behind it, so a broken session's
\* orders never trade and the expired() branches (1037-1040, 1095-1098) are dead:
\* the request that stored the order, the close reported by a writer and the
\* thread's own exit (1180-1184, 1206-1209) come in any order.
NoOrphans ==
    \A n \in DOMAIN open_orders : worker[open_orders[n].session] = "running"

\* An order rests only with something left to trade, no more than its volume,
\* whatever its client has claimed in modifications (657-662), and only on a
\* token whose book exists: nothing rests where no update would ever reach it.
RestingOrdersServed ==
    \A n \in DOMAIN open_orders :
        /\ open_orders[n].remaining \in 1 .. open_orders[n].volume
        /\ open_orders[n].token \in DOMAIN books

\* "caps active books at max_book_contracts" and "builds books only for token
\* ids listed in token_filter_file" (README.md:91-92): books are created by
\* client orders and by ticks alike and are never given back.
BooksCapped ==
    /\ DOMAIN books \subseteq AllowedTokens
    /\ Cardinality(DOMAIN books) <= MaxBooks

-----------------------------------------------------------------------------
(* What a call may do, said of its reply.                                  *)

Told(events, type, n) ==
    {i \in DOMAIN events : events[i].type = type /\ events[i].order = n}

Traded(events, I) == SumFunctionOnSet([i \in I |-> events[i].quantity], I)

TradesOn(events, t, side) ==
    {i \in DOMAIN events : /\ events[i].type = "trade"
                           /\ events[i].token = t /\ events[i].side = side}

\* The trades of the call on one side of t share the quantity at the opposite
\* top of t's book: at that price, and none beyond the limit of its order.
SharesTop(t, side) ==
    LET trades == TradesOn(reply', t, side)
        top == Opposite(side)
    IN  trades # {} =>
        /\ Traded(reply', trades) <= TopQuantity(books'[t], top)
        /\ \A i \in trades :
            /\ reply'[i].price = BestPrice(books'[t], top)
            /\ Crosses(side, reply'[i].limit, reply'[i].price)

\* "each book update exposes the current top-of-book quantity once for matching
\* across resting simulator orders" and "fill price is the current top-of-book
\* price on the opposite side" (README.md:99-100): the trades of one call on one
\* side of a token add up to no more than the opposite top, all at its price and
\* none beyond the order's limit.
TopSharedOnce ==
    [][market_data => \A t \in DOMAIN books', side \in Side : SharesTop(t, side)]_vars

\* Order n still crosses the top of its book only because the call has traded
\* the whole of that top, and to no order younger than n.
LeftFairly(n) ==
    LET order == open_orders'[n]
        book == books'[order.token]
        trades == TradesOn(reply', order.token, order.side)
    IN  Marketable(book, order) =>
        /\ Traded(reply', trades) = TopQuantity(book, Opposite(order.side))
        /\ \A i \in trades : reply'[i].order <= n

\* "rests day-limit orders until top-of-book becomes marketable" (README.md:94):
\* if an order still crosses the top after its book has changed, the call has
\* traded the whole of that top, and none of it to an order accepted later.
NoneLeftBehind ==
    [][\A t \in DOMAIN books : books'[t] # books[t] =>
        \A n \in DOMAIN open_orders' : open_orders'[n].token = t => LeftFairly(n)]_vars

\* Of the volume that event i confirms every unit is traded, rests or is
\* cancelled in the same reply.
Settled(i) ==
    LET n == reply'[i].order
        volume == reply'[i].remaining
        traded == Traded(reply', Told(reply', "trade", n))
        cancelled == Told(reply', "cancelled", n)
    IN  \/ /\ n \in DOMAIN open_orders' /\ cancelled = {}
           /\ open_orders'[n].remaining + traded = volume
        \/ /\ n \notin DOMAIN open_orders'
           /\ IF traded = volume THEN cancelled = {}
              ELSE \E j \in cancelled : /\ cancelled = {j}
                                        /\ reply'[j].filled = traded

\* What becomes of a confirmed order is settled in the same reply, day order or
\* IOC: every unit of its volume is traded, rests, or is cancelled, and "IOC
\* orders can fill partially and return a cancellation confirmation for the
\* leftover quantity" (README.md:98) whose filled volume is what was traded.
AcceptedInFull ==
    [][\A i \in DOMAIN reply' : reply'[i].type = "confirmed" => Settled(i)]_vars

-----------------------------------------------------------------------------
(* What the repository's end-to-end test says of an order that has traded  *)
(* in full, and the engine does not do: it forgets the order at once.      *)

\* testFullFlow modifies an order after its fill and requires
\* kErrorOrderAlreadyFilled (tests/test_main.cpp:848-851), then cancels it and
\* requires the cancellation to be confirmed (884-891); an order the engine has
\* accepted is never answered as one it does not know.
FilledOrderKnown ==
    [][\A i \in DOMAIN reply' :
        /\ reply'[i].type \in {"modify_error", "cancel_error"}
        /\ reply'[i].order \in (FirstOrder .. next_order - 1) \ DOMAIN open_orders
        => reply'[i].error # "unknown_order"]_vars

=============================================================================
