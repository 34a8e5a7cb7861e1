------------------------ MODULE MatchingEngineProofs ------------------------
(***************************************************************************)
(* The matching engine's order table, its indexes and its books stay       *)
(* consistent, and what its clients see is an OrderLife: for any tokens,   *)
(* sessions, prices and volumes, with or without market data, whether or   *)
(* not numbers of freed orders stay behind in an index.                    *)
(***************************************************************************)
EXTENDS EngineLife, BookFeedProofs

\* The inductive invariant.  No conjunct is inductive alone: a closed session's
\* orders are found through the index (OrdersIndexed), which a fill keeps exact
\* because it knows what is left to trade (RestingOrdersServed, StateOK), and the
\* cap survives because the set of books is finite.
IInv ==
    /\ StateOK
    /\ OrdersIndexed
    /\ NoOrphans
    /\ RestingOrdersServed
    /\ BooksCapped
    /\ IsFiniteSet(DOMAIN books)

\* The numbers given out so far.
Numbers == FirstOrder .. next_order - 1

-----------------------------------------------------------------------------
(* Arithmetic of fills.                                                    *)

LEMMA LeastType ==
    ASSUME NEW a \in Nat, NEW b \in Nat
    PROVE  Least(a, b) \in 0 .. b
BY DEF Least

LEMMA WrapType ==
    ASSUME NEW a \in Nat
    PROVE  a % U32 \in Quantity
BY BookAssumption DEF Quantity

\* A fill within the remaining volume leaves an order an order, smaller by what
\* was filled and otherwise the same where it matters.
LEMMA ApplyFillType ==
    ASSUME NEW order \in Order, NEW quantity \in 0 .. order.remaining
    PROVE  LET filled == ApplyFill(order, quantity)
           IN  /\ filled \in Order
               /\ filled.remaining = order.remaining - quantity
               /\ filled.session = order.session /\ filled.token = order.token
               /\ filled.volume = order.volume
<1>1. order.filled + quantity \in Nat /\ order.remaining - quantity \in Quantity
  BY BookAssumption DEF Order, Quantity
<1>2. (order.filled + quantity) % U32 \in Quantity
  BY <1>1, WrapType
<1> QED
  BY <1>1, <1>2 DEF ApplyFill, Order

\* What the top of a book offers an order is a 32-bit quantity.
LEMMA AvailableType ==
    ASSUME NEW view, IsBook(view), NEW order \in Order
    PROVE  Available(view, order) \in Quantity
<1>1. Opposite(order.side) \in Side
  BY DEF Order, Opposite, Side
<1>2. 0 \in Quantity
  BY BookAssumption DEF Quantity
<1> QED
  BY <1>1, <1>2, TopQuantityType DEF Available

-----------------------------------------------------------------------------
(* Store, the common end of every call that changes the order table.       *)

\* Whatever the erasures by reference miss, what remains stays indexed.
LEMMA StoreKeepsIndexes ==
    ASSUME NEW N, NEW orders, IsTable(orders, N, Order),
           NEW by_token \in [Tokens -> SUBSET N],
           NEW by_session \in [Sessions -> SUBSET N],
           \A n \in DOMAIN orders : /\ n \in by_token[orders[n].token]
                                    /\ n \in by_session[orders[n].session],
           NEW gone \in SUBSET (DOMAIN orders), NEW freed,
           Store(orders, by_token, by_session, gone, freed)
    PROVE  /\ IsTable(open_orders', N, Order)
           /\ DOMAIN open_orders' = DOMAIN orders \ gone
           /\ \A n \in DOMAIN orders \ gone : open_orders'[n] = orders[n]
           /\ ids_by_token' \in [Tokens -> SUBSET N]
           /\ ids_by_session' \in [Sessions -> SUBSET N]
           /\ OrdersIndexed'
<1>1. /\ IsTable(open_orders', N, Order)
      /\ DOMAIN open_orders' = DOMAIN orders \ gone
      /\ \A n \in DOMAIN orders \ gone : open_orders'[n] = orders[n]
  BY TableRestrict DEF Store
<1>2. PICK mt : ids_by_token' = [t \in Tokens |->
            by_token[t] \ {n \in gone \ mt : orders[n].token = t}]
  BY DEF Store
<1>3. PICK ms : ids_by_session' = [s \in Sessions |->
            by_session[s] \ {n \in gone \ ms : orders[n].session = s}]
  BY DEF Store
<1>4. /\ ids_by_token' \in [Tokens -> SUBSET N]
      /\ ids_by_session' \in [Sessions -> SUBSET N]
  BY <1>2, <1>3
<1>5. ASSUME NEW n \in DOMAIN open_orders'
      PROVE  /\ n \in ids_by_token'[open_orders'[n].token]
             /\ n \in ids_by_session'[open_orders'[n].session]
  <2>1. n \in DOMAIN orders /\ n \notin gone /\ open_orders'[n] = orders[n]
    BY <1>1
  <2>2. orders[n].token \in Tokens /\ orders[n].session \in Sessions
    BY <2>1 DEF IsTable, Order
  <2> QED
    BY <1>2, <1>3, <2>1, <2>2
<1> QED
  BY <1>1, <1>4, <1>5 DEF OrdersIndexed

-----------------------------------------------------------------------------
(* Books.                                                                  *)

\* The book a call works on, new or old, is a book.
LEMMA BookOfType ==
    ASSUME StateOK, NEW t
    PROVE  IsBook(BookOf(t))
BY EmptyBookType DEF StateOK, BookOf

\* Giving a token that can be tracked a book keeps the cap.
LEMMA BooksPut ==
    ASSUME IInv, NEW t \in Tokens, NEW view, IsBook(view), CanTrackToken(t),
           books' = Put(books, t, view)
    PROVE  /\ IsTable(books', Tokens, {books'[u] : u \in DOMAIN books'})
           /\ \A u \in DOMAIN books' : IsBook(books'[u])
           /\ DOMAIN books' = DOMAIN books \cup {t}
           /\ BooksCapped'
           /\ IsFiniteSet(DOMAIN books')
<1>1. DOMAIN books' = DOMAIN books \cup {t}
  BY DEF Put
<1>2. IsTable(books', Tokens, {books'[u] : u \in DOMAIN books'})
  BY <1>1 DEF IInv, StateOK, IsTable, Put
<1>3. \A u \in DOMAIN books' : IsBook(books'[u])
  BY <1>1 DEF IInv, StateOK, Put
<1>4. IsFiniteSet(DOMAIN books')
  BY <1>1, FS_AddElement DEF IInv
<1>5. Cardinality(DOMAIN books') <= MaxBooks
  <2>1. Cardinality(DOMAIN books) \in Nat
    BY FS_CardinalityType DEF IInv
  <2>2. Cardinality(DOMAIN books') = IF t \in DOMAIN books THEN Cardinality(DOMAIN books)
                                     ELSE Cardinality(DOMAIN books) + 1
    BY <1>1, FS_AddElement DEF IInv
  <2> QED
    BY <2>1, <2>2, EngineAssumption DEF IInv, BooksCapped, CanTrackToken
<1>6. BooksCapped'
  BY <1>1, <1>5 DEF IInv, BooksCapped, CanTrackToken
<1> QED
  BY <1>1, <1>2, <1>3, <1>4, <1>6

-----------------------------------------------------------------------------
(* The order n that its session has just stored or modified.               *)

\* The tables FillStored is given, and every other call leaves behind.
Sound(N, orders) ==
    /\ IsTable(orders, N, Order)
    /\ \A m \in DOMAIN orders : /\ worker[orders[m].session] = "running"
                                /\ orders[m].remaining \in 1 .. orders[m].volume

LEMMA FillStoredKeeps ==
    ASSUME NEW N, NEW orders, Sound(N, orders), NEW n \in DOMAIN orders,
           NEW by_token \in [Tokens -> SUBSET N],
           NEW by_session \in [Sessions -> SUBSET N],
           \A m \in DOMAIN orders : /\ m \in by_token[orders[m].token]
                                    /\ m \in by_session[orders[m].session],
           NEW view, IsBook(view), NEW type,
           next_activity \in Nat, next_fill \in Quantity,
           FillStored(type, n, view, orders, by_token, by_session),
           UNCHANGED worker
    PROVE  /\ Sound(N, open_orders)'
           /\ DOMAIN open_orders' \subseteq DOMAIN orders
           /\ \A m \in DOMAIN open_orders' : open_orders'[m].token = orders[m].token
           /\ ids_by_token' \in [Tokens -> SUBSET N]
           /\ ids_by_session' \in [Sessions -> SUBSET N]
           /\ OrdersIndexed'
           /\ next_activity' \in Nat /\ next_fill' \in Quantity
<1> DEFINE order == orders[n]
           quantity == Least(Available(view, order), order.remaining)
           filled == ApplyFill(order, quantity)
           gone == IF quantity > 0 /\ filled.remaining = 0 THEN {n} ELSE {}
           after == [orders EXCEPT ![n] = filled]
<1>1. order \in Order
  BY DEF Sound, IsTable
<1>2. quantity \in 0 .. order.remaining
  <2>1. Available(view, order) \in Nat /\ order.remaining \in Nat
    BY <1>1, AvailableType, BookAssumption DEF Order, Quantity
  <2> QED
    BY <2>1, LeastType
<1>3. /\ filled \in Order
      /\ filled.remaining = order.remaining - quantity
      /\ filled.session = order.session /\ filled.token = order.token
      /\ filled.volume = order.volume
  <2> HIDE DEF order, quantity
  <2> QED
    BY <1>1, <1>2, ApplyFillType
<1>4. /\ Store(after, by_token, by_session, gone, gone)
      /\ next_activity' \in Nat /\ next_fill' \in Quantity
  <2>1. next_fill + 1 \in Nat
    BY BookAssumption DEF Quantity
  <2>2. (next_fill + 1) % U32 \in Quantity
    BY <2>1, WrapType
  <2> QED
    BY <2>2 DEF FillStored
<1> HIDE DEF quantity, filled
<1>5. IsTable(after, N, Order) /\ DOMAIN after = DOMAIN orders
  BY <1>3 DEF Sound, IsTable
<1>6. \A m \in DOMAIN after : /\ after[m].token = orders[m].token
                              /\ after[m].session = orders[m].session
                              /\ m # n => after[m] = orders[m]
                              /\ m = n => after[m] = filled
  BY <1>3
<1>7. gone \in SUBSET (DOMAIN after)
  BY <1>5
<1>8. \A m \in DOMAIN after : /\ m \in by_token[after[m].token]
                              /\ m \in by_session[after[m].session]
  BY <1>5, <1>6
<1> HIDE DEF after
<1>9. /\ IsTable(open_orders', N, Order)
      /\ DOMAIN open_orders' = DOMAIN after \ gone
      /\ \A m \in DOMAIN after \ gone : open_orders'[m] = after[m]
      /\ ids_by_token' \in [Tokens -> SUBSET N]
      /\ ids_by_session' \in [Sessions -> SUBSET N]
      /\ OrdersIndexed'
  <2> HIDE DEF gone
  <2> QED
    BY <1>4, <1>5, <1>7, <1>8, StoreKeepsIndexes
<1>10. ASSUME NEW m \in DOMAIN open_orders'
       PROVE  /\ open_orders'[m].token = orders[m].token
              /\ worker'[open_orders'[m].session] = "running"
              /\ open_orders'[m].remaining \in 1 .. open_orders'[m].volume
  <2>1. m \in DOMAIN orders /\ open_orders'[m] = after[m] /\ m \notin gone
    BY <1>5, <1>9
  <2>2. worker'[open_orders'[m].session] = "running"
    BY <2>1, <1>5, <1>6 DEF Sound
  <2>3. CASE m # n
    BY <2>1, <2>2, <2>3, <1>5, <1>6 DEF Sound
  <2>4. CASE m = n
    <3>1. open_orders'[m] = filled
      BY <2>1, <2>4, <1>5, <1>6
    <3>2. order.remaining \in 1 .. order.volume
      BY DEF Sound
    <3>3. order.remaining \in Nat /\ order.volume \in Nat /\ quantity \in Nat
      BY <1>1, <1>2, BookAssumption DEF Order, Quantity
    <3>4. quantity = 0 \/ filled.remaining # 0
      BY <2>1, <2>4, <3>3
    <3> HIDE DEF order
    <3>5. filled.remaining \in 1 .. filled.volume
      BY <1>2, <1>3, <3>2, <3>3, <3>4
    <3> QED
      BY <2>1, <2>2, <2>4, <3>1, <3>5, <1>3 DEF order
  <2> QED
    BY <2>3, <2>4
<1> QED
  BY <1>4, <1>5, <1>9, <1>10 DEF Sound

-----------------------------------------------------------------------------
(* What each call has to leave behind.                                     *)

\* The invariant of the next state, from its parts.
LEMMA Assemble ==
    ASSUME next_order' \in Nat, next_order' >= FirstOrder,
           NEW N, N = FirstOrder .. next_order' - 1,
           IsTable(books', Tokens, {books'[u] : u \in DOMAIN books'}),
           \A u \in DOMAIN books' : IsBook(books'[u]),
           BooksCapped', IsFiniteSet(DOMAIN books'),
           Sound(N, open_orders)',
           \A m \in DOMAIN open_orders' : open_orders'[m].token \in DOMAIN books',
           ids_by_token' \in [Tokens -> SUBSET N],
           ids_by_session' \in [Sessions -> SUBSET N],
           OrdersIndexed',
           next_activity' \in Nat, next_fill' \in Quantity,
           worker' \in [Sessions -> {"running", "exited", "expired"}]
    PROVE  IInv'
<1>1. StateOK'
  BY DEF StateOK, Sound
<1>2. NoOrphans' /\ RestingOrdersServed'
  BY DEF Sound, NoOrphans, RestingOrdersServed
<1> QED
  BY <1>1, <1>2 DEF IInv

\* The same parts of the state before.
LEMMA Disassemble ==
    ASSUME IInv
    PROVE  /\ next_order \in Nat /\ next_order >= FirstOrder
           /\ next_activity \in Nat /\ next_fill \in Quantity
           /\ IsTable(books, Tokens, {books[u] : u \in DOMAIN books})
           /\ \A u \in DOMAIN books : IsBook(books[u])
           /\ Sound(Numbers, open_orders)
           /\ \A m \in DOMAIN open_orders : open_orders[m].token \in DOMAIN books
           /\ ids_by_token \in [Tokens -> SUBSET Numbers]
           /\ ids_by_session \in [Sessions -> SUBSET Numbers]
           /\ \A m \in DOMAIN open_orders : /\ m \in ids_by_token[open_orders[m].token]
                                            /\ m \in ids_by_session[open_orders[m].session]
           /\ worker \in [Sessions -> {"running", "exited", "expired"}]
<1>1. StateOK /\ OrdersIndexed /\ NoOrphans /\ RestingOrdersServed
  BY DEF IInv
<1>2. Sound(Numbers, open_orders)
  BY <1>1 DEF StateOK, NoOrphans, RestingOrdersServed, Sound, Numbers
<1>3. \A m \in DOMAIN open_orders : open_orders[m].token \in DOMAIN books
  BY <1>1 DEF RestingOrdersServed
<1>4. \A m \in DOMAIN open_orders : /\ m \in ids_by_token[open_orders[m].token]
                                    /\ m \in ids_by_session[open_orders[m].session]
  BY <1>1 DEF OrdersIndexed
<1> QED
  BY <1>1, <1>2, <1>3, <1>4 DEF StateOK, Numbers

LEMMA IntervalGrows ==
    ASSUME NEW a \in Nat, NEW b \in Nat, NEW f \in Nat, a <= b
    PROVE  f .. a - 1 \subseteq f .. b - 1
OBVIOUS

\* A number given out stays given out.
LEMMA NumbersGrow ==
    ASSUME IInv, next_order' \in {next_order, next_order + 1}
    PROVE  /\ next_order' \in Nat /\ next_order' >= FirstOrder
           /\ Numbers \subseteq FirstOrder .. next_order' - 1
<1>1. StateOK
  BY DEF IInv
<1>2. next_order \in Nat /\ next_order >= FirstOrder
  BY <1>1 DEF StateOK
<1>3. FirstOrder \in Nat
  BY EngineAssumption
<1>4. next_order' \in Nat /\ next_order' >= FirstOrder /\ next_order <= next_order'
  BY <1>2, <1>3
<1>5. next_order' \in Nat /\ next_order <= next_order'
  BY <1>4
<1>6. Numbers \subseteq FirstOrder .. next_order' - 1
  BY <1>2, <1>3, <1>5, IntervalGrows DEF Numbers
<1> QED
  BY <1>4, <1>6

\* A call that touches neither books nor orders.
LEMMA TablesUntouched ==
    ASSUME IInv, UNCHANGED <<books, tables, worker>>,
           next_order' \in {next_order, next_order + 1},
           next_activity' \in Nat, next_fill' \in Quantity
    PROVE  IInv'
<1>1. /\ next_order' \in Nat /\ next_order' >= FirstOrder
      /\ Numbers \subseteq FirstOrder .. next_order' - 1
  BY NumbersGrow
<1>2. Sound(FirstOrder .. next_order' - 1, open_orders)
  BY <1>1, Disassemble DEF Sound, IsTable
<1>3. StateOK'
  BY <1>1, <1>2 DEF IInv, StateOK, tables, Numbers, Sound
<1>4. /\ OrdersIndexed' /\ NoOrphans' /\ RestingOrdersServed' /\ BooksCapped'
      /\ IsFiniteSet(DOMAIN books')
  BY DEF IInv, OrdersIndexed, NoOrphans, RestingOrdersServed, BooksCapped, tables
<1> QED
  BY <1>3, <1>4 DEF IInv

\* A call that only erases orders, none of them left without a running session.
LEMMA StoreErases ==
    ASSUME IInv, NEW gone \in SUBSET (DOMAIN open_orders), NEW freed,
           Store(open_orders, ids_by_token, ids_by_session, gone, freed),
           UNCHANGED <<books, next_order, next_fill>>, next_activity' \in Nat,
           worker' \in [Sessions -> {"running", "exited", "expired"}],
           \A m \in DOMAIN open_orders \ gone : worker'[open_orders[m].session] = "running"
    PROVE  IInv'
<1>1. PICK N : N = Numbers
  OBVIOUS
<1>2. /\ IsTable(open_orders, N, Order)
      /\ ids_by_token \in [Tokens -> SUBSET N]
      /\ ids_by_session \in [Sessions -> SUBSET N]
      /\ \A m \in DOMAIN open_orders : /\ m \in ids_by_token[open_orders[m].token]
                                       /\ m \in ids_by_session[open_orders[m].session]
  BY <1>1, Disassemble DEF Sound
<1>3. /\ IsTable(open_orders', N, Order)
      /\ DOMAIN open_orders' = DOMAIN open_orders \ gone
      /\ \A m \in DOMAIN open_orders \ gone : open_orders'[m] = open_orders[m]
      /\ ids_by_token' \in [Tokens -> SUBSET N]
      /\ ids_by_session' \in [Sessions -> SUBSET N]
      /\ OrdersIndexed'
  BY <1>2, StoreKeepsIndexes
<1>4. Sound(N, open_orders)'
  BY <1>3, Disassemble DEF Sound
<1>5. \A m \in DOMAIN open_orders' : open_orders'[m].token \in DOMAIN books'
  BY <1>3, Disassemble
<1>6. BooksCapped' /\ IsFiniteSet(DOMAIN books')
  BY DEF IInv, BooksCapped
<1>7. /\ next_order' \in Nat /\ next_order' >= FirstOrder
      /\ N = FirstOrder .. next_order' - 1 /\ next_fill' \in Quantity
      /\ IsTable(books', Tokens, {books'[u] : u \in DOMAIN books'})
      /\ \A u \in DOMAIN books' : IsBook(books'[u])
  BY <1>1, Disassemble DEF Numbers
<1> QED
  BY <1>3, <1>4, <1>5, <1>6, <1>7, Assemble

-----------------------------------------------------------------------------
(* Requests.                                                               *)

\* A refusal and a message for a token out of reach change nothing.
LEMMA NothingDone ==
    ASSUME IInv, UNCHANGED <<books, tables, counters, worker>>
    PROVE  IInv'
BY TablesUntouched, Disassemble DEF counters

LEMMA FillAtOnceKeeps ==
    ASSUME IInv, NEW s, NEW order, FillAtOnce(s, order),
           next_order' = next_order + 1, UNCHANGED worker
    PROVE  IInv'
<1>1. next_activity' \in Nat
  BY Disassemble DEF FillAtOnce
<1>2. next_fill + 1 \in Nat
  BY Disassemble, BookAssumption DEF Quantity
<1>3. next_fill' \in Quantity
  BY <1>2, WrapType DEF FillAtOnce
<1> QED
  BY <1>1, <1>3, TablesUntouched DEF FillAtOnce

LEMMA ImmediateOrCancelKeeps ==
    ASSUME IInv, NEW s, NEW order \in Order, ImmediateOrCancel(s, order),
           next_order' = next_order + 1, UNCHANGED worker
    PROVE  IInv'
<1>1. \E a, b \in {0, 1} : /\ next_activity' = next_activity + 1 + a + b
                           /\ next_fill' = (next_fill + a) % U32
  <2> DEFINE view == BookOf(order.token)
             quantity == Least(Available(view, order), order.remaining)
             filled == ApplyFill(order, quantity)
             traded == IF quantity = 0 THEN <<>>
                       ELSE <<TradeEvent(next_order, filled, next_activity + 1, next_fill,
                                BestPrice(view, Opposite(order.side)), quantity)>>
             cancelled == IF filled.remaining = 0 THEN <<>>
                          ELSE <<OrderEvent("cancelled", next_order,
                                  [filled EXCEPT !.remaining = 0],
                                  next_activity + 1 + Len(traded))>>
  <2>1. /\ next_activity' = next_activity + 1 + Len(traded) + Len(cancelled)
        /\ next_fill' = (next_fill + Len(traded)) % U32
    BY DEF ImmediateOrCancel
  <2>2. Len(traded) \in {0, 1} /\ Len(cancelled) \in {0, 1}
    <3> HIDE DEF quantity, filled
    <3> QED
      OBVIOUS
  <2> HIDE DEF traded, cancelled
  <2> QED
    BY <2>1, <2>2
<1>2. PICK a, b \in {0, 1} : /\ next_activity' = next_activity + 1 + a + b
                             /\ next_fill' = (next_fill + a) % U32
  BY <1>1
<1>3. next_activity' \in Nat /\ next_fill + a \in Nat
  BY <1>2, Disassemble, BookAssumption DEF Quantity
<1>4. next_fill' \in Quantity
  BY <1>2, <1>3, WrapType
<1>5. /\ next_order' \in Nat /\ next_order' >= FirstOrder
      /\ Numbers \subseteq FirstOrder .. next_order' - 1
  BY NumbersGrow
<1>6. /\ order.token \in Tokens /\ IsBook(BookOf(order.token))
      /\ CanTrackToken(order.token)
      /\ books' = Put(books, order.token, BookOf(order.token))
      /\ UNCHANGED tables
  BY BookOfType DEF ImmediateOrCancel, Order, IInv
<1>7. /\ IsTable(books', Tokens, {books'[u] : u \in DOMAIN books'})
      /\ \A u \in DOMAIN books' : IsBook(books'[u])
      /\ DOMAIN books' = DOMAIN books \cup {order.token}
      /\ BooksCapped' /\ IsFiniteSet(DOMAIN books')
  BY <1>6, BooksPut
<1>11. PICK N : N = FirstOrder .. next_order' - 1
  OBVIOUS
<1>8. Sound(N, open_orders)'
  BY <1>5, <1>6, <1>11, Disassemble DEF Sound, IsTable, tables
<1>9. /\ ids_by_token' \in [Tokens -> SUBSET N]
      /\ ids_by_session' \in [Sessions -> SUBSET N]
      /\ OrdersIndexed'
      /\ \A m \in DOMAIN open_orders' : open_orders'[m].token \in DOMAIN books'
  BY <1>5, <1>6, <1>7, <1>11, Disassemble DEF OrdersIndexed, tables
<1>10. worker' \in [Sessions -> {"running", "exited", "expired"}]
  BY Disassemble
<1> QED
  BY <1>3, <1>4, <1>5, <1>7, <1>11, <1>8, <1>9, <1>10, Assemble

LEMMA RestDayOrderKeeps ==
    ASSUME IInv, NEW s, NEW order \in Order, order.session = s,
           order.remaining \in 1 .. order.volume, worker[s] = "running",
           RestDayOrder(s, order), next_order' = next_order + 1, UNCHANGED worker
    PROVE  IInv'
<1> DEFINE orders == Put(open_orders, next_order, order)
           by_token == [ids_by_token EXCEPT ![order.token] = @ \cup {next_order}]
           by_session == [ids_by_session EXCEPT ![s] = @ \cup {next_order}]
<1>1. /\ next_order' \in Nat /\ next_order' >= FirstOrder
      /\ Numbers \subseteq FirstOrder .. next_order' - 1
  BY NumbersGrow
<1>2. PICK N : N = FirstOrder .. next_order' - 1
  OBVIOUS
<1>3. next_order \in N /\ Numbers \subseteq N
  BY <1>1, <1>2, Disassemble
<1>4. /\ order.token \in Tokens /\ IsBook(BookOf(order.token))
      /\ CanTrackToken(order.token)
      /\ books' = Put(books, order.token, BookOf(order.token))
  BY BookOfType DEF RestDayOrder, Order, IInv
<1>5. /\ IsTable(books', Tokens, {books'[u] : u \in DOMAIN books'})
      /\ \A u \in DOMAIN books' : IsBook(books'[u])
      /\ DOMAIN books' = DOMAIN books \cup {order.token}
      /\ BooksCapped' /\ IsFiniteSet(DOMAIN books')
  BY <1>4, BooksPut
<1>6. /\ DOMAIN orders = DOMAIN open_orders \cup {next_order}
      /\ \A m \in DOMAIN orders :
            orders[m] = IF m = next_order THEN order ELSE open_orders[m]
  BY DEF Put
<1>7. IsTable(orders, N, Order)
  <2>1. IsTable(open_orders, N, Order)
    BY <1>3, Disassemble DEF Sound, IsTable
  <2> QED
    BY <2>1, <1>3, TablePut
<1>8. Sound(N, orders)
  <2> HIDE DEF orders
  <2> QED
    BY <1>6, <1>7, Disassemble DEF Sound
<1>9. /\ by_token \in [Tokens -> SUBSET N]
      /\ by_session \in [Sessions -> SUBSET N]
  BY <1>3, Disassemble
<1>10. \A m \in DOMAIN orders : /\ m \in by_token[orders[m].token]
                                /\ m \in by_session[orders[m].session]
  <2> SUFFICES ASSUME NEW m \in DOMAIN orders
               PROVE  /\ m \in by_token[orders[m].token]
                      /\ m \in by_session[orders[m].session]
    OBVIOUS
  <2>1. orders[m] \in Order
    BY <1>7 DEF IsTable
  <2>2. orders[m].token \in Tokens /\ orders[m].session \in Sessions
    BY <2>1 DEF Order
  <2> HIDE DEF orders
  <2>3. CASE m = next_order
    BY <2>2, <2>3, <1>6, Disassemble
  <2>4. CASE m # next_order
    BY <2>2, <2>4, <1>6, Disassemble
  <2> QED
    BY <2>3, <2>4
<1>11. FillStored("confirmed", next_order, BookOf(order.token), orders, by_token, by_session)
  BY DEF RestDayOrder
<1>12. next_order \in DOMAIN orders /\ next_activity \in Nat /\ next_fill \in Quantity
  BY <1>6, Disassemble
<1> HIDE DEF orders, by_token, by_session
<1>13. /\ Sound(N, open_orders)'
       /\ DOMAIN open_orders' \subseteq DOMAIN orders
       /\ \A m \in DOMAIN open_orders' : open_orders'[m].token = orders[m].token
       /\ ids_by_token' \in [Tokens -> SUBSET N]
       /\ ids_by_session' \in [Sessions -> SUBSET N]
       /\ OrdersIndexed'
       /\ next_activity' \in Nat /\ next_fill' \in Quantity
  BY <1>4, <1>8, <1>9, <1>10, <1>11, <1>12, FillStoredKeeps
<1>14. \A m \in DOMAIN open_orders' : open_orders'[m].token \in DOMAIN books'
  BY <1>5, <1>6, <1>13, Disassemble
<1>15. worker' \in [Sessions -> {"running", "exited", "expired"}]
  BY Disassemble
<1> QED
  BY <1>1, <1>2, <1>5, <1>13, <1>14, <1>15, Assemble

LEMMA NewOrderKeeps ==
    ASSUME IInv, NEW s \in Sessions, NEW token \in Tokens, NEW side \in Side,
           NEW price \in Prices, NEW volume \in Volumes,
           NewOrder(s, token, side, price, volume)
    PROVE  IInv'
<1> DEFINE order == [session |-> s, token |-> token, side |-> side, price |-> price,
                     volume |-> volume, remaining |-> volume, filled |-> 0]
<1>1. /\ worker[s] = "running" /\ next_order' = next_order + 1 /\ UNCHANGED worker
      /\ FillAtOnce(s, order) \/ ImmediateOrCancel(s, order) \/ RestDayOrder(s, order)
  BY DEF NewOrder
<1>2. /\ order \in Order /\ order.session = s
      /\ order.remaining \in 1 .. order.volume
  BY BookAssumption, EngineAssumption DEF Order, Quantity
<1> HIDE DEF order
<1> QED
  BY <1>1, <1>2, FillAtOnceKeeps, ImmediateOrCancelKeeps, RestDayOrderKeeps

LEMMA ModifyOrderKeeps ==
    ASSUME IInv, NEW s \in Sessions, NEW n, NEW price \in Prices, NEW volume \in Volumes,
           NEW remaining \in Claims, NEW filled \in Claims,
           ModifyOrder(s, n, price, volume, remaining, filled)
    PROVE  IInv'
<1> DEFINE left == IF remaining = 0 THEN volume ELSE Least(remaining, volume)
           live == [open_orders[n] EXCEPT
                        !.price = price, !.volume = volume, !.filled = filled,
                        !.remaining = left]
           orders == [open_orders EXCEPT ![n] = live]
<1>1. /\ n \in DOMAIN open_orders /\ worker[open_orders[n].session] = "running"
      /\ FillStored("modified", n, BookOf(live.token), orders, ids_by_token, ids_by_session)
      /\ UNCHANGED <<books, next_order, worker>>
  BY DEF ModifyOrder
<1>2. open_orders[n] \in Order
  BY <1>1, Disassemble DEF Sound, IsTable
<1>3. /\ live \in Order /\ live.remaining \in 1 .. live.volume
      /\ live.token = open_orders[n].token /\ live.session = open_orders[n].session
  <2>1. /\ volume \in Quantity /\ remaining \in Quantity /\ filled \in Quantity
        /\ volume # 0
    BY EngineAssumption
  <2>2. left \in Quantity /\ left \in 1 .. volume
    BY <2>1, BookAssumption DEF Quantity, Least
  <2> HIDE DEF left
  <2> QED
    BY <1>2, <2>1, <2>2 DEF Order
<1> HIDE DEF live
<1>4. /\ DOMAIN orders = DOMAIN open_orders
      /\ \A m \in DOMAIN orders : orders[m] = IF m = n THEN live ELSE open_orders[m]
      /\ \A m \in DOMAIN orders : /\ orders[m].token = open_orders[m].token
                                  /\ orders[m].session = open_orders[m].session
  BY <1>3
<1>5. IsTable(orders, Numbers, Order)
  BY <1>3, Disassemble DEF Sound, IsTable
<1> HIDE DEF orders
<1>6. Sound(Numbers, orders)
  BY <1>1, <1>3, <1>4, <1>5, Disassemble DEF Sound
<1>7. \A m \in DOMAIN orders : /\ m \in ids_by_token[orders[m].token]
                               /\ m \in ids_by_session[orders[m].session]
  BY <1>4, Disassemble
<1>8. IsBook(BookOf(live.token)) /\ n \in DOMAIN orders
  BY <1>1, <1>4, BookOfType DEF IInv
<1>9. PICK N : N = Numbers
  OBVIOUS
<1>10. /\ Sound(N, open_orders)'
       /\ DOMAIN open_orders' \subseteq DOMAIN orders
       /\ \A m \in DOMAIN open_orders' : open_orders'[m].token = orders[m].token
       /\ ids_by_token' \in [Tokens -> SUBSET N]
       /\ ids_by_session' \in [Sessions -> SUBSET N]
       /\ OrdersIndexed'
       /\ next_activity' \in Nat /\ next_fill' \in Quantity
  BY <1>1, <1>6, <1>7, <1>8, <1>9, Disassemble, FillStoredKeeps
<1>11. \A m \in DOMAIN open_orders' : open_orders'[m].token \in DOMAIN books'
  BY <1>1, <1>4, <1>10, Disassemble
<1>12. BooksCapped' /\ IsFiniteSet(DOMAIN books')
  BY <1>1 DEF IInv, BooksCapped
<1> QED
  BY <1>1, <1>9, <1>10, <1>11, <1>12, Disassemble, Assemble DEF Numbers

LEMMA CancelOrderKeeps ==
    ASSUME IInv, NEW s \in Sessions, NEW n, CancelOrder(s, n)
    PROVE  IInv'
<1>1. /\ n \in DOMAIN open_orders /\ UNCHANGED <<books, next_order, next_fill, worker>>
      /\ Store(open_orders, ids_by_token, ids_by_session, {n}, {})
      /\ next_activity' = next_activity + 1
  BY DEF CancelOrder
<1> QED
  BY <1>1, StoreErases, Disassemble DEF Sound

-----------------------------------------------------------------------------
(* Sessions going away.                                                    *)

\* Every order of a closing session is in its index (OrdersIndexed).
LEMMA DropOrdersKeeps ==
    ASSUME IInv, NEW s \in Sessions, DropOrders(s),
           NEW w \in {"running", "exited"}, worker' = [worker EXCEPT ![s] = w]
    PROVE  IInv'
<1> DEFINE gone == ids_by_session[s] \cap DOMAIN open_orders
<1>1. /\ Store(open_orders, ids_by_token, ids_by_session, gone, gone)
      /\ UNCHANGED <<books, counters>>
  BY DEF DropOrders
<1>2. worker' \in [Sessions -> {"running", "exited", "expired"}]
  BY Disassemble
<1>3. ASSUME NEW m \in DOMAIN open_orders \ gone
      PROVE  worker'[open_orders[m].session] = "running"
  <2>1. m \in ids_by_session[open_orders[m].session] /\ open_orders[m] \in Order
    BY Disassemble DEF Sound, IsTable
  <2>2. open_orders[m].session # s /\ open_orders[m].session \in Sessions
    BY <2>1 DEF Order
  <2> QED
    BY <2>2, Disassemble DEF Sound
<1>4. /\ gone \in SUBSET (DOMAIN open_orders)
      /\ UNCHANGED <<books, next_order, next_fill>> /\ next_activity' \in Nat
  BY <1>1, Disassemble DEF counters
<1> HIDE DEF gone
<1> QED
  BY <1>1, <1>2, <1>3, <1>4, StoreErases

-----------------------------------------------------------------------------
(* Market data.                                                            *)

\* The orders that take part are finitely many, so the counters stay numbers.
LEMMA SomeNumbersFinite ==
    ASSUME IInv, NEW S \in SUBSET Numbers
    PROVE  Cardinality(S) \in Nat
<1>1. FirstOrder \in Int /\ next_order - 1 \in Int
  BY EngineAssumption, Disassemble
<1>2. IsFiniteSet(Numbers)
  BY <1>1, FS_Interval DEF Numbers
<1> QED
  BY <1>2, FS_Subset, FS_CardinalityType

\* The orders of token t on one side that an update to `view` reaches, what each
\* takes of what it finds, and what the update does with that.
Stale(t) ==
    {n \in ids_by_token[t] \cap DOMAIN open_orders :
        worker[open_orders[n].session] = "expired"}

Crossed(t, view, side) ==
    {n \in (ids_by_token[t] \cap DOMAIN open_orders) \ Stale(t) :
        open_orders[n].side = side /\ Marketable(view, open_orders[n])}

Given(t, view, buying, selling) ==
    [n \in Crossed(t, view, "buy") \cup Crossed(t, view, "sell") |->
        Least(IF n \in Crossed(t, view, "buy") THEN buying[n] ELSE selling[n],
              open_orders[n].remaining)]

Outcome(t, view, taken) ==
    LET filled == {n \in DOMAIN taken : taken[n] > 0}
        after == [n \in DOMAIN open_orders |->
                    IF n \in filled THEN ApplyFill(open_orders[n], taken[n])
                    ELSE open_orders[n]]
        done == {n \in filled : after[n].remaining = 0}
    IN  /\ Store(after, ids_by_token, ids_by_session, Stale(t) \cup done, done)
        /\ \E nth \in [1 .. Cardinality(filled) -> filled] :
            /\ \A i, j \in DOMAIN nth : i < j => nth[i] < nth[j]
            /\ reply' = [i \in DOMAIN nth |->
                TradeEvent(nth[i], after[nth[i]], next_activity + i - 1,
                    (next_fill + i - 1) % U32,
                    BestPrice(view, Opposite(after[nth[i]].side)), taken[nth[i]])]
        /\ next_activity' = next_activity + Cardinality(filled)
        /\ next_fill' = (next_fill + Cardinality(filled)) % U32

LEMMA FillRestingUnfolds ==
    ASSUME NEW t, NEW view, FillResting(t, view)
    PROVE  \E buying \in Leftovers(Crossed(t, view, "buy"), TopQuantity(view, "sell")),
              selling \in Leftovers(Crossed(t, view, "sell"), TopQuantity(view, "buy")) :
                Outcome(t, view, Given(t, view, buying, selling))
BY DEF FillResting, Stale, Crossed, Given, Outcome

LEMMA FillRestingKeeps ==
    ASSUME IInv, NEW t \in Tokens, NEW view, IsBook(view), CanTrackToken(t),
           books' = Put(books, t, view), FillResting(t, view),
           UNCHANGED <<next_order, worker>>
    PROVE  IInv'
<1> DEFINE indexed == ids_by_token[t] \cap DOMAIN open_orders
           stale == {n \in indexed : worker[open_orders[n].session] = "expired"}
           takers(side) == {n \in indexed \ stale : /\ open_orders[n].side = side
                                                    /\ Marketable(view, open_orders[n])}
<1>0. PICK buying \in Leftovers(Crossed(t, view, "buy"), TopQuantity(view, "sell")),
           selling \in Leftovers(Crossed(t, view, "sell"), TopQuantity(view, "buy")) :
             Outcome(t, view, Given(t, view, buying, selling))
  BY FillRestingUnfolds
<1>1. /\ buying \in Leftovers(takers("buy"), TopQuantity(view, "sell"))
      /\ selling \in Leftovers(takers("sell"), TopQuantity(view, "buy"))
      /\ LET taken == [n \in takers("buy") \cup takers("sell") |->
                         Least(IF n \in takers("buy") THEN buying[n] ELSE selling[n],
                               open_orders[n].remaining)]
             filled == {n \in DOMAIN taken : taken[n] > 0}
             after == [n \in DOMAIN open_orders |->
                         IF n \in filled THEN ApplyFill(open_orders[n], taken[n])
                         ELSE open_orders[n]]
             done == {n \in filled : after[n].remaining = 0}
         IN  /\ Store(after, ids_by_token, ids_by_session, stale \cup done, done)
             /\ next_activity' = next_activity + Cardinality(filled)
             /\ next_fill' = (next_fill + Cardinality(filled)) % U32
  BY <1>0 DEF Outcome, Given, Crossed, Stale
<1> DEFINE taken == [n \in takers("buy") \cup takers("sell") |->
                       Least(IF n \in takers("buy") THEN buying[n] ELSE selling[n],
                             open_orders[n].remaining)]
           filled == {n \in DOMAIN taken : taken[n] > 0}
           after == [n \in DOMAIN open_orders |->
                       IF n \in filled THEN ApplyFill(open_orders[n], taken[n])
                       ELSE open_orders[n]]
           done == {n \in filled : after[n].remaining = 0}
           gone == stale \cup done
<1>2. /\ Store(after, ids_by_token, ids_by_session, gone, done)
      /\ next_activity' = next_activity + Cardinality(filled)
      /\ next_fill' = (next_fill + Cardinality(filled)) % U32
  BY <1>1
<1>3. /\ buying \in [takers("buy") -> 0 .. TopQuantity(view, "sell")]
      /\ selling \in [takers("sell") -> 0 .. TopQuantity(view, "buy")]
  BY <1>1 DEF Leftovers
<1>4. takers("buy") \subseteq DOMAIN open_orders /\ takers("sell") \subseteq DOMAIN open_orders
  OBVIOUS
<1> HIDE DEF takers
<1>5. \A n \in DOMAIN open_orders : /\ open_orders[n] \in Order
                                    /\ open_orders[n].remaining \in Nat
  BY Disassemble, BookAssumption DEF Sound, IsTable, Order, Quantity
<1>6. ASSUME NEW n \in DOMAIN taken
      PROVE  n \in DOMAIN open_orders /\ taken[n] \in 0 .. open_orders[n].remaining
  <2> DEFINE offered == IF n \in takers("buy") THEN buying[n] ELSE selling[n]
  <2>1. n \in DOMAIN open_orders /\ taken[n] = Least(offered, open_orders[n].remaining)
    BY <1>4
  <2>2. offered \in Nat
    BY <1>3
  <2> HIDE DEF offered, taken
  <2> QED
    BY <2>1, <2>2, <1>5, LeastType
<1> HIDE DEF taken
<1>7. filled \subseteq DOMAIN open_orders
  BY <1>6
<1>8. ASSUME NEW n \in DOMAIN open_orders
      PROVE  /\ after[n] \in Order
             /\ after[n].session = open_orders[n].session
             /\ after[n].token = open_orders[n].token
             /\ after[n].volume = open_orders[n].volume
             /\ after[n].remaining \in 0 .. open_orders[n].remaining
             /\ after[n].remaining = 0 /\ n \notin filled => open_orders[n].remaining = 0
  <2>1. CASE n \in filled
    <3>1. after[n] = ApplyFill(open_orders[n], taken[n])
      BY <2>1
    <3>2. taken[n] \in 0 .. open_orders[n].remaining /\ taken[n] \in Nat
      BY <2>1, <1>5, <1>6
    <3> HIDE DEF after, filled
    <3>3. /\ after[n] \in Order
          /\ after[n].remaining = open_orders[n].remaining - taken[n]
          /\ after[n].session = open_orders[n].session
          /\ after[n].token = open_orders[n].token
          /\ after[n].volume = open_orders[n].volume
      BY <3>1, <3>2, <1>5, ApplyFillType
    <3> QED
      BY <3>2, <3>3, <2>1, <1>5
  <2>2. CASE n \notin filled
    <3>1. after[n] = open_orders[n]
      BY <2>2
    <3> HIDE DEF after, filled
    <3> QED
      BY <3>1, <1>5
  <2> QED
    BY <2>1, <2>2
<1>9. PICK N : N = Numbers
  OBVIOUS
<1>10. DOMAIN after = DOMAIN open_orders /\ DOMAIN open_orders \subseteq N
  BY <1>9, Disassemble DEF Sound, IsTable
<1>11. after = [n \in DOMAIN after |-> after[n]]
  BY <1>10
<1>12. gone \in SUBSET (DOMAIN after)
  BY <1>7, <1>10
<1>13. Cardinality(filled) \in Nat
  <2> HIDE DEF filled
  <2> QED
    BY <1>7, <1>9, <1>10, SomeNumbersFinite
<1>14. ASSUME NEW n \in DOMAIN after \ gone
       PROVE  after[n].remaining # 0
  <2>1. open_orders[n].remaining # 0
    BY <1>10, Disassemble DEF Sound
  <2>2. CASE n \in filled
    BY <2>2
  <2>3. CASE n \notin filled
    BY <2>1, <2>3, <1>8, <1>10
  <2> QED
    BY <2>2, <2>3
<1> HIDE DEF filled, after, done, gone, stale, indexed
<1>15. IsTable(after, N, Order)
  BY <1>8, <1>10, <1>11 DEF IsTable
<1>16. /\ ids_by_token \in [Tokens -> SUBSET N]
       /\ ids_by_session \in [Sessions -> SUBSET N]
       /\ \A n \in DOMAIN after : /\ n \in ids_by_token[after[n].token]
                                  /\ n \in ids_by_session[after[n].session]
  BY <1>8, <1>9, <1>10, Disassemble
<1>17. /\ IsTable(open_orders', N, Order)
       /\ DOMAIN open_orders' = DOMAIN after \ gone
       /\ \A n \in DOMAIN after \ gone : open_orders'[n] = after[n]
       /\ ids_by_token' \in [Tokens -> SUBSET N]
       /\ ids_by_session' \in [Sessions -> SUBSET N]
       /\ OrdersIndexed'
  BY <1>2, <1>12, <1>15, <1>16, StoreKeepsIndexes
<1>18. ASSUME NEW n \in DOMAIN open_orders'
       PROVE  /\ worker'[open_orders'[n].session] = "running"
              /\ open_orders'[n].remaining \in 1 .. open_orders'[n].volume
              /\ open_orders'[n].token \in DOMAIN books
  <2>1. /\ n \in DOMAIN after \ gone /\ n \in DOMAIN open_orders
        /\ open_orders'[n] = after[n]
    BY <1>10, <1>17
  <2>2. /\ worker[open_orders[n].session] = "running"
        /\ open_orders[n].remaining \in 1 .. open_orders[n].volume
        /\ open_orders[n].token \in DOMAIN books
    BY <2>1, Disassemble DEF Sound
  <2>3. open_orders[n].volume \in Nat /\ open_orders[n].remaining \in Nat
    BY <2>1, <1>5, BookAssumption DEF Order, Quantity
  <2>4. after[n].remaining \in 1 .. open_orders[n].volume
    BY <2>1, <2>2, <2>3, <1>8, <1>14
  <2> QED
    BY <2>1, <2>2, <2>4, <1>8
<1>19. Sound(N, open_orders)'
  BY <1>17, <1>18 DEF Sound
<1>20. /\ IsTable(books', Tokens, {books'[u] : u \in DOMAIN books'})
       /\ \A u \in DOMAIN books' : IsBook(books'[u])
       /\ DOMAIN books' = DOMAIN books \cup {t}
       /\ BooksCapped' /\ IsFiniteSet(DOMAIN books')
  BY BooksPut
<1>21. \A n \in DOMAIN open_orders' : open_orders'[n].token \in DOMAIN books'
  BY <1>18, <1>20
<1>22. next_activity' \in Nat /\ next_fill' \in Quantity
  <2>1. next_activity + Cardinality(filled) \in Nat /\ next_fill + Cardinality(filled) \in Nat
    BY <1>13, Disassemble, BookAssumption DEF Quantity
  <2> QED
    BY <2>1, <1>2, WrapType
<1>23. /\ next_order' \in Nat /\ next_order' >= FirstOrder
       /\ N = FirstOrder .. next_order' - 1
       /\ worker' \in [Sessions -> {"running", "exited", "expired"}]
  BY <1>9, Disassemble DEF Numbers
<1> QED
  BY <1>17, <1>19, <1>20, <1>21, <1>22, <1>23, Assemble

LEMMA BookUpdateKeeps ==
    ASSUME IInv, NEW t \in Tokens, NEW view, IsBook(view), BookUpdate(t, view)
    PROVE  IInv'
BY FillRestingKeeps DEF BookUpdate

LEMMA MarketMessageKeeps ==
    ASSUME IInv, NEW t \in Tokens, MarketMessage(t)
    PROVE  IInv'
<1>1. CASE IgnoreToken(t)
  BY <1>1, NothingDone DEF IgnoreToken
<1>2. ASSUME NEW price \in Prices, NEW quantity \in Ticks, NEW id \in MarketIds,
             NEW side \in Side, TbtOrder(t, id, side, price, quantity)
      PROVE  IInv'
  <2> DEFINE view == BookOf(t)
  <2>1. IsBook(view) /\ quantity \in Quantity
    BY BookOfType, EngineAssumption DEF IInv
  <2> HIDE DEF view
  <2>2. /\ IsBook(OnNew(view, id, side, price, quantity))
        /\ IsBook(OnModify(view, id, side, price, quantity))
        /\ IsBook(OnCancel(view, id, side, price, quantity))
    BY <2>1, HandlersKeepBook
  <2>3. \/ BookUpdate(t, OnNew(view, id, side, price, quantity))
        \/ BookUpdate(t, OnModify(view, id, side, price, quantity))
        \/ BookUpdate(t, OnCancel(view, id, side, price, quantity))
    BY <1>2 DEF TbtOrder, view
  <2> QED
    BY <2>2, <2>3, BookUpdateKeeps
<1>3. ASSUME NEW price \in Prices, NEW quantity \in Ticks,
             NEW id \in MarketIds, NEW sell_id \in MarketIds,
             TbtTrade(t, id, sell_id, price, quantity)
      PROVE  IInv'
  <2> DEFINE view == BookOf(t)
  <2>1. IsBook(view) /\ quantity \in Quantity
    BY BookOfType, EngineAssumption DEF IInv
  <2>2. BookUpdate(t, OnTrade(view, id, sell_id, price, quantity))
    BY <1>3 DEF TbtTrade
  <2> HIDE DEF view
  <2>3. IsBook(OnTrade(view, id, sell_id, price, quantity))
    <3>1. PICK side \in Side : TRUE
      BY DEF Side
    <3> QED
      BY <2>1, <3>1, HandlersKeepBook
  <2> QED
    BY <2>2, <2>3, BookUpdateKeeps
<1> QED
  BY <1>1, <1>2, <1>3 DEF MarketMessage

-----------------------------------------------------------------------------
(* The induction.                                                          *)

LEMMA InitIInv == Init => IInv
<1> SUFFICES ASSUME Init PROVE IInv
  OBVIOUS
<1>1. /\ DOMAIN books = {} /\ DOMAIN open_orders = {}
      /\ ids_by_token \in [Tokens -> SUBSET (FirstOrder .. next_order - 1)]
      /\ ids_by_session \in [Sessions -> SUBSET (FirstOrder .. next_order - 1)]
      /\ worker = [s \in Sessions |-> "running"]
  BY DEF Init, Empty
<1>2. IsTable(books, Tokens, {books[t] : t \in DOMAIN books})
  BY <1>1 DEF Init, Empty, IsTable
<1>3. IsTable(open_orders, FirstOrder .. next_order - 1, Order)
  BY <1>1 DEF Init, Empty, IsTable
<1>4. StateOK
  BY <1>1, <1>2, <1>3, EngineAssumption DEF Init, StateOK
<1>5. IsFiniteSet(DOMAIN books) /\ Cardinality(DOMAIN books) = 0
  BY <1>1, FS_EmptySet
<1>6. BooksCapped
  BY <1>1, <1>5, EngineAssumption DEF BooksCapped
<1> QED
  BY <1>1, <1>4, <1>5, <1>6 DEF IInv, OrdersIndexed, NoOrphans, RestingOrdersServed

LEMMA RequestKeeps ==
    ASSUME IInv, NEW s \in Sessions, Request(s)
    PROVE  IInv'
<1>1. CASE RefuseEntry(s)
  BY <1>1, NothingDone DEF RefuseEntry, Refuse
<1>2. ASSUME NEW t \in Tokens, RefuseToken(s, t) PROVE IInv'
  BY <1>2, NothingDone DEF RefuseToken, Refuse
<1>3. ASSUME NEW t \in Tokens, NEW side \in Side, NEW price \in Prices,
             NEW volume \in Volumes, NewOrder(s, t, side, price, volume)
      PROVE  IInv'
  BY <1>3, NewOrderKeeps
<1>4. ASSUME NEW n, NEW type, NEW error, RefuseUpdate(s, n, type, error) PROVE IInv'
  BY <1>4, NothingDone DEF RefuseUpdate, Refuse
<1>5. ASSUME NEW n, NEW price \in Prices, NEW volume \in Volumes,
             NEW remaining \in Claims, NEW filled \in Claims,
             ModifyOrder(s, n, price, volume, remaining, filled)
      PROVE  IInv'
  BY <1>5, ModifyOrderKeeps
<1>6. ASSUME NEW n, CancelOrder(s, n) PROVE IInv'
  BY <1>6, CancelOrderKeeps
<1> QED
  BY <1>1, <1>2, <1>3, <1>4, <1>5, <1>6 DEF Request

LEMMA CloseKeeps ==
    ASSUME IInv, NEW s \in Sessions, Close(s)
    PROVE  IInv'
<1>1. CASE WriteFailed(s)
  <2>1. DropOrders(s) /\ worker' = worker /\ worker[s] # "expired"
    BY <1>1 DEF WriteFailed
  <2>2. worker[s] \in {"running", "exited"} /\ worker' = [worker EXCEPT ![s] = worker[s]]
    BY <2>1, Disassemble
  <2> QED
    BY <2>1, <2>2, DropOrdersKeeps
<1>2. CASE WorkerExit(s)
  BY <1>2, DropOrdersKeeps DEF WorkerExit
<1>3. CASE Expire(s)
  <2>1. /\ worker[s] = "exited" /\ worker' = [worker EXCEPT ![s] = "expired"]
        /\ UNCHANGED <<books, tables, counters>>
    BY <1>3 DEF Expire
  <2>2. StateOK'
    BY <2>1 DEF IInv, StateOK, tables, counters
  <2>3. NoOrphans'
    BY <2>1, Disassemble DEF NoOrphans, Sound, tables
  <2>4. OrdersIndexed' /\ RestingOrdersServed' /\ BooksCapped' /\ IsFiniteSet(DOMAIN books')
    BY <2>1 DEF IInv, OrdersIndexed, RestingOrdersServed, BooksCapped, tables
  <2> QED
    BY <2>2, <2>3, <2>4 DEF IInv
<1> QED
  BY <1>1, <1>2, <1>3 DEF Close

LEMMA NextIInv == IInv /\ [Next]_vars => IInv'
<1> SUFFICES ASSUME IInv, [Next]_vars PROVE IInv'
  OBVIOUS
<1>1. ASSUME NEW s \in Sessions, Request(s) PROVE IInv'
  BY <1>1, RequestKeeps
<1>2. ASSUME NEW s \in Sessions, Close(s) PROVE IInv'
  BY <1>2, CloseKeeps
<1>3. ASSUME NEW t \in Tokens, MarketMessage(t) PROVE IInv'
  BY <1>3, MarketMessageKeeps
<1>4. CASE UNCHANGED vars
  BY <1>4, NothingDone DEF vars
<1> QED
  BY <1>1, <1>2, <1>3, <1>4 DEF Next

THEOREM Invariance == Spec => []IInv
BY InitIInv, NextIInv, PTL DEF Spec

-----------------------------------------------------------------------------
(* What follows for every engine.                                          *)

\* Type correctness: no call takes a table, an index, a counter or a book out of
\* its type, wrapping fill numbers and volumes included.
THEOREM TypeCorrect == Spec => []TypeOK
<1>1. Init => market_data \in MarketData
  BY DEF Init
<1>2. market_data \in MarketData /\ [Next]_vars => (market_data \in MarketData)'
  BY DEF Next, vars
<1>3. Spec => [](market_data \in MarketData)
  BY <1>1, <1>2, PTL DEF Spec
<1>4. IInv /\ market_data \in MarketData => TypeOK
  BY DEF IInv, TypeOK
<1> QED
  BY <1>3, <1>4, Invariance, PTL

\* Every open order is always in both of its indexes, even if numbers of erased
\* orders stay there because eraseOpenOrderLocked has read freed memory.
THEOREM OrdersStayIndexed == Spec => []OrdersIndexed
<1>1. IInv => OrdersIndexed
  BY DEF IInv
<1> QED
  BY <1>1, Invariance, PTL

\* No order outlives the thread of its session, however requests, failing
\* writers and exiting threads interleave.
THEOREM OrdersHaveOwners == Spec => []NoOrphans
<1>1. IInv => NoOrphans
  BY DEF IInv
<1> QED
  BY <1>1, Invariance, PTL

\* Whatever clients claim and however books move, an order rests only with
\* volume left to trade and only where book updates will reach it.
THEOREM RestingServed == Spec => []RestingOrdersServed
<1>1. IInv => RestingOrdersServed
  BY DEF IInv
<1> QED
  BY <1>1, Invariance, PTL

\* The cap on books and the token filter hold for any number of tokens.
THEOREM CapKept == Spec => []BooksCapped
<1>1. IInv => BooksCapped
  BY DEF IInv
<1> QED
  BY <1>1, Invariance, PTL

-----------------------------------------------------------------------------
(* MatchingEngine implements OrderLife.  First what OrderLife allows is put *)
(* in the engine's words (Passes to Matches); then each call is shown to be *)
(* one of these, from the engine's invariant IInv and from Own, which a     *)
(* closed session needs: the orders its index finds are its own.            *)

\* What OrderLife calls open, and the reply as it puts it.
Open == [n \in DOMAIN open_orders |->
            [session |-> open_orders[n].session, left |-> open_orders[n].remaining]]
Heard == [i \in DOMAIN reply |-> Said(reply[i])]

-----------------------------------------------------------------------------
(* Events.                                                                 *)

LEMMA SaidOrder ==
    ASSUME NEW type, type # "trade", NEW n, NEW order, NEW ref
    PROVE  Said(OrderEvent(type, n, order, ref)) =
                Life!Event(type, n, order.session, order.remaining, ref)
  BY DEF Said, OrderEvent, Life!Event

LEMMA SaidTrade ==
    ASSUME NEW n, NEW order, NEW ref, NEW fill, NEW price, NEW quantity
    PROVE  Said(TradeEvent(n, order, ref, fill, price, quantity)) =
                Life!Event("trade", n, order.session, quantity, ref)
  BY DEF Said, TradeEvent, Life!Event

LEMMA SaidError ==
    ASSUME NEW type, NEW s, NEW n, NEW error
    PROVE  Said(ErrorEvent(type, s, n, error)) = Life!Refusal
  BY DEF Said, ErrorEvent, Life!Refusal

LEMMA HeardSome ==
    /\ reply' = <<>> => Heard' = <<>>
    /\ \A a : reply' = <<a>> => Heard' = <<Said(a)>>
    /\ \A a, b : reply' = <<a, b>> => Heard' = <<Said(a), Said(b)>>
    /\ \A a, b, c : reply' = <<a, b, c>> => Heard' = <<Said(a), Said(b), Said(c)>>
  BY DEF Heard

LEMMA JoinOne ==
    ASSUME NEW a, NEW b
    PROVE  <<a>> \o <<b>> = <<a, b>>
<1> DEFINE S == {a, b}  s == <<a>>  t == <<b>>  u == <<a, b>>
<1>1. s \in Seq(S) /\ t \in Seq(S) /\ u \in Seq(S)
  OBVIOUS
<1>2. Len(s) = 1 /\ Len(t) = 1 /\ Len(u) = 2 /\ s[1] = a /\ t[1] = b /\ u[1] = a /\ u[2] = b
  OBVIOUS
<1> HIDE DEF S, s, t, u
<1>3. s \o t \in Seq(S) /\ Len(s \o t) = 2 /\ (s \o t)[1] = a /\ (s \o t)[2] = b
  BY <1>1, <1>2, ConcatProperties
<1>4. \A i \in 1 .. Len(s \o t) : (s \o t)[i] = u[i]
  BY <1>2, <1>3
<1>5. s \o t = u
  BY <1>1, <1>2, <1>3, <1>4, SeqEqual
<1> QED
  BY <1>5 DEF s, t, u

LEMMA JoinTwo ==
    ASSUME NEW a, NEW b, NEW c
    PROVE  <<a, b>> \o <<c>> = <<a, b, c>>
<1> DEFINE S == {a, b, c}  s == <<a, b>>  t == <<c>>  u == <<a, b, c>>
<1>1. s \in Seq(S) /\ t \in Seq(S) /\ u \in Seq(S)
  OBVIOUS
<1>2. /\ Len(s) = 2 /\ Len(t) = 1 /\ Len(u) = 3
      /\ s[1] = a /\ s[2] = b /\ t[1] = c /\ u[1] = a /\ u[2] = b /\ u[3] = c
  OBVIOUS
<1> HIDE DEF S, s, t, u
<1>3. /\ s \o t \in Seq(S) /\ Len(s \o t) = Len(s) + Len(t)
      /\ \A i \in 1 .. Len(s) + Len(t) :
            (s \o t)[i] = IF i <= Len(s) THEN s[i] ELSE t[i - Len(s)]
  BY <1>1, ConcatProperties
<1>4. \A i \in 1 .. Len(s \o t) : (s \o t)[i] = u[i]
  BY <1>2, <1>3
<1>5. s \o t = u
  BY <1>1, <1>2, <1>3, <1>4, SeqEqual
<1> QED
  BY <1>5 DEF s, t, u

\* The replies the engine puts together: no event, one, two or three.
LEMMA Joined ==
    ASSUME NEW a, NEW b, NEW c
    PROVE  /\ <<a>> \o <<>> = <<a>>
           /\ <<a>> \o <<b>> = <<a, b>>
           /\ <<a, b>> \o <<>> = <<a, b>>
           /\ <<a, b>> \o <<c>> = <<a, b, c>>
           /\ Len(<<>>) = 0 /\ Len(<<a>>) = 1 /\ Len(<<a, b>>) = 2 /\ Len(<<a, b, c>>) = 3
<1>1. <<a>> \o <<>> = <<a>>
  OBVIOUS
<1>2. <<a, b>> \o <<>> = <<a, b>>
  OBVIOUS
<1>3. Len(<<>>) = 0 /\ Len(<<a>>) = 1 /\ Len(<<a, b>>) = 2 /\ Len(<<a, b, c>>) = 3
  OBVIOUS
<1> QED
  BY <1>1, <1>2, <1>3, JoinOne, JoinTwo

-----------------------------------------------------------------------------
(* What OrderLife allows, in those words.                                  *)

Kept(orders, n, s, left) ==
    [m \in (DOMAIN orders \cup {n}) \ (IF left = 0 THEN {n} ELSE {}) |->
        IF m = n THEN [session |-> s, left |-> left] ELSE orders[m]]

LEMMA Passes ==
    ASSUME Open' = Open, UNCHANGED <<next_order, next_activity>>, Heard' \in {<<Life!Refusal>>, <<>>}
    PROVE  Life!Next
<1>1. Life!Pass
  BY DEF Life!Pass, Open, Heard, Life!Refusal
<1> QED
  BY <1>1 DEF Life!Next

LEMMA Drops ==
    ASSUME NEW s \in Sessions,
           Open' = [n \in {m \in DOMAIN Open : Open[m].session # s} |-> Open[n]],
           Heard' = <<>>, UNCHANGED <<next_order, next_activity>>
    PROVE  Life!Next
<1>1. Life!Drop(s)
  BY DEF Life!Drop, Open, Heard
<1> QED
  BY <1>1 DEF Life!Next

LEMMA Cancels ==
    ASSUME NEW n \in DOMAIN Open, UNCHANGED next_order, next_activity' = next_activity + 1,
           Heard' = <<Life!Event("cancelled", n, Open[n].session, 0, next_activity)>>,
           Open' = Kept(Open, n, Open[n].session, 0)
    PROVE  Life!Next
<1>1. Life!Cancel(n)
  BY DEF Life!Cancel, Life!Keep, Kept, Open, Heard
<1> QED
  BY <1>1 DEF Life!Next, Open

LEMMA Modifies ==
    ASSUME NEW n \in DOMAIN Open, NEW left \in Quantity \ {0}, NEW traded \in 0 .. left,
           UNCHANGED next_order, next_activity' = next_activity + (IF traded = 0 THEN 1 ELSE 2),
           NEW s, s = Open[n].session,
           Heard' = <<Life!Event("modified", n, s, left, next_activity)>>
                        \o Life!TradeOf(n, s, traded, next_activity + 1),
           Open' = Kept(Open, n, s, left - traded)
    PROVE  Life!Next
<1>1. Life!Modify(n, left, traded)
  BY DEF Life!Modify, Life!Keep, Kept, Open, Heard
<1> QED
  BY <1>1 DEF Life!Next, Open

LEMMA Accepts ==
    ASSUME NEW s \in Sessions, NEW volume \in Quantity \ {0}, NEW traded \in 0 .. volume,
           NEW stays \in BOOLEAN, NEW n, n = next_order, next_order' = next_order + 1,
           Heard' = <<Life!Event("confirmed", n, s, volume, next_activity)>>
                \o Life!TradeOf(n, s, traded, next_activity + 1)
                \o (IF stays \/ traded = volume THEN <<>>
                    ELSE <<Life!Event("cancelled", n, s, 0, next_activity + IF traded = 0 THEN 1 ELSE 2)>>),
           next_activity' = next_activity + Len(Heard'),
           Open' = Kept(Open, n, s, IF stays THEN volume - traded ELSE 0)
    PROVE  Life!Next
<1>1. Life!Accept(s, volume, traded, stays)
  BY DEF Life!Accept, Life!Keep, Kept, Open, Heard
<1> QED
  BY <1>1 DEF Life!Next

Shared(orders, S, traded) ==
    LET left(n) == IF n \in S THEN orders[n].left - traded[n] ELSE orders[n].left
    IN  [n \in {m \in DOMAIN orders : left(m) > 0} |-> [orders[n] EXCEPT !.left = left(n)]]

Trades(orders, nth, traded, ref) ==
    [i \in DOMAIN nth |-> Life!Event("trade", nth[i], orders[nth[i]].session,
                                     traded[nth[i]], ref + i - 1)]

LEMMA Matches ==
    ASSUME NEW S \in SUBSET DOMAIN Open, S # {}, UNCHANGED next_order,
           next_activity' = next_activity + Cardinality(S),
           NEW traded \in [S -> Quantity \ {0}], \A n \in S : traded[n] <= Open[n].left,
           Open' = Shared(Open, S, traded),
           NEW nth \in [1 .. Cardinality(S) -> S],
           \A i, j \in DOMAIN nth : i < j => nth[i] < nth[j],
           Heard' = Trades(Open, nth, traded, next_activity)
    PROVE  Life!Next
<1> DEFINE left(n) == IF n \in S THEN Open[n].left - traded[n] ELSE Open[n].left
<1>1. Life!Cardinality(S) = Cardinality(S)
  BY DEF Life!Cardinality, Cardinality
<1>2. traded \in [S -> Quantity \ {0}] /\ \A n \in S : traded[n] <= Open[n].left
  OBVIOUS
<1>3. Open' = [n \in {m \in DOMAIN Open : left(m) > 0} |-> [Open[n] EXCEPT !.left = left(n)]]
  BY DEF Shared
<1>4. \E mth \in [1 .. Life!Cardinality(S) -> S] :
        /\ \A i, j \in DOMAIN mth : i < j => mth[i] < mth[j]
        /\ Heard' = [i \in DOMAIN mth |->
                Life!Event("trade", mth[i], Open[mth[i]].session, traded[mth[i]],
                           next_activity + i - 1)]
  BY <1>1 DEF Trades
<1>5. Life!Match(S)
  BY <1>1, <1>2, <1>3, <1>4 DEF Life!Match, Open, Heard
<1> QED
  BY <1>5 DEF Life!Next, Open

-----------------------------------------------------------------------------
(* The indexes of a session and of a token hold no order of another: an    *)
(* erased number may stay behind in one, but no number is given out twice. *)

OwnIn(orders, by_token, by_session) ==
    /\ \A s \in Sessions : \A n \in by_session[s] \cap DOMAIN orders : orders[n].session = s
    /\ \A t \in Tokens : \A n \in by_token[t] \cap DOMAIN orders : orders[n].token = t

Own == OwnIn(open_orders, ids_by_token, ids_by_session)

LEMMA StoreShows ==
    ASSUME NEW orders, NEW by_token, NEW by_session, NEW gone, NEW freed,
           Store(orders, by_token, by_session, gone, freed)
    PROVE  /\ DOMAIN open_orders' = DOMAIN orders \ gone
           /\ \A n \in DOMAIN orders \ gone : open_orders'[n] = orders[n]
<1>1. open_orders' = Restrict(orders, DOMAIN orders \ gone)
  BY DEF Store
<1> QED
  BY <1>1 DEF Restrict

LEMMA StoreKeepsOwn ==
    ASSUME NEW orders, NEW by_token, NEW by_session, NEW gone, NEW freed,
           OwnIn(orders, by_token, by_session),
           Store(orders, by_token, by_session, gone, freed)
    PROVE  Own'
<1>1. /\ DOMAIN open_orders' = DOMAIN orders \ gone
      /\ \A n \in DOMAIN orders \ gone : open_orders'[n] = orders[n]
  BY StoreShows
<1>2. PICK ms : ids_by_session' = [s \in Sessions |->
            by_session[s] \ {n \in gone \ ms : orders[n].session = s}]
  BY DEF Store
<1>3. ASSUME NEW s \in Sessions, NEW n \in ids_by_session'[s] \cap DOMAIN open_orders'
      PROVE  open_orders'[n].session = s
  <2>1. n \in by_session[s] /\ n \in DOMAIN orders /\ open_orders'[n] = orders[n]
    BY <1>1, <1>2, <1>3
  <2> QED
    BY <2>1 DEF OwnIn
<1>4. PICK mt : ids_by_token' = [t \in Tokens |->
            by_token[t] \ {n \in gone \ mt : orders[n].token = t}]
  BY DEF Store
<1>5. ASSUME NEW t \in Tokens, NEW n \in ids_by_token'[t] \cap DOMAIN open_orders'
      PROVE  open_orders'[n].token = t
  <2>1. n \in by_token[t] /\ n \in DOMAIN orders /\ open_orders'[n] = orders[n]
    BY <1>1, <1>4, <1>5
  <2> QED
    BY <2>1 DEF OwnIn
<1> QED
  BY <1>3, <1>5 DEF Own, OwnIn

-----------------------------------------------------------------------------
(* What the session of an order sees when the order is stored and filled.  *)

\* What a fill at the top of a book takes from an order.
LEMMA FillOf ==
    ASSUME NEW view, IsBook(view), NEW order \in Order
    PROVE  LET quantity == Least(Available(view, order), order.remaining)
               filled == ApplyFill(order, quantity)
           IN  /\ quantity \in 0 .. order.remaining
               /\ order.remaining \in Nat
               /\ filled \in Order
               /\ filled.remaining = order.remaining - quantity
               /\ filled.session = order.session
<1> DEFINE quantity == Least(Available(view, order), order.remaining)
<1>1. Available(view, order) \in Nat /\ order.remaining \in Nat
  BY AvailableType, BookAssumption DEF Order, Quantity
<1>2. quantity \in 0 .. order.remaining
  BY <1>1, LeastType
<1> HIDE DEF quantity
<1>3. LET filled == ApplyFill(order, quantity)
      IN  /\ filled \in Order
          /\ filled.remaining = order.remaining - quantity
          /\ filled.session = order.session
  BY <1>2, ApplyFillType
<1> QED
  BY <1>1, <1>2, <1>3 DEF quantity

\* The order n of `orders`, as `type` reports it, takes q and its session sees it.
Shows(type, n, orders, q) ==
    LET s == orders[n].session
        volume == orders[n].remaining
    IN  /\ Heard' = <<Life!Event(type, n, s, volume, next_activity)>>
                        \o Life!TradeOf(n, s, q, next_activity + 1)
        /\ next_activity' = next_activity + (IF q = 0 THEN 1 ELSE 2)
        /\ Len(Heard') = IF q = 0 THEN 1 ELSE 2
        /\ Open' = [m \in DOMAIN orders \ (IF volume - q = 0 THEN {n} ELSE {}) |->
                IF m = n THEN [session |-> s, left |-> volume - q]
                ELSE [session |-> orders[m].session, left |-> orders[m].remaining]]

LEMMA FillStoredShows ==
    ASSUME next_activity \in Nat, NEW type, type # "trade", NEW orders, NEW n \in DOMAIN orders,
           orders[n] \in Order, orders[n].remaining > 0, NEW view, IsBook(view),
           NEW by_token, NEW by_session,
           FillStored(type, n, view, orders, by_token, by_session)
    PROVE  \E q \in 0 .. orders[n].remaining : Shows(type, n, orders, q)
<1> DEFINE quantity == Least(Available(view, orders[n]), orders[n].remaining)
           filled == ApplyFill(orders[n], quantity)
           gone == IF quantity > 0 /\ filled.remaining = 0 THEN {n} ELSE {}
           after == [orders EXCEPT ![n] = filled]
           told == OrderEvent(type, n, orders[n], next_activity)
           price == BestPrice(view, Opposite(orders[n].side))
           trade == TradeEvent(n, filled, next_activity + 1, next_fill, price, quantity)
<1>1. /\ Store(after, by_token, by_session, gone, gone)
      /\ quantity = 0 => reply' = <<told>> /\ next_activity' = next_activity + 1
      /\ quantity # 0 => reply' = <<told, trade>> /\ next_activity' = next_activity + 2
  BY DEF FillStored
<1>2. /\ quantity \in 0 .. orders[n].remaining
      /\ orders[n].remaining \in Nat
      /\ filled.remaining = orders[n].remaining - quantity
      /\ filled.session = orders[n].session
  BY FillOf
<1>3. /\ Said(told) = Life!Event(type, n, orders[n].session, orders[n].remaining, next_activity)
      /\ Said(trade) = Life!Event("trade", n, orders[n].session, quantity, next_activity + 1)
  <2>1. Said(told) = Life!Event(type, n, orders[n].session, orders[n].remaining, next_activity)
    BY SaidOrder
  <2> HIDE DEF quantity, filled, price
  <2>2. Said(trade) = Life!Event("trade", n, filled.session, quantity, next_activity + 1)
    BY SaidTrade
  <2> QED
    BY <2>1, <2>2, <1>2
<1> HIDE DEF quantity, filled, told, trade, price
<1>4. DOMAIN after = DOMAIN orders
      /\ \A m \in DOMAIN orders : after[m] = IF m = n THEN filled ELSE orders[m]
  OBVIOUS
<1>5. gone = IF orders[n].remaining - quantity = 0 THEN {n} ELSE {}
  BY <1>2
<1> HIDE DEF after, gone
<1>6. Open' = [m \in DOMAIN after \ gone |->
                [session |-> after[m].session, left |-> after[m].remaining]]
  <2>1. Store(after, by_token, by_session, gone, gone)
    BY <1>1
  <2>2. /\ DOMAIN open_orders' = DOMAIN after \ gone
        /\ \A m \in DOMAIN after \ gone : open_orders'[m] = after[m]
    BY <2>1, StoreShows
  <2> QED
    BY <2>2 DEF Open
<1>7. Open' = [m \in DOMAIN orders \ gone |->
                IF m = n THEN [session |-> orders[n].session, left |-> orders[n].remaining - quantity]
                ELSE [session |-> orders[m].session, left |-> orders[m].remaining]]
  BY <1>2, <1>4, <1>6
<1>8. CASE quantity = 0
  <2>1. Heard' = <<Said(told)>>
    BY <1>1, <1>8, HeardSome
  <2>2. Life!TradeOf(n, orders[n].session, quantity, next_activity + 1) = <<>>
    BY <1>8 DEF Life!TradeOf
  <2>3. Heard' = <<Said(told)>> \o <<>> /\ Len(Heard') = 1
    BY <2>1, Joined
  <2> QED
    BY <1>1, <1>2, <1>3, <1>5, <1>7, <1>8, <2>2, <2>3 DEF Shows
<1>9. CASE quantity # 0
  <2>1. Heard' = <<Said(told), Said(trade)>>
    BY <1>1, <1>9, HeardSome
  <2>2. Life!TradeOf(n, orders[n].session, quantity, next_activity + 1) = <<Said(trade)>>
    BY <1>3, <1>9 DEF Life!TradeOf
  <2>3. Heard' = <<Said(told)>> \o <<Said(trade)>> /\ Len(Heard') = 2
    BY <2>1, Joined
  <2> QED
    BY <1>1, <1>2, <1>3, <1>5, <1>7, <1>9, <2>2, <2>3 DEF Shows
<1> QED
  BY <1>8, <1>9

-----------------------------------------------------------------------------
(* New orders.                                                             *)

LEMMA NothingToldOrRefused ==
    ASSUME UNCHANGED <<tables, counters>>,
           reply' = <<>> \/ \E type, s, n, error : reply' = <<ErrorEvent(type, s, n, error)>>
    PROVE  Life!Next
<1>1. Open' = Open /\ UNCHANGED <<next_order, next_activity>>
  BY DEF Open, tables, counters
<1>2. Heard' \in {<<Life!Refusal>>, <<>>}
  <2>1. CASE reply' = <<>>
    BY <2>1, HeardSome
  <2>2. ASSUME NEW type, NEW s, NEW n, NEW error, reply' = <<ErrorEvent(type, s, n, error)>>
        PROVE  Heard' = <<Life!Refusal>>
    <3>1. Said(ErrorEvent(type, s, n, error)) = Life!Refusal
      BY SaidError
    <3>2. Heard' = <<Said(ErrorEvent(type, s, n, error))>>
      BY <2>2, HeardSome
    <3> QED
      BY <3>1, <3>2
  <2> QED
    BY <2>1, <2>2
<1> QED
  BY <1>1, <1>2, Passes

\* An order that does not stay leaves what is open as it is.
LEMMA KeptAway ==
    ASSUME IInv, NEW n, n = next_order, NEW s, UNCHANGED open_orders
    PROVE  Open' = Kept(Open, n, s, 0)
<1>1. n \notin DOMAIN open_orders
  <2>1. DOMAIN open_orders \subseteq FirstOrder .. next_order - 1 /\ next_order \in Nat
    BY DEF IInv, StateOK, IsTable
  <2> QED
    BY <2>1, EngineAssumption
<1> QED
  BY <1>1 DEF Kept, Open

\* The order a request makes.
Fresh(s, order) ==
    /\ order \in Order /\ order.session = s
    /\ order.remaining \in Quantity \ {0} /\ order.filled = 0

LEMMA FillAtOnceShows ==
    ASSUME IInv, NEW s \in Sessions, NEW order, Fresh(s, order), FillAtOnce(s, order),
           next_order' = next_order + 1
    PROVE  Life!Next
<1>1. PICK n : n = next_order
  OBVIOUS
<1>2. PICK volume \in Quantity \ {0} : volume = order.remaining
  BY DEF Fresh
<1> DEFINE filled == ApplyFill(order, volume)
           told == OrderEvent("confirmed", n, order, next_activity)
           trade == TradeEvent(n, filled, next_activity + 1, next_fill, order.price, filled.filled)
<1>3. /\ reply' = <<told, trade>> /\ next_activity' = next_activity + 2
      /\ UNCHANGED open_orders
  BY <1>1, <1>2 DEF FillAtOnce, tables
<1>4. filled.filled = volume /\ filled.session = s
  <2>1. volume \in 0 .. U32 - 1 /\ U32 \in Nat \ {0}
    BY BookAssumption DEF Quantity
  <2>2. (0 + volume) % U32 = volume
    BY <2>1
  <2> QED
    BY <1>2, <2>2 DEF ApplyFill, Fresh, Order
<1>5. Said(told) = Life!Event("confirmed", n, s, volume, next_activity)
  BY <1>2, SaidOrder DEF Fresh
<1> HIDE DEF filled
<1>6. Said(trade) = Life!Event("trade", n, s, volume, next_activity + 1)
  BY <1>4, SaidTrade
<1> HIDE DEF told, trade
<1>7. Heard' = <<Said(told), Said(trade)>> /\ Len(Heard') = 2
  BY <1>3, HeardSome, Joined
<1>8. Life!TradeOf(n, s, volume, next_activity + 1) = <<Said(trade)>>
  BY <1>6 DEF Life!TradeOf
<1>9. Heard' = <<Life!Event("confirmed", n, s, volume, next_activity)>>
                  \o Life!TradeOf(n, s, volume, next_activity + 1) \o <<>>
  BY <1>5, <1>7, <1>8, Joined
<1>10. Open' = Kept(Open, n, s, 0)
  BY <1>1, <1>3, KeptAway
<1>11. volume \in 0 .. volume
  BY <1>2, BookAssumption DEF Quantity
<1> QED
  BY <1>1, <1>3, <1>7, <1>9, <1>10, <1>11, Accepts

LEMMA RestDayOrderShows ==
    ASSUME IInv, NEW s \in Sessions, NEW order, Fresh(s, order), RestDayOrder(s, order),
           next_order' = next_order + 1
    PROVE  Life!Next
<1>1. PICK n : n = next_order
  OBVIOUS
<1>2. PICK volume \in Quantity \ {0} : volume = order.remaining
  BY DEF Fresh
<1>3. PICK orders : orders = Put(open_orders, n, order)
  OBVIOUS
<1>4. PICK view : view = BookOf(order.token)
  OBVIOUS
<1>5. PICK by_token, by_session :
            FillStored("confirmed", n, view, orders, by_token, by_session)
  BY <1>1, <1>3, <1>4 DEF RestDayOrder
<1>6. /\ DOMAIN orders = DOMAIN open_orders \cup {n} /\ orders[n] = order
      /\ \A m \in DOMAIN open_orders : m # n => orders[m] = open_orders[m]
  BY <1>3 DEF Put
<1>7. IsBook(view) /\ next_activity \in Nat
  BY <1>4, BookOfType, Disassemble DEF IInv
<1>8. order \in Order /\ order.session = s /\ volume \in Nat /\ volume > 0
  BY <1>2, BookAssumption DEF Fresh, Quantity
<1>9. PICK q \in 0 .. volume :
           /\ Heard' = <<Life!Event("confirmed", n, s, volume, next_activity)>>
                           \o Life!TradeOf(n, s, q, next_activity + 1)
           /\ next_activity' = next_activity + (IF q = 0 THEN 1 ELSE 2)
           /\ Len(Heard') = IF q = 0 THEN 1 ELSE 2
           /\ Open' = [m \in DOMAIN orders \ (IF volume - q = 0 THEN {n} ELSE {}) |->
                IF m = n THEN [session |-> s, left |-> volume - q]
                ELSE [session |-> orders[m].session, left |-> orders[m].remaining]]
  <2>1. /\ n \in DOMAIN orders /\ orders[n] \in Order /\ orders[n].remaining > 0
        /\ orders[n].remaining = volume /\ orders[n].session = s
    BY <1>2, <1>6, <1>8
  <2>2. "confirmed" # "trade"
    OBVIOUS
  <2>3. PICK q \in 0 .. orders[n].remaining : Shows("confirmed", n, orders, q)
    BY <2>1, <2>2, <1>5, <1>7, FillStoredShows
  <2> QED
    BY <2>1, <2>3 DEF Shows
<1>10. Open' = Kept(Open, n, s, volume - q)
  BY <1>6, <1>9 DEF Kept, Open
<1>11. Heard' = <<Life!Event("confirmed", n, s, volume, next_activity)>>
                   \o Life!TradeOf(n, s, q, next_activity + 1) \o <<>>
  <2> DEFINE a == Life!Event("confirmed", n, s, volume, next_activity)
             b == Life!Event("trade", n, s, q, next_activity + 1)
  <2>1. CASE q = 0
    BY <1>9, <2>1, Joined DEF Life!TradeOf
  <2>2. CASE q # 0
    BY <1>9, <2>2, Joined DEF Life!TradeOf
  <2> QED
    BY <2>1, <2>2
<1>12. next_activity' = next_activity + Len(Heard')
  BY <1>9
<1>13. PICK stays \in BOOLEAN : stays = TRUE
  OBVIOUS
<1>14. /\ Heard' = <<Life!Event("confirmed", n, s, volume, next_activity)>>
                \o Life!TradeOf(n, s, q, next_activity + 1)
                \o (IF stays \/ q = volume THEN <<>>
                    ELSE <<Life!Event("cancelled", n, s, 0, next_activity + IF q = 0 THEN 1 ELSE 2)>>)
       /\ Open' = Kept(Open, n, s, IF stays THEN volume - q ELSE 0)
  BY <1>10, <1>11, <1>13
<1> QED
  BY <1>1, <1>12, <1>14, Accepts

LEMMA ImmediateOrCancelShows ==
    ASSUME IInv, NEW s \in Sessions, NEW order, Fresh(s, order), ImmediateOrCancel(s, order),
           next_order' = next_order + 1
    PROVE  Life!Next
<1>1. PICK n : n = next_order
  OBVIOUS
<1>2. PICK volume \in Quantity \ {0} : volume = order.remaining
  BY DEF Fresh
<1>3. PICK view : view = BookOf(order.token)
  OBVIOUS
<1>4. PICK q : q = Least(Available(view, order), volume)
  OBVIOUS
<1>5. PICK filled : filled = ApplyFill(order, q)
  OBVIOUS
<1> DEFINE told == OrderEvent("confirmed", n, order, next_activity)
           trade == TradeEvent(n, filled, next_activity + 1, next_fill,
                               BestPrice(view, Opposite(order.side)), q)
           traded == IF q = 0 THEN <<>> ELSE <<trade>>
           away == OrderEvent("cancelled", n, [filled EXCEPT !.remaining = 0],
                              next_activity + 1 + Len(traded))
           cancelled == IF filled.remaining = 0 THEN <<>> ELSE <<away>>
<1>6. /\ reply' = <<told>> \o traded \o cancelled
      /\ next_activity' = next_activity + 1 + Len(traded) + Len(cancelled)
      /\ UNCHANGED open_orders
  BY <1>1, <1>2, <1>3, <1>4, <1>5 DEF ImmediateOrCancel, tables
<1>7. /\ q \in 0 .. volume /\ volume \in Nat /\ volume > 0 /\ next_activity \in Nat
      /\ filled.remaining = volume - q /\ filled.session = s /\ filled \in Order
  <2>1. IsBook(view) /\ order \in Order /\ order.session = s /\ next_activity \in Nat
    BY <1>3, BookOfType, Disassemble DEF IInv, Fresh
  <2>2. volume > 0
    BY BookAssumption DEF Quantity
  <2> QED
    BY <2>1, <2>2, <1>2, <1>4, <1>5, FillOf
<1>8. Said(told) = Life!Event("confirmed", n, s, volume, next_activity)
  BY <1>2, SaidOrder DEF Fresh
<1>9. Said(trade) = Life!Event("trade", n, s, q, next_activity + 1)
  BY <1>7, SaidTrade
<1>10. Len(traded) = IF q = 0 THEN 0 ELSE 1
  <2> HIDE DEF trade
  <2> QED
    BY Joined
<1>11. Said(away) = Life!Event("cancelled", n, s, 0, next_activity + IF q = 0 THEN 1 ELSE 2)
  <2>1. PICK gone : gone = [filled EXCEPT !.remaining = 0]
    OBVIOUS
  <2>2. gone.session = s /\ gone.remaining = 0
    BY <2>1, <1>7 DEF Order
  <2>3. PICK ref : ref = next_activity + 1 + Len(traded)
    OBVIOUS
  <2>4. Said(OrderEvent("cancelled", n, gone, ref)) = Life!Event("cancelled", n, s, 0, ref)
    BY <2>2, SaidOrder
  <2> HIDE DEF traded
  <2>5. ref = next_activity + IF q = 0 THEN 1 ELSE 2
    BY <2>3, <1>7, <1>10
  <2>6. away = OrderEvent("cancelled", n, gone, ref)
    BY <2>1, <2>3
  <2> HIDE DEF away
  <2> QED
    BY <2>4, <2>5, <2>6
<1> HIDE DEF told, trade, away
<1> DEFINE rest == IF q = volume THEN <<>> ELSE <<Said(away)>>
           filling == IF q = 0 THEN <<>> ELSE <<Said(trade)>>
<1>12. Heard' = <<Said(told)>> \o filling \o rest /\ next_activity' = next_activity + Len(Heard')
  <2>1. CASE q = 0 /\ q # volume
    <3>1. traded = <<>> /\ cancelled = <<away>>
      BY <2>1, <1>7
    <3>2. filling = <<>> /\ rest = <<Said(away)>>
      BY <2>1
    <3> HIDE DEF traded, cancelled, filling, rest
    <3>3. reply' = <<told, away>>
      BY <3>1, <1>6, Joined
    <3>4. Heard' = <<Said(told), Said(away)>>
      BY <3>3, HeardSome
    <3>5. next_activity' = next_activity + 2 /\ Len(Heard') = 2
      BY <3>1, <3>4, <1>6, <1>7, Joined
    <3>6. <<Said(told), Said(away)>> = <<Said(told)>> \o filling \o rest
      BY <3>2, Joined
    <3> QED
      BY <3>4, <3>5, <3>6
  <2>2. CASE q # 0 /\ q = volume
    <3>1. traded = <<trade>> /\ cancelled = <<>>
      BY <2>2, <1>7
    <3>2. filling = <<Said(trade)>> /\ rest = <<>>
      BY <2>2
    <3> HIDE DEF traded, cancelled, filling, rest
    <3>3. reply' = <<told, trade>>
      BY <3>1, <1>6, Joined
    <3>4. Heard' = <<Said(told), Said(trade)>>
      BY <3>3, HeardSome
    <3>5. next_activity' = next_activity + 2 /\ Len(Heard') = 2
      BY <3>1, <3>4, <1>6, <1>7, Joined
    <3>6. <<Said(told), Said(trade)>> = <<Said(told)>> \o filling \o rest
      BY <3>2, Joined
    <3> QED
      BY <3>4, <3>5, <3>6
  <2>3. CASE q # 0 /\ q # volume
    <3>1. traded = <<trade>> /\ cancelled = <<away>>
      BY <2>3, <1>7
    <3>2. filling = <<Said(trade)>> /\ rest = <<Said(away)>>
      BY <2>3
    <3> HIDE DEF traded, cancelled, filling, rest
    <3>3. reply' = <<told, trade, away>>
      BY <3>1, <1>6, Joined
    <3>4. Heard' = <<Said(told), Said(trade), Said(away)>>
      BY <3>3, HeardSome
    <3>5. next_activity' = next_activity + 3 /\ Len(Heard') = 3
      BY <3>1, <3>4, <1>6, <1>7, Joined
    <3>6. <<Said(told), Said(trade), Said(away)>> = <<Said(told)>> \o filling \o rest
      BY <3>2, Joined
    <3> QED
      BY <3>4, <3>5, <3>6
  <2> QED
    BY <2>1, <2>2, <2>3, <1>7
<1>13. PICK stays \in BOOLEAN : stays = FALSE
  OBVIOUS
<1>14. /\ filling = Life!TradeOf(n, s, q, next_activity + 1)
       /\ rest = IF stays \/ q = volume THEN <<>>
                 ELSE <<Life!Event("cancelled", n, s, 0, next_activity + IF q = 0 THEN 1 ELSE 2)>>
  BY <1>9, <1>11, <1>13 DEF Life!TradeOf
<1>15. Open' = Kept(Open, n, s, IF stays THEN volume - q ELSE 0)
  BY <1>1, <1>6, <1>13, KeptAway
<1> HIDE DEF filling, rest
<1>16. Heard' = <<Life!Event("confirmed", n, s, volume, next_activity)>>
                \o Life!TradeOf(n, s, q, next_activity + 1)
                \o (IF stays \/ q = volume THEN <<>>
                    ELSE <<Life!Event("cancelled", n, s, 0, next_activity + IF q = 0 THEN 1 ELSE 2)>>)
  BY <1>8, <1>12, <1>14
<1> QED
  BY <1>1, <1>7, <1>12, <1>15, <1>16, Accepts

LEMMA NewOrderShows ==
    ASSUME IInv, NEW s \in Sessions, NEW token \in Tokens, NEW side \in Side,
           NEW price \in Prices, NEW volume \in Volumes, NewOrder(s, token, side, price, volume)
    PROVE  Life!Next
<1> DEFINE order == [session |-> s, token |-> token, side |-> side, price |-> price,
                     volume |-> volume, remaining |-> volume, filled |-> 0]
<1>1. /\ FillAtOnce(s, order) \/ ImmediateOrCancel(s, order) \/ RestDayOrder(s, order)
      /\ next_order' = next_order + 1
  BY DEF NewOrder
<1>2. Fresh(s, order)
  <2>1. volume \in Quantity \ {0} /\ 0 \in Quantity
    BY EngineAssumption, BookAssumption DEF Quantity
  <2> QED
    BY <2>1 DEF Fresh, Order
<1> HIDE DEF order
<1> QED
  BY <1>1, <1>2, FillAtOnceShows, ImmediateOrCancelShows, RestDayOrderShows

-----------------------------------------------------------------------------
(* Updates.                                                                *)

LEMMA ModifyOrderShows ==
    ASSUME IInv, NEW s \in Sessions, NEW n, NEW price \in Prices, NEW volume \in Volumes,
           NEW remaining \in Claims, NEW claimed \in Claims,
           ModifyOrder(s, n, price, volume, remaining, claimed)
    PROVE  Life!Next
<1>1. PICK left : left = IF remaining = 0 THEN volume ELSE Least(remaining, volume)
  OBVIOUS
<1>2. left \in Quantity \ {0} /\ left \in Nat /\ left > 0 /\ claimed \in Quantity
  BY <1>1, EngineAssumption, BookAssumption DEF Least, Quantity
<1>3. PICK live : live = [open_orders[n] EXCEPT !.price = price, !.volume = volume,
                                                !.filled = claimed, !.remaining = left]
  OBVIOUS
<1>4. PICK orders : orders = [open_orders EXCEPT ![n] = live]
  OBVIOUS
<1>5. PICK view : view = BookOf(live.token)
  OBVIOUS
<1>6. /\ n \in DOMAIN open_orders /\ open_orders[n].session = s
      /\ FillStored("modified", n, view, orders, ids_by_token, ids_by_session)
      /\ UNCHANGED next_order
  BY <1>1, <1>3, <1>4, <1>5 DEF ModifyOrder
<1>7. open_orders[n] \in Order
  BY <1>6, Disassemble DEF Sound, IsTable
<1>8. live \in Order /\ live.session = s /\ live.remaining = left
  <2>1. volume \in Quantity
    BY EngineAssumption
  <2> QED
    BY <2>1, <1>2, <1>3, <1>6, <1>7 DEF Order
<1>9. /\ DOMAIN orders = DOMAIN open_orders /\ orders[n] = live
      /\ \A m \in DOMAIN open_orders : m # n => orders[m] = open_orders[m]
  BY <1>4, <1>6
<1>10. IsBook(view) /\ next_activity \in Nat
  BY <1>5, BookOfType, Disassemble DEF IInv
<1>11. PICK q \in 0 .. orders[n].remaining : Shows("modified", n, orders, q)
  <2>1. /\ n \in DOMAIN orders /\ orders[n] \in Order /\ orders[n].remaining > 0
    BY <1>2, <1>6, <1>8, <1>9
  <2>2. "modified" # "trade"
    OBVIOUS
  <2> QED
    BY <2>1, <2>2, <1>6, <1>10, FillStoredShows
<1>12. /\ q \in 0 .. left
       /\ Heard' = <<Life!Event("modified", n, s, left, next_activity)>>
                       \o Life!TradeOf(n, s, q, next_activity + 1)
       /\ next_activity' = next_activity + (IF q = 0 THEN 1 ELSE 2)
       /\ Open' = [m \in DOMAIN orders \ (IF left - q = 0 THEN {n} ELSE {}) |->
                IF m = n THEN [session |-> s, left |-> left - q]
                ELSE [session |-> orders[m].session, left |-> orders[m].remaining]]
  BY <1>8, <1>9, <1>11 DEF Shows
<1>13. Open' = Kept(Open, n, s, left - q)
  <2>1. PICK rest : rest = left - q
    OBVIOUS
  <2>2. PICK before : before = Open
    OBVIOUS
  <2>3. /\ DOMAIN before = DOMAIN orders /\ n \in DOMAIN orders
        /\ \A m \in DOMAIN orders : m # n =>
                before[m] = [session |-> orders[m].session, left |-> orders[m].remaining]
    BY <1>6, <1>9, <2>2 DEF Open
  <2>4. Open' = [m \in DOMAIN orders \ (IF rest = 0 THEN {n} ELSE {}) |->
                    IF m = n THEN [session |-> s, left |-> rest]
                    ELSE [session |-> orders[m].session, left |-> orders[m].remaining]]
    BY <1>12, <2>1
  <2>5. Kept(before, n, s, rest) =
            [m \in DOMAIN orders \ (IF rest = 0 THEN {n} ELSE {}) |->
                IF m = n THEN [session |-> s, left |-> rest]
                ELSE [session |-> orders[m].session, left |-> orders[m].remaining]]
    <3>1. DOMAIN before \cup {n} = DOMAIN orders
      BY <2>3
    <3> QED BY <3>1, <2>3 DEF Kept
  <2> QED BY <2>1, <2>2, <2>4, <2>5
<1>14. n \in DOMAIN Open /\ s = Open[n].session
  BY <1>6 DEF Open
<1> QED
  BY <1>2, <1>6, <1>12, <1>13, <1>14, Modifies

LEMMA CancelOrderShows ==
    ASSUME IInv, NEW s \in Sessions, NEW n, CancelOrder(s, n)
    PROVE  Life!Next
<1>1. PICK order : order = [open_orders[n] EXCEPT !.remaining = 0]
  OBVIOUS
<1>2. /\ n \in DOMAIN open_orders /\ open_orders[n].session = s
      /\ Store(open_orders, ids_by_token, ids_by_session, {n}, {})
      /\ reply' = <<OrderEvent("cancelled", n, order, next_activity)>>
      /\ next_activity' = next_activity + 1 /\ UNCHANGED next_order
  BY <1>1 DEF CancelOrder
<1>3. open_orders[n] \in Order
  BY <1>2, Disassemble DEF Sound, IsTable
<1>4. order.session = s /\ order.remaining = 0
  BY <1>1, <1>2, <1>3 DEF Order
<1>5. n \in DOMAIN Open /\ s = Open[n].session
  BY <1>2 DEF Open
<1>6. Heard' = <<Life!Event("cancelled", n, Open[n].session, 0, next_activity)>>
  <2>1. Heard' = <<Said(OrderEvent("cancelled", n, order, next_activity))>>
    BY <1>2, HeardSome
  <2>2. Said(OrderEvent("cancelled", n, order, next_activity)) =
            Life!Event("cancelled", n, order.session, order.remaining, next_activity)
    BY SaidOrder
  <2> QED
    BY <2>1, <2>2, <1>4, <1>5
<1>7. /\ DOMAIN open_orders' = DOMAIN open_orders \ {n}
      /\ \A m \in DOMAIN open_orders \ {n} : open_orders'[m] = open_orders[m]
  BY <1>2, StoreShows
<1>8. Open' = Kept(Open, n, Open[n].session, 0)
  BY <1>2, <1>7 DEF Kept, Open
<1> QED
  BY <1>2, <1>5, <1>6, <1>8, Cancels

-----------------------------------------------------------------------------
(* Book updates.                                                           *)

LEMMA FillRestingShows ==
    ASSUME IInv, NEW t \in Tokens, NEW view, IsBook(view), FillResting(t, view),
           UNCHANGED next_order
    PROVE  Life!Next
<1> DEFINE indexed == ids_by_token[t] \cap DOMAIN open_orders
           stale == {n \in indexed : worker[open_orders[n].session] = "expired"}
           takers(side) == {n \in indexed \ stale : /\ open_orders[n].side = side
                                                    /\ Marketable(view, open_orders[n])}
<1>0. PICK buying \in Leftovers(Crossed(t, view, "buy"), TopQuantity(view, "sell")),
           selling \in Leftovers(Crossed(t, view, "sell"), TopQuantity(view, "buy")) :
             Outcome(t, view, Given(t, view, buying, selling))
  BY FillRestingUnfolds
<1>1. /\ buying \in Leftovers(takers("buy"), TopQuantity(view, "sell"))
      /\ selling \in Leftovers(takers("sell"), TopQuantity(view, "buy"))
      /\ LET taken == [n \in takers("buy") \cup takers("sell") |->
                         Least(IF n \in takers("buy") THEN buying[n] ELSE selling[n],
                               open_orders[n].remaining)]
             filled == {n \in DOMAIN taken : taken[n] > 0}
             after == [n \in DOMAIN open_orders |->
                         IF n \in filled THEN ApplyFill(open_orders[n], taken[n])
                         ELSE open_orders[n]]
             done == {n \in filled : after[n].remaining = 0}
         IN  /\ Store(after, ids_by_token, ids_by_session, stale \cup done, done)
             /\ \E nth \in [1 .. Cardinality(filled) -> filled] :
                 /\ \A i, j \in DOMAIN nth : i < j => nth[i] < nth[j]
                 /\ reply' = [i \in DOMAIN nth |->
                     TradeEvent(nth[i], after[nth[i]], next_activity + i - 1,
                         (next_fill + i - 1) % U32,
                         BestPrice(view, Opposite(after[nth[i]].side)), taken[nth[i]])]
             /\ next_activity' = next_activity + Cardinality(filled)
  BY <1>0 DEF Outcome, Given, Crossed, Stale
<1> DEFINE taken == [n \in takers("buy") \cup takers("sell") |->
                       Least(IF n \in takers("buy") THEN buying[n] ELSE selling[n],
                             open_orders[n].remaining)]
           filled == {n \in DOMAIN taken : taken[n] > 0}
           after == [n \in DOMAIN open_orders |->
                       IF n \in filled THEN ApplyFill(open_orders[n], taken[n])
                       ELSE open_orders[n]]
           done == {n \in filled : after[n].remaining = 0}
<1>2. /\ Store(after, ids_by_token, ids_by_session, stale \cup done, done)
      /\ next_activity' = next_activity + Cardinality(filled)
  BY <1>1
<1>3. PICK nth \in [1 .. Cardinality(filled) -> filled] :
        /\ \A i, j \in DOMAIN nth : i < j => nth[i] < nth[j]
        /\ reply' = [i \in DOMAIN nth |->
            TradeEvent(nth[i], after[nth[i]], next_activity + i - 1, (next_fill + i - 1) % U32,
                BestPrice(view, Opposite(after[nth[i]].side)), taken[nth[i]])]
  BY <1>1
<1>4. /\ buying \in [takers("buy") -> 0 .. TopQuantity(view, "sell")]
      /\ selling \in [takers("sell") -> 0 .. TopQuantity(view, "buy")]
  BY <1>1 DEF Leftovers
<1>5. takers("buy") \subseteq DOMAIN open_orders /\ takers("sell") \subseteq DOMAIN open_orders
  OBVIOUS
<1>6. stale = {}
  BY DEF IInv, NoOrphans
<1> HIDE DEF takers
<1>7. \A n \in DOMAIN open_orders : /\ open_orders[n] \in Order
                                    /\ open_orders[n].remaining \in Nat \ {0}
                                    /\ open_orders[n].remaining \in Quantity
  BY Disassemble, BookAssumption DEF Sound, IsTable, Order, Quantity
<1>8. ASSUME NEW n \in DOMAIN taken
      PROVE  n \in DOMAIN open_orders /\ taken[n] \in 0 .. open_orders[n].remaining
  <2> DEFINE offered == IF n \in takers("buy") THEN buying[n] ELSE selling[n]
  <2>1. n \in DOMAIN open_orders /\ taken[n] = Least(offered, open_orders[n].remaining)
    BY <1>5
  <2>2. offered \in Nat
    BY <1>4
  <2> HIDE DEF offered, taken
  <2> QED
    BY <2>1, <2>2, <1>7, LeastType
<1> HIDE DEF taken
<1>9. filled \subseteq DOMAIN open_orders /\ filled \subseteq DOMAIN taken
  BY <1>8
<1>10. ASSUME NEW n \in filled
       PROVE  /\ taken[n] \in Quantity \ {0} /\ taken[n] \in Nat \ {0}
              /\ taken[n] <= open_orders[n].remaining
  <2>1. taken[n] \in 0 .. open_orders[n].remaining /\ taken[n] > 0
    BY <1>8, <1>9
  <2> HIDE DEF filled
  <2> QED
    BY <2>1, <1>7, <1>9, BookAssumption DEF Quantity
<1> DEFINE left(n) == IF n \in filled THEN open_orders[n].remaining - taken[n]
                      ELSE open_orders[n].remaining
<1>11. ASSUME NEW n \in DOMAIN open_orders
       PROVE  /\ after[n].session = open_orders[n].session
              /\ after[n].remaining = left(n)
  <2>1. CASE n \in filled
    <3>1. after[n] = ApplyFill(open_orders[n], taken[n]) /\ left(n) = open_orders[n].remaining - taken[n]
      BY <2>1
    <3>2. taken[n] \in 0 .. open_orders[n].remaining
      BY <2>1, <1>8
    <3> HIDE DEF after, filled, left
    <3> QED
      BY <3>1, <3>2, <1>7, ApplyFillType
  <2>2. CASE n \notin filled
    BY <2>2
  <2> QED
    BY <2>1, <2>2
<1>12. DOMAIN after = DOMAIN open_orders
  OBVIOUS
<1>13. /\ DOMAIN open_orders' = DOMAIN after \ done
       /\ \A n \in DOMAIN after \ done : open_orders'[n] = after[n]
  <2>1. Store(after, ids_by_token, ids_by_session, done, done)
    BY <1>2, <1>6
  <2> HIDE DEF after, done
  <2> QED
    BY <2>1, StoreShows
<1>14. DOMAIN after \ done = {n \in DOMAIN open_orders : left(n) > 0}
  <2>1. ASSUME NEW n \in DOMAIN open_orders PROVE n \notin done <=> left(n) > 0
    <3>1. CASE n \in filled
      <4>1. left(n) = open_orders[n].remaining - taken[n] /\ (n \in done <=> after[n].remaining = 0)
        BY <3>1
      <4> HIDE DEF left, after, done, filled
      <4> QED
        BY <4>1, <3>1, <1>7, <1>10, <1>11
    <3>2. CASE n \notin filled
      <4>1. left(n) = open_orders[n].remaining /\ n \notin done
        BY <3>2
      <4> HIDE DEF left, done
      <4> QED
        BY <4>1, <1>7
    <3> QED
      BY <3>1, <3>2
  <2> HIDE DEF left, done, after
  <2> QED
    BY <2>1, <1>12
<1> HIDE DEF after, done, stale, indexed
<1>15. Open' = [n \in {m \in DOMAIN open_orders : left(m) > 0} |->
                [session |-> open_orders[n].session, left |-> left(n)]]
  <2> HIDE DEF left
  <2>1. DOMAIN open_orders' = {m \in DOMAIN open_orders : left(m) > 0}
    BY <1>13, <1>14
  <2>2. \A n \in DOMAIN open_orders' : /\ open_orders'[n].session = open_orders[n].session
                                       /\ open_orders'[n].remaining = left(n)
    BY <2>1, <1>11, <1>13, <1>14
  <2> QED
    BY <2>1, <2>2 DEF Open
<1>16. CASE filled = {}
  <2>1. Cardinality(filled) = 0
    BY <1>16, FS_EmptySet
  <2>2. next_activity' = next_activity
    BY <2>1, <1>2, Disassemble
  <2>3. DOMAIN nth = {}
    BY <2>1, <1>3
  <2>4. reply' = <<>>
    BY <2>3, <1>3
  <2>5. Heard' = <<>>
    BY <2>4, HeardSome
  <2>6. Open' = Open
    <3>1. \A n \in DOMAIN open_orders : left(n) = open_orders[n].remaining /\ left(n) > 0
      BY <1>7, <1>16
    <3> HIDE DEF left
    <3> QED
      BY <3>1, <1>15 DEF Open
  <2> QED
    BY <2>2, <2>5, <2>6, Passes
<1>17. CASE filled # {}
  <2>1. PICK S : S = filled
    OBVIOUS
  <2>2. PICK traded : traded = [n \in S |-> taken[n]]
    OBVIOUS
  <2>3. /\ S \in SUBSET DOMAIN Open /\ S # {} /\ traded \in [S -> Quantity \ {0}]
        /\ \A n \in S : traded[n] <= Open[n].left
    BY <2>1, <2>2, <1>9, <1>10, <1>17 DEF Open
  <2>4. Open' = Shared(Open, S, traded)
    <3>1. /\ DOMAIN Open = DOMAIN open_orders
          /\ \A n \in DOMAIN Open :
                /\ Open[n] = [session |-> open_orders[n].session, left |-> open_orders[n].remaining]
                /\ left(n) = IF n \in S THEN Open[n].left - traded[n] ELSE Open[n].left
                /\ [Open[n] EXCEPT !.left = left(n)] =
                        [session |-> open_orders[n].session, left |-> left(n)]
      BY <2>1, <2>2 DEF Open
    <3> HIDE DEF left
    <3>2. Shared(Open, S, traded) =
            [n \in {m \in DOMAIN Open : left(m) > 0} |-> [Open[n] EXCEPT !.left = left(n)]]
      BY <3>1 DEF Shared
    <3>3. [n \in {m \in DOMAIN Open : left(m) > 0} |-> [Open[n] EXCEPT !.left = left(n)]] =
            [n \in {m \in DOMAIN open_orders : left(m) > 0} |->
                [session |-> open_orders[n].session, left |-> left(n)]]
      BY <3>1
    <3> QED
      BY <3>2, <3>3, <1>15
  <2>5. /\ nth \in [1 .. Cardinality(S) -> S]
        /\ \A i, j \in DOMAIN nth : i < j => nth[i] < nth[j]
        /\ next_activity' = next_activity + Cardinality(S)
    BY <2>1, <1>2, <1>3
  <2>6. Heard' = Trades(Open, nth, traded, next_activity)
    <3>1. DOMAIN reply' = DOMAIN nth
      BY <1>3
    <3>2. ASSUME NEW i \in DOMAIN nth
          PROVE  Said(reply'[i]) = Life!Event("trade", nth[i], Open[nth[i]].session,
                                              traded[nth[i]], next_activity + i - 1)
      <4>1. PICK n \in S : n = nth[i]
        BY <2>5
      <4>2. PICK order : order = after[n]
        OBVIOUS
      <4>3. reply'[i] = TradeEvent(n, order, next_activity + i - 1, (next_fill + i - 1) % U32,
                                   BestPrice(view, Opposite(order.side)), taken[n])
        BY <4>1, <4>2, <1>3
      <4>4. Said(reply'[i]) = Life!Event("trade", n, order.session, taken[n], next_activity + i - 1)
        BY <4>3, SaidTrade
      <4>5. order.session = Open[n].session /\ taken[n] = traded[n]
        BY <4>1, <4>2, <2>1, <2>2, <1>9, <1>11 DEF Open
      <4> QED
        BY <4>1, <4>4, <4>5
    <3> QED
      BY <3>1, <3>2 DEF Heard, Trades
  <2> QED
    BY <2>3, <2>4, <2>5, <2>6, Matches
<1> QED
  BY <1>16, <1>17

-----------------------------------------------------------------------------
(* Sessions going away.                                                    *)

LEMMA DropOrdersShows ==
    ASSUME IInv, Own, NEW s \in Sessions, DropOrders(s)
    PROVE  Life!Next
<1>1. PICK gone : gone = ids_by_session[s] \cap DOMAIN open_orders
  OBVIOUS
<1>2. /\ Store(open_orders, ids_by_token, ids_by_session, gone, gone)
      /\ reply' = <<>> /\ UNCHANGED <<next_order, next_activity>>
  BY <1>1 DEF DropOrders, counters
<1>3. /\ DOMAIN open_orders' = DOMAIN open_orders \ gone
      /\ \A n \in DOMAIN open_orders \ gone : open_orders'[n] = open_orders[n]
  BY <1>2, StoreShows
<1>4. \A n \in DOMAIN open_orders : n \in gone <=> open_orders[n].session = s
  BY <1>1, Disassemble DEF Own, OwnIn
<1>5. Open' = [n \in {m \in DOMAIN Open : Open[m].session # s} |-> Open[n]]
  BY <1>3, <1>4 DEF Open
<1>6. Heard' = <<>>
  BY <1>2, HeardSome
<1> QED
  BY <1>2, <1>5, <1>6, Drops

-----------------------------------------------------------------------------
(* Every call keeps the indexes apart.                                     *)

LEMMA SameTablesKeepOwn == Own /\ UNCHANGED tables => Own'
  BY DEF Own, tables

LEMMA FillStoredKeepsOwn ==
    ASSUME NEW type, NEW n, NEW view, NEW orders, NEW by_token, NEW by_session,
           n \in DOMAIN orders, orders[n] \in Order, IsBook(view),
           OwnIn(orders, by_token, by_session),
           FillStored(type, n, view, orders, by_token, by_session)
    PROVE  Own'
<1> DEFINE quantity == Least(Available(view, orders[n]), orders[n].remaining)
           filled == ApplyFill(orders[n], quantity)
           gone == IF quantity > 0 /\ filled.remaining = 0 THEN {n} ELSE {}
           after == [orders EXCEPT ![n] = filled]
<1>1. Store(after, by_token, by_session, gone, gone)
  BY DEF FillStored
<1>2. filled.session = orders[n].session /\ filled.token = orders[n].token
  <2>1. filled.session = orders[n].session
    BY FillOf
  <2> QED
    BY <2>1 DEF ApplyFill, Order
<1> HIDE DEF filled, gone
<1>3. OwnIn(after, by_token, by_session)
  <2>1. DOMAIN after = DOMAIN orders
    OBVIOUS
  <2>2. ASSUME NEW m \in DOMAIN orders
        PROVE  after[m].session = orders[m].session /\ after[m].token = orders[m].token
    BY <1>2
  <2> HIDE DEF after
  <2> QED
    BY <2>1, <2>2 DEF OwnIn
<1> HIDE DEF after
<1> QED
  BY <1>1, <1>3, StoreKeepsOwn

LEMMA RestDayOrderKeepsOwn ==
    ASSUME IInv, Own, NEW s \in Sessions, NEW order, Fresh(s, order), RestDayOrder(s, order)
    PROVE  Own'
<1>1. PICK orders : orders = Put(open_orders, next_order, order)
  OBVIOUS
<1>2. PICK by_session : by_session = [ids_by_session EXCEPT ![s] = @ \cup {next_order}]
  OBVIOUS
<1>3. PICK by_token : by_token = [ids_by_token EXCEPT ![order.token] = @ \cup {next_order}]
  OBVIOUS
<1>4. FillStored("confirmed", next_order, BookOf(order.token), orders, by_token, by_session)
  BY <1>1, <1>2, <1>3 DEF RestDayOrder
<1>5. next_order \in DOMAIN orders /\ orders[next_order] = order
  BY <1>1 DEF Put
<1>6. \A m \in DOMAIN orders : m # next_order => m \in DOMAIN open_orders /\ orders[m] = open_orders[m]
  BY <1>1 DEF Put
<1>7. \A r \in Sessions : next_order \notin ids_by_session[r]
  <2>1. ids_by_session \in [Sessions -> SUBSET (FirstOrder .. next_order - 1)] /\ next_order \in Nat
    BY DEF IInv, StateOK
  <2> QED
    BY <2>1, EngineAssumption
<1>8. ASSUME NEW r \in Sessions, NEW m \in by_session[r] \cap DOMAIN orders
      PROVE  orders[m].session = r
  <2>1. ids_by_session \in [Sessions -> SUBSET Numbers]
    BY Disassemble
  <2>2. CASE m = next_order
    <3>1. r = s
      BY <2>1, <2>2, <1>2, <1>7
    <3> QED
      BY <2>2, <3>1, <1>5 DEF Fresh
  <2>3. CASE m # next_order
    <3>1. m \in ids_by_session[r]
      BY <2>1, <2>3, <1>2
    <3> QED
      BY <2>3, <3>1, <1>6 DEF Own, OwnIn
  <2> QED
    BY <2>2, <2>3
<1>10. ASSUME NEW r \in Tokens, NEW m \in by_token[r] \cap DOMAIN orders
       PROVE  orders[m].token = r
  <2>1. ids_by_token \in [Tokens -> SUBSET Numbers]
    BY Disassemble
  <2>2. CASE m = next_order
    <3>1. next_order \notin ids_by_token[r]
      BY <2>1, EngineAssumption DEF Numbers, IInv, StateOK
    <3>2. r = order.token
      BY <2>1, <2>2, <3>1, <1>3
    <3> QED
      BY <2>2, <3>2, <1>5
  <2>3. CASE m # next_order
    <3>1. m \in ids_by_token[r]
      BY <2>1, <2>3, <1>3
    <3> QED
      BY <2>3, <3>1, <1>6 DEF Own, OwnIn
  <2> QED
    BY <2>2, <2>3
<1>11. OwnIn(orders, by_token, by_session)
  BY <1>8, <1>10 DEF OwnIn
<1>9. order \in Order /\ IsBook(BookOf(order.token))
  BY BookOfType DEF Fresh, IInv
<1> QED
  BY <1>4, <1>5, <1>9, <1>11, FillStoredKeepsOwn

LEMMA NewOrderKeepsOwn ==
    ASSUME IInv, Own, NEW s \in Sessions, NEW token \in Tokens, NEW side \in Side,
           NEW price \in Prices, NEW volume \in Volumes, NewOrder(s, token, side, price, volume)
    PROVE  Own'
<1> DEFINE order == [session |-> s, token |-> token, side |-> side, price |-> price,
                     volume |-> volume, remaining |-> volume, filled |-> 0]
<1>1. FillAtOnce(s, order) \/ ImmediateOrCancel(s, order) \/ RestDayOrder(s, order)
  BY DEF NewOrder
<1>2. Fresh(s, order)
  <2>1. volume \in Quantity \ {0} /\ 0 \in Quantity
    BY EngineAssumption, BookAssumption DEF Quantity
  <2> QED
    BY <2>1 DEF Fresh, Order
<1> HIDE DEF order
<1>3. CASE FillAtOnce(s, order)
  BY <1>3, SameTablesKeepOwn DEF FillAtOnce
<1>4. CASE ImmediateOrCancel(s, order)
  BY <1>4, SameTablesKeepOwn DEF ImmediateOrCancel
<1>5. CASE RestDayOrder(s, order)
  BY <1>2, <1>5, RestDayOrderKeepsOwn
<1> QED
  BY <1>1, <1>3, <1>4, <1>5

LEMMA ModifyOrderKeepsOwn ==
    ASSUME IInv, Own, NEW s \in Sessions, NEW n, NEW price \in Prices, NEW volume \in Volumes,
           NEW remaining \in Claims, NEW claimed \in Claims,
           ModifyOrder(s, n, price, volume, remaining, claimed)
    PROVE  Own'
<1>1. PICK left : left = IF remaining = 0 THEN volume ELSE Least(remaining, volume)
  OBVIOUS
<1>2. left \in Quantity /\ volume \in Quantity /\ claimed \in Quantity
  BY <1>1, EngineAssumption, BookAssumption DEF Least, Quantity
<1>3. PICK live : live = [open_orders[n] EXCEPT !.price = price, !.volume = volume,
                                                !.filled = claimed, !.remaining = left]
  OBVIOUS
<1>4. PICK orders : orders = [open_orders EXCEPT ![n] = live]
  OBVIOUS
<1>5. /\ n \in DOMAIN open_orders
      /\ FillStored("modified", n, BookOf(live.token), orders, ids_by_token, ids_by_session)
  BY <1>1, <1>3, <1>4 DEF ModifyOrder
<1>6. open_orders[n] \in Order
  BY <1>5, Disassemble DEF Sound, IsTable
<1>7. /\ live \in Order /\ live.session = open_orders[n].session
      /\ live.token = open_orders[n].token
  BY <1>2, <1>3, <1>6 DEF Order
<1>8. n \in DOMAIN orders /\ orders[n] \in Order
  BY <1>4, <1>5, <1>7
<1>9. OwnIn(orders, ids_by_token, ids_by_session)
  BY <1>4, <1>5, <1>7 DEF Own, OwnIn
<1>10. IsBook(BookOf(live.token))
  BY BookOfType DEF IInv
<1> QED
  BY <1>5, <1>8, <1>9, <1>10, FillStoredKeepsOwn

LEMMA FillRestingKeepsOwn ==
    ASSUME IInv, Own, NEW t \in Tokens, NEW view, IsBook(view), FillResting(t, view)
    PROVE  Own'
<1>1. PICK taken, filled, gone, freed :
        Store([n \in DOMAIN open_orders |->
                IF n \in filled THEN ApplyFill(open_orders[n], taken[n]) ELSE open_orders[n]],
              ids_by_token, ids_by_session, gone, freed)
  <2> DEFINE indexed == ids_by_token[t] \cap DOMAIN open_orders
             stale == {n \in indexed : worker[open_orders[n].session] = "expired"}
             takers(side) == {n \in indexed \ stale : /\ open_orders[n].side = side
                                                      /\ Marketable(view, open_orders[n])}
  <2>0. PICK buying \in Leftovers(Crossed(t, view, "buy"), TopQuantity(view, "sell")),
             selling \in Leftovers(Crossed(t, view, "sell"), TopQuantity(view, "buy")) :
               Outcome(t, view, Given(t, view, buying, selling))
    BY FillRestingUnfolds
  <2>1. /\ buying \in Leftovers(takers("buy"), TopQuantity(view, "sell"))
        /\ selling \in Leftovers(takers("sell"), TopQuantity(view, "buy"))
        /\ LET taken == [n \in takers("buy") \cup takers("sell") |->
                           Least(IF n \in takers("buy") THEN buying[n] ELSE selling[n],
                                 open_orders[n].remaining)]
               filled == {n \in DOMAIN taken : taken[n] > 0}
               after == [n \in DOMAIN open_orders |->
                           IF n \in filled THEN ApplyFill(open_orders[n], taken[n])
                           ELSE open_orders[n]]
               done == {n \in filled : after[n].remaining = 0}
           IN  Store(after, ids_by_token, ids_by_session, stale \cup done, done)
    BY <2>0 DEF Outcome, Given, Crossed, Stale
  <2> DEFINE taken == [n \in takers("buy") \cup takers("sell") |->
                         Least(IF n \in takers("buy") THEN buying[n] ELSE selling[n],
                               open_orders[n].remaining)]
             filled == {n \in DOMAIN taken : taken[n] > 0}
             after == [n \in DOMAIN open_orders |->
                         IF n \in filled THEN ApplyFill(open_orders[n], taken[n])
                         ELSE open_orders[n]]
             done == {n \in filled : after[n].remaining = 0}
             gone == stale \cup done
  <2>2. Store(after, ids_by_token, ids_by_session, gone, done)
    BY <2>1
  <2> HIDE DEF taken, filled, done, gone
  <2> QED
    BY <2>2
<1>2. PICK after : after = [n \in DOMAIN open_orders |->
                IF n \in filled THEN ApplyFill(open_orders[n], taken[n]) ELSE open_orders[n]]
  OBVIOUS
<1>3. \A n \in DOMAIN open_orders : open_orders[n] \in Order
  BY Disassemble DEF Sound, IsTable
<1>4. DOMAIN after = DOMAIN open_orders
      /\ \A n \in DOMAIN after : /\ after[n].session = open_orders[n].session
                                 /\ after[n].token = open_orders[n].token
  BY <1>2, <1>3 DEF ApplyFill, Order
<1>5. Store(after, ids_by_token, ids_by_session, gone, freed)
  BY <1>1, <1>2
<1>6. OwnIn(after, ids_by_token, ids_by_session)
  BY <1>4 DEF Own, OwnIn
<1> QED
  BY <1>5, <1>6, StoreKeepsOwn

-----------------------------------------------------------------------------
(* Every step of the engine is a step of OrderLife.                        *)

LEMMA RequestShows ==
    ASSUME IInv, Own, NEW s \in Sessions, Request(s)
    PROVE  Life!Next /\ Own'
<1>1. CASE RefuseEntry(s)
  BY <1>1, NothingToldOrRefused, SameTablesKeepOwn DEF RefuseEntry, Refuse
<1>2. ASSUME NEW t \in Tokens, RefuseToken(s, t) PROVE Life!Next /\ Own'
  BY <1>2, NothingToldOrRefused, SameTablesKeepOwn DEF RefuseToken, Refuse
<1>3. ASSUME NEW t \in Tokens, NEW side \in Side, NEW price \in Prices,
             NEW volume \in Volumes, NewOrder(s, t, side, price, volume)
      PROVE  Life!Next /\ Own'
  BY <1>3, NewOrderShows, NewOrderKeepsOwn
<1>4. ASSUME NEW n, NEW type, NEW error, RefuseUpdate(s, n, type, error)
      PROVE  Life!Next /\ Own'
  BY <1>4, NothingToldOrRefused, SameTablesKeepOwn DEF RefuseUpdate, Refuse
<1>5. ASSUME NEW n, NEW price \in Prices, NEW volume \in Volumes,
             NEW remaining \in Claims, NEW claimed \in Claims,
             ModifyOrder(s, n, price, volume, remaining, claimed)
      PROVE  Life!Next /\ Own'
  BY <1>5, ModifyOrderShows, ModifyOrderKeepsOwn
<1>6. ASSUME NEW n, CancelOrder(s, n) PROVE Life!Next /\ Own'
  <2>1. Store(open_orders, ids_by_token, ids_by_session, {n}, {})
    BY <1>6 DEF CancelOrder
  <2>2. Own'
    BY <2>1, StoreKeepsOwn DEF Own
  <2> QED
    BY <1>6, <2>2, CancelOrderShows
<1> QED
  BY <1>1, <1>2, <1>3, <1>4, <1>5, <1>6 DEF Request

LEMMA BookUpdateShows ==
    ASSUME IInv, Own, NEW t \in Tokens, NEW view, IsBook(view), BookUpdate(t, view)
    PROVE  Life!Next /\ Own'
  BY FillRestingShows, FillRestingKeepsOwn DEF BookUpdate

LEMMA MarketMessageShows ==
    ASSUME IInv, Own, NEW t \in Tokens, MarketMessage(t)
    PROVE  Life!Next /\ Own'
<1>1. CASE IgnoreToken(t)
  BY <1>1, NothingToldOrRefused, SameTablesKeepOwn DEF IgnoreToken
<1>2. PICK view : view = BookOf(t)
  OBVIOUS
<1>3. IsBook(view)
  BY <1>2, BookOfType DEF IInv
<1>4. ASSUME NEW price \in Prices, NEW quantity \in Ticks, NEW id \in MarketIds,
             NEW side \in Side, TbtOrder(t, id, side, price, quantity)
      PROVE  Life!Next /\ Own'
  <2>1. /\ IsBook(OnNew(view, id, side, price, quantity))
        /\ IsBook(OnModify(view, id, side, price, quantity))
        /\ IsBook(OnCancel(view, id, side, price, quantity))
    BY <1>3, EngineAssumption, HandlersKeepBook
  <2>2. \/ BookUpdate(t, OnNew(view, id, side, price, quantity))
        \/ BookUpdate(t, OnModify(view, id, side, price, quantity))
        \/ BookUpdate(t, OnCancel(view, id, side, price, quantity))
    BY <1>2, <1>4 DEF TbtOrder
  <2> QED
    BY <2>1, <2>2, BookUpdateShows
<1>5. ASSUME NEW price \in Prices, NEW quantity \in Ticks,
             NEW id \in MarketIds, NEW sell_id \in MarketIds,
             TbtTrade(t, id, sell_id, price, quantity)
      PROVE  Life!Next /\ Own'
  <2>1. PICK side \in Side : TRUE
    BY DEF Side
  <2>2. IsBook(OnTrade(view, id, sell_id, price, quantity))
    BY <1>3, <2>1, EngineAssumption, HandlersKeepBook
  <2>3. BookUpdate(t, OnTrade(view, id, sell_id, price, quantity))
    BY <1>2, <1>5 DEF TbtTrade
  <2> QED
    BY <2>2, <2>3, BookUpdateShows
<1> QED
  BY <1>1, <1>4, <1>5 DEF MarketMessage

LEMMA CloseShows ==
    ASSUME IInv, Own, NEW s \in Sessions, Close(s)
    PROVE  Life!Next /\ Own'
<1>1. CASE DropOrders(s)
  <2>1. PICK gone : Store(open_orders, ids_by_token, ids_by_session, gone, gone)
    BY <1>1 DEF DropOrders
  <2>2. Own'
    BY <2>1, StoreKeepsOwn DEF Own
  <2> QED
    BY <1>1, <2>2, DropOrdersShows
<1>2. CASE Expire(s)
  BY <1>2, NothingToldOrRefused, SameTablesKeepOwn DEF Expire
<1> QED
  BY <1>1, <1>2 DEF Close, WriteFailed, WorkerExit

LEMMA NextShows ==
    ASSUME IInv, Own, [Next]_vars
    PROVE  [Life!Next]_(Life!vars) /\ Own'
<1>1. ASSUME NEW s \in Sessions, Request(s) PROVE Life!Next /\ Own'
  BY <1>1, RequestShows
<1>2. ASSUME NEW s \in Sessions, Close(s) PROVE Life!Next /\ Own'
  BY <1>2, CloseShows
<1>3. ASSUME NEW t \in Tokens, MarketMessage(t) PROVE Life!Next /\ Own'
  BY <1>3, MarketMessageShows
<1>4. CASE UNCHANGED vars
  <2>1. UNCHANGED <<open_orders, next_order, next_activity, reply, tables>>
    BY <1>4 DEF vars, tables, counters
  <2>2. UNCHANGED Life!vars
    BY <2>1 DEF Life!vars
  <2> QED
    BY <2>1, <2>2, SameTablesKeepOwn
<1> QED
  BY <1>1, <1>2, <1>3, <1>4 DEF Next

LEMMA InitShows == Init => Life!Init /\ Own
<1> SUFFICES ASSUME Init PROVE Life!Init /\ Own
  OBVIOUS
<1>1. DOMAIN open_orders = {} /\ reply = <<>> /\ next_order = FirstOrder /\ next_activity = 1
  BY DEF Init, Empty
<1>2. Own
  BY <1>1 DEF Own, OwnIn
<1>3. Life!Init
  BY <1>1 DEF Life!Init
<1> QED
  BY <1>2, <1>3

\* The refinement: whatever clients, market data and threads do, in whatever
\* order, every call of the engine is one OrderLife allows.
THEOREM EngineKeepsLife == Spec => LifeKept
<1>1. Spec => []IInv
  BY Invariance
<1>2. Init => Life!Init /\ Own
  BY InitShows
<1>3. IInv /\ Own /\ [Next]_vars => [Life!Next]_(Life!vars) /\ Own'
  BY NextShows
<1> QED
  BY <1>1, <1>2, <1>3, PTL DEF Spec, LifeKept, Life!Spec

-----------------------------------------------------------------------------
(* Sharing the top of a book.                                              *)

\* The numbers of a set before n, and up to n.
Before(S, n) == {m \in S : m < n}
Upto(S, n) == {m \in S : m <= n}

LEMMA Ranks ==
    ASSUME NEW S \in SUBSET Nat, NEW n \in S
    PROVE  /\ Before(S, n) \in SUBSET S /\ \A m \in Before(S, n) : m < n
           /\ Upto(S, n) \in SUBSET S /\ n \in Upto(S, n)
           /\ Upto(S, n) \ {n} = Before(S, n)
           /\ \A m \in Before(S, n) :
                (\A x \in Before(S, n) : x <= m) => Upto(S, m) = Before(S, n)
           /\ \A m \in S : n < m => Upto(S, n) \in SUBSET Before(S, m)
           /\ (\A x \in S : x <= n) => Upto(S, n) = S
<1>1. /\ Before(S, n) \in SUBSET S /\ \A m \in Before(S, n) : m < n
      /\ Upto(S, n) \in SUBSET S /\ n \in Upto(S, n)
  BY DEF Before, Upto
<1>2. Upto(S, n) \ {n} = Before(S, n)
  <2>1. \A m \in S : (m <= n /\ m # n) <=> m < n
    OBVIOUS
  <2> QED BY <2>1 DEF Before, Upto
<1>3. ASSUME NEW m \in Before(S, n), \A x \in Before(S, n) : x <= m
      PROVE  Upto(S, m) = Before(S, n)
  <2>1. m \in S /\ m < n
    BY DEF Before
  <2>2. ASSUME NEW x \in S PROVE x <= m <=> x < n
    <3>1. x < n => x \in Before(S, n)
      BY DEF Before
    <3> QED BY <3>1, <2>1, <1>3
  <2> QED BY <2>2 DEF Before, Upto
<1>4. ASSUME NEW m \in S, n < m PROVE Upto(S, n) \in SUBSET Before(S, m)
  <2>1. \A x \in S : x <= n => x < m
    BY <1>4
  <2> QED BY <2>1 DEF Before, Upto
<1>5. (\A x \in S : x <= n) => Upto(S, n) = S
  BY DEF Upto
<1> QED BY <1>1, <1>2, <1>3, <1>4, <1>5

LEMMA SumParts ==
    ASSUME NEW f, NEW S, IsFiniteSet(S), \A x \in S : f[x] \in Nat
    PROVE  \A T \in SUBSET S : \A U \in SUBSET T :
                /\ SumFunctionOnSet(f, T) = SumFunctionOnSet(f, U) + SumFunctionOnSet(f, T \ U)
                /\ SumFunctionOnSet(f, T \ U) \in Nat
<1> SUFFICES ASSUME NEW T \in SUBSET S, NEW U \in SUBSET T
             PROVE  /\ SumFunctionOnSet(f, T) =
                            SumFunctionOnSet(f, U) + SumFunctionOnSet(f, T \ U)
                    /\ SumFunctionOnSet(f, T \ U) \in Nat
  OBVIOUS
<1>1. IsFiniteSet(T) /\ \A x \in T : f[x] \in Int
  BY FS_Subset
<1>2. IsFiniteSet(T \ U) /\ \A x \in T \ U : f[x] \in Nat
  BY <1>1, FS_Subset
<1>3. SumFunctionOnSet(f, T) = SumFunctionOnSet(f, U) + SumFunctionOnSet(f, T \ U)
  BY <1>1, SumSplit
<1> QED BY <1>2, <1>3, SumNat

\* What the loop over the takers hands out: each finds what the ones before it
\* left, so all together take no more than the top, and one that is not filled
\* has taken the last of it.
\* What the orders take of what they find; and that they share a top so, the
\* first ones first.
TakenFrom(takers, left, taken) ==
    \A n \in takers : /\ open_orders[n].remaining \in Nat
                      /\ taken[n] = Least(left[n], open_orders[n].remaining)
SharedOut(takers, top, taken) ==
    /\ SumFunctionOnSet(taken, takers) <= top
    /\ \A n \in takers : taken[n] < open_orders[n].remaining =>
            /\ SumFunctionOnSet(taken, takers) = top
            /\ \A m \in takers : n < m => taken[m] = 0

LEMMA LeftoversShare ==
    ASSUME NEW b \in Nat, NEW takers, takers \in SUBSET (0 .. b), NEW top \in Nat,
           NEW left, left \in Leftovers(takers, top), NEW taken,
           TakenFrom(takers, left, taken)
    PROVE  SharedOut(takers, top, taken)
<1>10. \A n \in takers : /\ open_orders[n].remaining \in Nat
                           /\ taken[n] = Least(left[n], open_orders[n].remaining)
  BY DEF TakenFrom
<1> DEFINE Sum(S) == SumFunctionOnSet(taken, S)
<1>1. /\ left \in [takers -> 0 .. top]
      /\ \A n \in takers :
            LET m == Max(Before(takers, n))
            IN  left[n] = IF Before(takers, n) = {} THEN top
                          ELSE left[m] - Least(left[m], open_orders[m].remaining)
  BY DEF Leftovers, Before
<1>0. takers \in SUBSET Nat
  OBVIOUS
<1>9. \A n \in takers :
        Before(takers, n) \in SUBSET takers /\ Upto(takers, n) \in SUBSET takers
  BY <1>0, Ranks
<1>2. \A n \in takers : left[n] \in Nat /\ taken[n] \in 0 .. left[n] /\ taken[n] \in Nat
  <2>1. ASSUME NEW n \in takers
        PROVE  left[n] \in Nat /\ taken[n] \in 0 .. left[n] /\ taken[n] \in Nat
    <3>1. left[n] \in Nat /\ open_orders[n].remaining \in Nat
      BY <1>1, <1>10
    <3>2. taken[n] = Least(left[n], open_orders[n].remaining)
      BY <1>10
    <3> QED BY <3>1, <3>2 DEF Least
  <2> QED BY <2>1
<1>3. \A S \in SUBSET takers : IsFiniteSet(S) /\ Sum(S) \in Nat
  <2>1. IsFiniteSet(takers)
    <3>1. 0 \in Int /\ b \in Int
      OBVIOUS
    <3>2. IsFiniteSet(0 .. b)
      BY <3>1, FS_Interval
    <3> QED BY <3>2, FS_Subset
  <2>2. ASSUME NEW S \in SUBSET takers
        PROVE  IsFiniteSet(S) /\ Sum(S) \in Nat
    <3>1. IsFiniteSet(S) /\ \A x \in S : taken[x] \in Nat
      BY <2>1, <1>2, FS_Subset
    <3> QED BY <3>1, SumNat
  <2> QED BY <2>2
<1>4. \A n \in takers : Sum(Upto(takers, n)) = taken[n] + Sum(Before(takers, n))
  <2>1. ASSUME NEW n \in takers PROVE Sum(Upto(takers, n)) = taken[n] + Sum(Before(takers, n))
    <3>1. Upto(takers, n) \in SUBSET takers /\ n \in Upto(takers, n) /\ Upto(takers, n) \ {n} = Before(takers, n)
      BY <1>0, Ranks
    <3>2. IsFiniteSet(Upto(takers, n)) /\ \A x \in Upto(takers, n) : taken[x] \in Int
      <4>1. IsFiniteSet(Upto(takers, n))
        BY <3>1, <1>3
      <4>2. \A x \in Upto(takers, n) : x \in takers
        BY <3>1
      <4>3. \A x \in takers : taken[x] \in Int
        BY <1>2
      <4> QED BY <4>1, <4>2, <4>3
    <3>3. Sum(Upto(takers, n)) = taken[n] + Sum(Upto(takers, n) \ {n})
      BY <3>1, <3>2, SumTakeOut
    <3> QED BY <3>1, <3>3
  <2> QED BY <2>1
<1>5. \A n \in takers : Before(takers, n) # {} =>
        \E m \in Before(takers, n) : /\ Upto(takers, m) = Before(takers, n)
                             /\ left[n] = left[m] - taken[m]
  <2>1. ASSUME NEW n \in takers, Before(takers, n) # {}
        PROVE  \E m \in Before(takers, n) : /\ Upto(takers, m) = Before(takers, n) /\ left[n] = left[m] - taken[m]
    <3>1. PICK S : S = Before(takers, n)
      OBVIOUS
    <3>2. PICK m : m = Max(S)
      OBVIOUS
    <3>3. m \in S /\ \A x \in S : x <= m
      <4>1. S \in SUBSET (0 .. b) /\ S # {}
        BY <2>1, <3>1, <1>9
      <4> QED BY <4>1, <3>2, MaxOfNaturals
    <3>4. Upto(takers, m) = Before(takers, n)
      BY <3>1, <3>3, <1>0, Ranks
    <3>5. left[n] = left[m] - Least(left[m], open_orders[m].remaining)
      BY <2>1, <3>1, <3>2, <1>1
    <3>6. m \in takers
      BY <3>1, <3>3, <1>9
    <3>7. left[n] = left[m] - taken[m]
      BY <3>5, <3>6, <1>10
    <3> QED BY <3>1, <3>3, <3>4, <3>7
  <2> QED BY <2>1
<1>6. \A n \in takers : left[n] + Sum(Before(takers, n)) = top
  <2> DEFINE Bad == {n \in takers : left[n] + Sum(Before(takers, n)) # top}
  <2> SUFFICES ASSUME Bad # {} PROVE FALSE
    OBVIOUS
  <2>1. PICK n \in Bad : \A m \in Bad : n <= m
    <3>1. Bad \in SUBSET Nat
      BY <1>0, Ranks
    <3> HIDE DEF Bad
    <3> QED BY <3>1, MinOfNaturals
  <2>2. n \in takers
    BY <2>1
  <2>3. CASE Before(takers, n) = {}
    <3>1. left[n] = top /\ Sum(Before(takers, n)) = 0
      BY <2>2, <2>3, <1>1, SumEmpty
    <3> HIDE DEF Sum
    <3> QED BY <3>1, <2>1
  <2>4. CASE Before(takers, n) # {}
    <3>1. PICK m \in Before(takers, n) : Upto(takers, m) = Before(takers, n) /\ left[n] = left[m] - taken[m]
      BY <2>2, <2>4, <1>5
    <3>2. m \in takers /\ m < n /\ Before(takers, m) \in SUBSET takers
      <4>1. m \in takers
        BY <2>2, <1>9
      <4> QED BY <2>2, <4>1, <1>0, Ranks
    <3>3. m \notin Bad
      BY <2>1, <2>2, <3>2, <1>0
    <3>4. left[m] + Sum(Before(takers, m)) = top
      BY <3>2, <3>3
    <3>5. Sum(Before(takers, n)) = taken[m] + Sum(Before(takers, m))
      BY <3>1, <3>2, <1>4
    <3>6. left[m] \in Nat /\ taken[m] \in Nat /\ Sum(Before(takers, m)) \in Nat
      BY <3>2, <1>2, <1>3
    <3>7. left[n] + Sum(Before(takers, n)) # top
      BY <2>1
    <3> HIDE DEF Sum
    <3> QED BY <3>1, <3>4, <3>5, <3>6, <3>7
  <2> QED BY <2>3, <2>4
<1>7. Sum(takers) <= top
  <2>1. CASE takers = {}
    BY <2>1, SumEmpty
  <2>2. CASE takers # {}
    <3>1. PICK m : m = Max(takers)
      OBVIOUS
    <3>2. m \in takers /\ \A x \in takers : x <= m
      BY <2>2, <3>1, MaxOfNaturals
    <3>3. Upto(takers, m) = takers
      BY <3>2, <1>0, Ranks
    <3>4. Sum(Before(takers, m)) \in Nat
      BY <3>2, <1>3, <1>9
    <3>5. Sum(takers) = taken[m] + Sum(Before(takers, m)) /\ left[m] + Sum(Before(takers, m)) = top
      BY <3>2, <3>3, <1>4, <1>6
    <3>6. taken[m] \in 0 .. left[m] /\ left[m] \in Nat
      BY <3>2, <1>2
    <3> HIDE DEF Sum
    <3> QED BY <3>4, <3>5, <3>6
  <2> QED BY <2>1, <2>2
<1>8. ASSUME NEW n \in takers, taken[n] < open_orders[n].remaining
      PROVE  Sum(takers) = top /\ \A m \in takers : n < m => taken[m] = 0
  <2>1. taken[n] = left[n]
    <3>1. taken[n] = Least(left[n], open_orders[n].remaining)
      BY <1>10
    <3>2. left[n] \in Nat /\ open_orders[n].remaining \in Nat
      BY <1>2, <1>10
    <3> QED BY <1>8, <3>1, <3>2 DEF Least
  <2>2. Sum(Upto(takers, n)) = top
    BY <2>1, <1>4, <1>6
  <2>3. \A S \in SUBSET takers : \A T \in SUBSET S :
            Sum(S) = Sum(T) + Sum(S \ T) /\ Sum(S \ T) \in Nat
    <3>1. IsFiniteSet(takers) /\ \A x \in takers : taken[x] \in Nat
      BY <1>2, <1>3
    <3> QED BY <3>1, SumParts
  <2>4. Sum(takers) = top
    <3>1. Upto(takers, n) \in SUBSET takers
      BY <1>9
    <3>2. /\ Sum(takers) = Sum(Upto(takers, n)) + Sum(takers \ Upto(takers, n))
          /\ Sum(takers \ Upto(takers, n)) \in Nat /\ Sum(takers) \in Nat
      <4> HIDE DEF Sum
      <4>1. takers \in SUBSET takers
        OBVIOUS
      <4>2. Sum(takers) = Sum(Upto(takers, n)) + Sum(takers \ Upto(takers, n)) /\ Sum(takers \ Upto(takers, n)) \in Nat
        BY <3>1, <4>1, <2>3
      <4> QED BY <4>1, <4>2, <1>3
    <3> HIDE DEF Sum
    <3> QED BY <3>2, <2>2, <1>7
  <2>5. ASSUME NEW m \in takers, n < m PROVE taken[m] = 0
    <3>1. Before(takers, m) \in SUBSET takers /\ Upto(takers, n) \in SUBSET Before(takers, m)
      BY <2>5, <1>0, <1>9, Ranks
    <3>2. Sum(Before(takers, m)) = Sum(Upto(takers, n)) + Sum(Before(takers, m) \ Upto(takers, n)) /\ Sum(Before(takers, m) \ Upto(takers, n)) \in Nat
      <4> HIDE DEF Sum
      <4> QED BY <3>1, <2>3
    <3>3. left[m] + Sum(Before(takers, m)) = top /\ left[m] \in Nat /\ taken[m] \in 0 .. left[m]
      BY <1>2, <1>6
    <3> HIDE DEF Sum
    <3> QED BY <3>2, <3>3, <2>2
  <2> QED BY <2>4, <2>5
<1> QED BY <1>7, <1>8 DEF SharedOut

-----------------------------------------------------------------------------
(* What each call has to show.                                             *)

SharedOnce == market_data => \A t \in DOMAIN books', side \in Side : SharesTop(t, side)

NoneBehind ==
    \A t \in DOMAIN books : books'[t] # books[t] =>
        \A n \in DOMAIN open_orders' : open_orders'[n].token = t => LeftFairly(n)

InFull == \A i \in DOMAIN reply' : reply'[i].type = "confirmed" => Settled(i)

LEMMA TradedFew ==
    ASSUME NEW events
    PROVE  /\ Traded(events, {}) = 0
           /\ \A i : events[i].quantity \in Int => Traded(events, {i}) = events[i].quantity
<1>1. Traded(events, {}) = 0
  BY SumEmpty DEF Traded
<1>2. ASSUME NEW i, events[i].quantity \in Int
      PROVE  Traded(events, {i}) = events[i].quantity
  <2>1. PICK f : f = [j \in {i} |-> events[j].quantity]
    OBVIOUS
  <2>2. f[i] = events[i].quantity
    BY <2>1
  <2>3. SumFunctionOnSet(f, {i}) = f[i]
    BY <2>2, <1>2, SumOne
  <2> QED BY <2>1, <2>2, <2>3 DEF Traded
<1> QED BY <1>1, <1>2

LEMMA NoTradeShares ==
    ASSUME \A i \in DOMAIN reply' : reply'[i].type # "trade"
    PROVE  SharedOnce
<1>1. \A t, side : TradesOn(reply', t, side) = {}
  BY DEF TradesOn
<1> QED BY <1>1 DEF SharedOnce, SharesTop

\* A call that neither trades nor accepts, and leaves the books alone.
LEMMA QuietCall ==
    ASSUME \A i \in DOMAIN reply' : reply'[i].type \notin {"trade", "confirmed"},
           \A t \in DOMAIN books : books'[t] = books[t]
    PROVE  SharedOnce /\ NoneBehind /\ InFull
<1>1. SharedOnce
  BY NoTradeShares
<1>2. NoneBehind
  BY DEF NoneBehind
<1>3. InFull
  BY DEF InFull
<1> QED BY <1>1, <1>2, <1>3

\* The one trade of an order that takes q from the top of its book.
LEMMA OneTradeShares ==
    ASSUME NEW view, IsBook(view), NEW order \in Order,
           NEW q, q = Least(Available(view, order), order.remaining), q # 0,
           order.token \in DOMAIN books' => books'[order.token] = view,
           NEW k \in DOMAIN reply', NEW trade, reply'[k] = trade,
           trade.type = "trade", trade.token = order.token, trade.side = order.side,
           trade.limit = order.price, trade.quantity = q,
           trade.price = BestPrice(view, Opposite(order.side)),
           \A i \in DOMAIN reply' : i # k => reply'[i].type # "trade"
    PROVE  SharedOnce
<1> SUFFICES ASSUME NEW t \in DOMAIN books', NEW side \in Side, TradesOn(reply', t, side) # {}
             PROVE  SharesTop(t, side)
  BY DEF SharedOnce, SharesTop
<1>1. PICK trades : trades = TradesOn(reply', t, side)
  OBVIOUS
<1>2. trades = {k} /\ t = order.token /\ side = order.side
  BY <1>1 DEF TradesOn
<1>3. Available(view, order) \in Nat /\ order.remaining \in Nat
  BY AvailableType, BookAssumption DEF Order, Quantity
<1>4. q \in Nat /\ q <= Available(view, order) /\ Available(view, order) # 0
  BY <1>3 DEF Least
<1>5. Marketable(view, order) /\ Available(view, order) = TopQuantity(view, Opposite(side))
  BY <1>2, <1>4 DEF Available
<1>6. Traded(reply', trades) = q
  <2>1. reply'[k].quantity = q /\ q \in Int
    BY <1>4
  <2>2. Traded(reply', {k}) = reply'[k].quantity
    BY <2>1, TradedFew
  <2> QED BY <2>1, <2>2, <1>2
<1>7. Traded(reply', trades) <= TopQuantity(books'[t], Opposite(side))
  BY <1>2, <1>4, <1>5, <1>6
<1>8. ASSUME NEW i \in trades
      PROVE  /\ reply'[i].price = BestPrice(books'[t], Opposite(side))
             /\ Crosses(side, reply'[i].limit, reply'[i].price)
  <2>1. i = k /\ books'[t] = view
    BY <1>2
  <2>2. Crosses(side, order.price, BestPrice(view, Opposite(side)))
    BY <1>2, <1>5 DEF Marketable
  <2> QED BY <2>1, <2>2, <1>2
<1> QED BY <1>1, <1>7, <1>8 DEF SharesTop

-----------------------------------------------------------------------------
(* New orders.                                                             *)

\* The four replies to an order of `volume` that trades q: the rest stays or
\* is cancelled.
LEMMA ReplySettles ==
    ASSUME NEW n, NEW volume \in Nat \ {0}, NEW q \in 0 .. volume,
           NEW stays \in BOOLEAN, NEW told, NEW trade, NEW away,
           told.type = "confirmed", told.order = n, told.remaining = volume,
           q # 0 => trade.type = "trade" /\ trade.order = n /\ trade.quantity = q,
           ~stays /\ q # volume =>
                away.type = "cancelled" /\ away.order = n /\ away.filled = q,
           reply' = IF q = 0 THEN IF stays THEN <<told>> ELSE <<told, away>>
                    ELSE IF stays \/ q = volume THEN <<told, trade>>
                    ELSE <<told, trade, away>>,
           n \in DOMAIN open_orders' <=> stays /\ q # volume,
           n \in DOMAIN open_orders' => open_orders'[n].remaining = volume - q
    PROVE  InFull
<1>1. ASSUME q # 0
      PROVE  /\ Told(reply', "trade", n) = {2} /\ reply'[2].quantity = q
             /\ Told(reply', "cancelled", n) = IF stays \/ q = volume THEN {} ELSE {3}
             /\ ~stays /\ q # volume => reply'[3].filled = q
             /\ \A i \in DOMAIN reply' : reply'[i].type = "confirmed" => i = 1
             /\ reply'[1] = told
  <2>1. CASE stays \/ q = volume
    <3>1. reply' = <<told, trade>>
      BY <2>1, <1>1
    <3>2. DOMAIN reply' = {1, 2} /\ reply'[1] = told /\ reply'[2] = trade
      BY <3>1
    <3> QED BY <3>2, <2>1, <1>1 DEF Told
  <2>2. CASE ~ (stays \/ q = volume)
    <3>1. reply' = <<told, trade, away>>
      BY <2>2, <1>1
    <3>2. DOMAIN reply' = {1, 2, 3} /\ reply'[1] = told /\ reply'[2] = trade /\ reply'[3] = away
      BY <3>1
    <3> QED BY <3>2, <2>2, <1>1 DEF Told
  <2> QED BY <2>1, <2>2
<1>2. ASSUME q = 0
      PROVE  /\ Told(reply', "trade", n) = {}
             /\ Told(reply', "cancelled", n) = IF stays THEN {} ELSE {2}
             /\ ~stays => reply'[2].filled = q
             /\ \A i \in DOMAIN reply' : reply'[i].type = "confirmed" => i = 1
             /\ reply'[1] = told
  <2>1. CASE stays
    <3>1. reply' = <<told>>
      BY <2>1, <1>2
    <3>2. DOMAIN reply' = {1} /\ reply'[1] = told
      BY <3>1
    <3> QED BY <3>2, <2>1 DEF Told
  <2>2. CASE ~stays
    <3>1. reply' = <<told, away>>
      BY <2>2, <1>2
    <3>2. DOMAIN reply' = {1, 2} /\ reply'[1] = told /\ reply'[2] = away
      BY <3>1
    <3> QED BY <3>2, <2>2, <1>2 DEF Told
  <2> QED BY <2>1, <2>2
<1>3. reply'[1] = told /\ \A i \in DOMAIN reply' : reply'[i].type = "confirmed" => i = 1
  BY <1>1, <1>2
<1>4. Traded(reply', Told(reply', "trade", n)) = q
  <2>1. CASE q = 0
    BY <2>1, <1>2, TradedFew
  <2>2. CASE q # 0
    <3>1. reply'[2].quantity = q /\ q \in Int
      BY <2>2, <1>1
    <3>2. Traded(reply', {2}) = reply'[2].quantity
      BY <3>1, TradedFew
    <3> QED BY <3>1, <3>2, <2>2, <1>1
  <2> QED BY <2>1, <2>2
<1>5. Settled(1)
  <2>1. reply'[1].order = n /\ reply'[1].remaining = volume
    BY <1>3
  <2>2. CASE stays /\ q # volume
    <3>1. Told(reply', "cancelled", n) = {}
      BY <2>2, <1>1, <1>2
    <3>2. open_orders'[n].remaining + q = volume
      BY <2>2
    <3> QED BY <2>1, <2>2, <3>1, <3>2, <1>4 DEF Settled
  <2>3. CASE ~ stays \/ q = volume
    <3>1. IF q = volume THEN Told(reply', "cancelled", n) = {}
          ELSE \E j \in Told(reply', "cancelled", n) :
                    Told(reply', "cancelled", n) = {j} /\ reply'[j].filled = q
      BY <2>3, <1>1, <1>2
    <3>2. n \notin DOMAIN open_orders'
      BY <2>3
    <3> QED BY <2>1, <3>1, <3>2, <1>4 DEF Settled
  <2> QED BY <2>2, <2>3
<1> QED BY <1>3, <1>5 DEF InFull

\* What FillStored leaves and answers, in terms of what order n takes.
LEMMA FillStoredFair ==
    ASSUME NEW type, type # "trade", NEW orders, NEW n \in DOMAIN orders,
           orders[n] \in Order, orders[n].remaining > 0, NEW view, IsBook(view),
           NEW by_token, NEW by_session,
           orders[n].token \in DOMAIN books' => books'[orders[n].token] = view,
           FillStored(type, n, view, orders, by_token, by_session)
    PROVE  /\ SharedOnce
           /\ \E q \in 0 .. orders[n].remaining : \E told, trade :
                /\ told.type = type /\ told.order = n /\ told.remaining = orders[n].remaining
                /\ q # 0 => trade.type = "trade" /\ trade.order = n /\ trade.quantity = q
                /\ reply' = IF q = 0 THEN <<told>> ELSE <<told, trade>>
                /\ n \in DOMAIN open_orders' <=> q # orders[n].remaining
                /\ n \in DOMAIN open_orders' =>
                        open_orders'[n].remaining = orders[n].remaining - q
<1> DEFINE quantity == Least(Available(view, orders[n]), orders[n].remaining)
           filled == ApplyFill(orders[n], quantity)
           gone == IF quantity > 0 /\ filled.remaining = 0 THEN {n} ELSE {}
           after == [orders EXCEPT ![n] = filled]
           told == OrderEvent(type, n, orders[n], next_activity)
           price == BestPrice(view, Opposite(orders[n].side))
           trade == TradeEvent(n, filled, next_activity + 1, next_fill, price, quantity)
<1>1. /\ Store(after, by_token, by_session, gone, gone)
      /\ reply' = IF quantity = 0 THEN <<told>> ELSE <<told, trade>>
  BY DEF FillStored
<1>2. /\ quantity \in 0 .. orders[n].remaining
      /\ orders[n].remaining \in Nat
      /\ filled.remaining = orders[n].remaining - quantity
  BY FillOf
<1>3. filled.token = orders[n].token /\ filled.side = orders[n].side /\ filled.price = orders[n].price
  BY DEF ApplyFill, Order
<1>4. told.type = type /\ told.order = n /\ told.remaining = orders[n].remaining
  BY DEF OrderEvent
<1>5. /\ trade.type = "trade" /\ trade.order = n /\ trade.quantity = quantity
      /\ trade.token = orders[n].token /\ trade.side = orders[n].side
      /\ trade.limit = orders[n].price /\ trade.price = price
  <2> HIDE DEF quantity, filled, price
  <2> QED BY <1>3 DEF TradeEvent
<1> HIDE DEF filled, told, trade
<1>6. gone = IF quantity = orders[n].remaining THEN {n} ELSE {}
  <2> HIDE DEF quantity
  <2> QED BY <1>2
<1>7. DOMAIN after = DOMAIN orders /\ after[n] = filled
  OBVIOUS
<1>8. /\ DOMAIN open_orders' = DOMAIN after \ gone
      /\ \A m \in DOMAIN after \ gone : open_orders'[m] = after[m]
  <2> HIDE DEF after, gone
  <2> QED BY <1>1, StoreShows
<1>9. /\ n \in DOMAIN open_orders' <=> quantity # orders[n].remaining
      /\ n \in DOMAIN open_orders' =>
            open_orders'[n].remaining = orders[n].remaining - quantity
  <2> HIDE DEF after, gone, quantity
  <2> QED BY <1>2, <1>6, <1>7, <1>8
<1>10. SharedOnce
  <2>1. CASE quantity = 0
    <3>1. reply' = <<told>>
      BY <1>1, <2>1
    <3>2. \A i \in DOMAIN reply' : reply'[i].type # "trade"
      BY <3>1, <1>4
    <3> QED BY <3>2, NoTradeShares
  <2>2. CASE quantity # 0
    <3>1. reply' = <<told, trade>>
      BY <1>1, <2>2
    <3>2. 2 \in DOMAIN reply' /\ reply'[2] = trade
          /\ \A i \in DOMAIN reply' : i # 2 => reply'[i].type # "trade"
      BY <3>1, <1>4
    <3>3. PICK order : order = orders[n]
      OBVIOUS
    <3>4. PICK q : q = quantity
      OBVIOUS
    <3>5. PICK k : k = 2
      OBVIOUS
    <3>6. /\ order \in Order /\ q = Least(Available(view, order), order.remaining) /\ q # 0
          /\ order.token \in DOMAIN books' => books'[order.token] = view
      BY <3>3, <3>4, <2>2
    <3>7. /\ k \in DOMAIN reply' /\ reply'[k] = trade
          /\ \A i \in DOMAIN reply' : i # k => reply'[i].type # "trade"
      BY <3>2, <3>5
    <3>8. /\ trade.type = "trade" /\ trade.token = order.token /\ trade.side = order.side
          /\ trade.limit = order.price /\ trade.quantity = q
          /\ trade.price = BestPrice(view, Opposite(order.side))
      BY <1>5, <3>3, <3>4
    <3> QED BY <3>6, <3>7, <3>8, OneTradeShares
  <2> QED BY <2>1, <2>2
<1> HIDE DEF quantity, price
<1> QED BY <1>1, <1>2, <1>4, <1>5, <1>9, <1>10

LEMMA FillAtOnceFair ==
    ASSUME IInv, NEW s \in Sessions, NEW order, Fresh(s, order), FillAtOnce(s, order)
    PROVE  SharedOnce /\ NoneBehind /\ InFull
<1>1. PICK n : n = next_order
  OBVIOUS
<1>2. PICK volume \in Quantity \ {0} : volume = order.remaining
  BY DEF Fresh
<1>3. ~market_data /\ UNCHANGED <<books, tables>>
  BY DEF FillAtOnce
<1>4. SharedOnce /\ NoneBehind
  BY <1>3 DEF SharedOnce, NoneBehind
<1>5. PICK filled : filled = ApplyFill(order, volume)
  OBVIOUS
<1>6. volume \in Nat \ {0} /\ filled.filled = volume
  <2>1. volume \in Nat \ {0} /\ volume < U32 /\ U32 \in Nat \ {0}
    BY BookAssumption DEF Quantity
  <2>2. order.filled = 0 /\ order \in Order
    BY DEF Fresh
  <2>3. filled.filled = (0 + volume) % U32
    BY <1>5, <2>2 DEF ApplyFill, Order
  <2> QED BY <2>1, <2>3
<1> DEFINE told == OrderEvent("confirmed", n, order, next_activity)
           trade == TradeEvent(n, filled, next_activity + 1, next_fill, order.price, filled.filled)
           stays == FALSE
<1>7. reply' = <<told, trade>>
  BY <1>1, <1>2, <1>5 DEF FillAtOnce
<1>8. told.type = "confirmed" /\ told.order = n /\ told.remaining = volume
  BY <1>2 DEF OrderEvent
<1>9. trade.type = "trade" /\ trade.order = n /\ trade.quantity = volume
  BY <1>6 DEF TradeEvent
<1>10. n \notin DOMAIN open_orders'
  <2>1. open_orders' = open_orders
    BY <1>3 DEF tables
  <2>2. DOMAIN open_orders \subseteq FirstOrder .. next_order - 1 /\ next_order \in Nat
    BY DEF IInv, StateOK, IsTable
  <2> QED BY <1>1, <2>1, <2>2, EngineAssumption
<1> HIDE DEF told, trade, stays
<1>11. stays = FALSE
  BY DEF stays
<1>12. PICK q : q = volume
  OBVIOUS
<1>13. reply' = IF q = 0 THEN IF stays THEN <<told>> ELSE <<told, told>>
                ELSE IF stays \/ q = volume THEN <<told, trade>>
                ELSE <<told, trade, told>>
  <2>1. q # 0 /\ q = volume
    BY <1>6, <1>12
  <2> QED BY <2>1, <1>7
<1>15. q \in 0 .. volume /\ stays \in BOOLEAN
  <2>1. volume \in Nat
    BY <1>6
  <2>2. q \in 0 .. volume
    BY <2>1, <1>12
  <2> QED BY <2>2, <1>11
<1>16. /\ q # 0 => trade.type = "trade" /\ trade.order = n /\ trade.quantity = q
       /\ ~stays /\ q # volume =>
                told.type = "cancelled" /\ told.order = n /\ told.filled = q
  BY <1>9, <1>12
<1>17. /\ n \in DOMAIN open_orders' <=> stays /\ q # volume
       /\ n \in DOMAIN open_orders' => open_orders'[n].remaining = volume - q
  BY <1>10, <1>12
<1>14. InFull
  BY <1>6, <1>8, <1>13, <1>15, <1>16, <1>17, ReplySettles
<1> QED BY <1>4, <1>14

LEMMA ImmediateOrCancelFair ==
    ASSUME IInv, NEW s \in Sessions, NEW order, Fresh(s, order), ImmediateOrCancel(s, order)
    PROVE  SharedOnce /\ NoneBehind /\ InFull
<1>1. PICK n : n = next_order
  OBVIOUS
<1>2. PICK volume \in Quantity \ {0} : volume = order.remaining
  BY DEF Fresh
<1>3. PICK view : view = BookOf(order.token)
  OBVIOUS
<1>4. PICK q : q = Least(Available(view, order), volume)
  OBVIOUS
<1>5. PICK filled : filled = ApplyFill(order, q)
  OBVIOUS
<1> DEFINE told == OrderEvent("confirmed", n, order, next_activity)
           trade == TradeEvent(n, filled, next_activity + 1, next_fill,
                               BestPrice(view, Opposite(order.side)), q)
           traded == IF q = 0 THEN <<>> ELSE <<trade>>
           away == OrderEvent("cancelled", n, [filled EXCEPT !.remaining = 0],
                              next_activity + 1 + Len(traded))
           cancelled == IF filled.remaining = 0 THEN <<>> ELSE <<away>>
           stays == FALSE
<1>6. /\ reply' = <<told>> \o traded \o cancelled
      /\ books' = Put(books, order.token, view)
      /\ UNCHANGED open_orders
  BY <1>1, <1>2, <1>3, <1>4, <1>5 DEF ImmediateOrCancel, tables
<1>7. /\ IsBook(view) /\ order \in Order /\ order.filled = 0
      /\ volume \in Nat \ {0} /\ q \in 0 .. volume /\ filled.remaining = volume - q
  <2>1. IsBook(view) /\ order \in Order /\ order.filled = 0
    BY <1>3, BookOfType DEF IInv, Fresh
  <2>2. volume \in Nat \ {0}
    BY BookAssumption DEF Quantity
  <2> QED BY <2>1, <2>2, <1>2, <1>4, <1>5, FillOf
<1>8. /\ filled.token = order.token /\ filled.side = order.side /\ filled.price = order.price
      /\ filled.filled = q
  <2>1. /\ filled.token = order.token /\ filled.side = order.side /\ filled.price = order.price
        /\ filled.filled = (0 + q) % U32
    BY <1>5, <1>7 DEF ApplyFill, Order
  <2>2. q \in Nat /\ q < U32 /\ U32 \in Nat \ {0}
    BY <1>7, BookAssumption DEF Quantity
  <2> QED BY <2>1, <2>2
<1>9. told.type = "confirmed" /\ told.order = n /\ told.remaining = volume
  BY <1>2 DEF OrderEvent
<1>10. /\ trade.type = "trade" /\ trade.order = n /\ trade.quantity = q
       /\ trade.token = order.token /\ trade.side = order.side
       /\ trade.limit = order.price /\ trade.price = BestPrice(view, Opposite(order.side))
  BY <1>8 DEF TradeEvent
<1>11. away.type = "cancelled" /\ away.order = n /\ away.filled = q
  <2>1. PICK gone : gone = [filled EXCEPT !.remaining = 0]
    OBVIOUS
  <2>2. PICK ref : ref = next_activity + 1 + Len(traded)
    OBVIOUS
  <2>3. gone.filled = q
    <3>1. filled \in Order
      BY <1>2, <1>4, <1>5, <1>7, FillOf
    <3> QED BY <3>1, <2>1, <1>8 DEF Order
  <2>4. away = OrderEvent("cancelled", n, gone, ref)
    BY <2>1, <2>2
  <2> HIDE DEF away
  <2> QED BY <2>3, <2>4 DEF OrderEvent
<1>12. /\ traded = IF q = 0 THEN <<>> ELSE <<trade>>
       /\ cancelled = IF q = volume THEN <<>> ELSE <<away>>
  <2>1. filled.remaining = 0 <=> q = volume
    BY <1>7
  <2> HIDE DEF trade, away
  <2> QED BY <2>1
<1> HIDE DEF told, trade, away, traded, cancelled, stays
<1>13. reply' = IF q = 0 THEN IF stays THEN <<told>> ELSE <<told, away>>
                ELSE IF stays \/ q = volume THEN <<told, trade>>
                ELSE <<told, trade, away>>
  <2>1. CASE q = 0 /\ q # volume
    <3>1. traded = <<>> /\ cancelled = <<away>>
      BY <2>1, <1>12
    <3>2. reply' = <<told, away>>
      BY <3>1, <1>6, Joined
    <3> QED BY <3>2, <2>1 DEF stays
  <2>2. CASE q # 0 /\ q = volume
    <3>1. traded = <<trade>> /\ cancelled = <<>>
      BY <2>2, <1>12
    <3>2. reply' = <<told, trade>>
      BY <3>1, <1>6, Joined
    <3> QED BY <3>2, <2>2 DEF stays
  <2>3. CASE q # 0 /\ q # volume
    <3>1. traded = <<trade>> /\ cancelled = <<away>>
      BY <2>3, <1>12
    <3>2. reply' = <<told, trade, away>>
      BY <3>1, <1>6, Joined
    <3> QED BY <3>2, <2>3 DEF stays
  <2> QED BY <2>1, <2>2, <2>3, <1>7
<1>14. InFull
  <2>1. n \notin DOMAIN open_orders'
    <3>1. DOMAIN open_orders \subseteq FirstOrder .. next_order - 1 /\ next_order \in Nat
      BY DEF IInv, StateOK, IsTable
    <3> QED BY <1>1, <1>6, <3>1, EngineAssumption
  <2>2. /\ n \in DOMAIN open_orders' <=> stays /\ q # volume
        /\ n \in DOMAIN open_orders' => open_orders'[n].remaining = volume - q
    BY <2>1 DEF stays
  <2>3. /\ q # 0 => trade.type = "trade" /\ trade.order = n /\ trade.quantity = q
        /\ ~stays /\ q # volume =>
                away.type = "cancelled" /\ away.order = n /\ away.filled = q
    BY <1>10, <1>11
  <2>4. volume \in Nat \ {0} /\ q \in 0 .. volume /\ stays \in BOOLEAN
    BY <1>7 DEF stays
  <2> QED BY <1>9, <1>13, <2>2, <2>3, <2>4, ReplySettles
<1>15. SharedOnce
  <2>1. CASE q = 0
    <3>1. reply' = <<told, away>>
      BY <2>1, <1>13 DEF stays
    <3>2. \A i \in DOMAIN reply' : reply'[i].type # "trade"
      BY <3>1, <1>9, <1>11
    <3> QED BY <3>2, NoTradeShares
  <2>2. CASE q # 0
    <3>1. PICK k : k = 2
      OBVIOUS
    <3>2. k \in DOMAIN reply' /\ reply'[k] = trade
          /\ \A i \in DOMAIN reply' : i # k => reply'[i].type # "trade"
      <4>1. CASE q = volume
        <5>1. reply' = <<told, trade>>
          BY <4>1, <2>2, <1>13
        <5> QED BY <5>1, <3>1, <1>9
      <4>2. CASE q # volume
        <5>1. reply' = <<told, trade, away>>
          BY <4>2, <2>2, <1>13 DEF stays
        <5> QED BY <5>1, <3>1, <1>9, <1>11
      <4> QED BY <4>1, <4>2
    <3>3. books'[order.token] = view
      BY <1>6 DEF Put
    <3>4. q = Least(Available(view, order), order.remaining)
      BY <1>2, <1>4
    <3> QED BY <1>7, <1>10, <2>2, <3>2, <3>3, <3>4, OneTradeShares
  <2> QED BY <2>1, <2>2
<1>16. NoneBehind
  <2>1. \A t \in DOMAIN books : books'[t] = books[t]
    BY <1>3, <1>6 DEF Put, BookOf
  <2> QED BY <2>1 DEF NoneBehind
<1> QED BY <1>14, <1>15, <1>16

LEMMA RestDayOrderFair ==
    ASSUME IInv, NEW s \in Sessions, NEW order, Fresh(s, order), RestDayOrder(s, order)
    PROVE  SharedOnce /\ NoneBehind /\ InFull
<1>1. PICK n : n = next_order
  OBVIOUS
<1>2. PICK view : view = BookOf(order.token)
  OBVIOUS
<1>3. PICK orders : orders = Put(open_orders, n, order)
  OBVIOUS
<1>4. PICK by_token : by_token = [ids_by_token EXCEPT ![order.token] = @ \cup {n}]
  OBVIOUS
<1>5. PICK by_session : by_session = [ids_by_session EXCEPT ![s] = @ \cup {n}]
  OBVIOUS
<1>6. PICK type : type = "confirmed"
  OBVIOUS
<1>7. /\ FillStored(type, n, view, orders, by_token, by_session)
      /\ books' = Put(books, order.token, view)
  BY <1>1, <1>2, <1>3, <1>4, <1>5, <1>6 DEF RestDayOrder
<1>8. n \in DOMAIN orders /\ orders[n] = order
  BY <1>3 DEF Put
<1>9. /\ order \in Order /\ order.remaining \in Nat \ {0} /\ order.remaining > 0 /\ IsBook(view)
      /\ type # "trade"
  BY <1>2, <1>6, BookOfType, BookAssumption DEF Fresh, IInv, Quantity
<1>10. books'[order.token] = view
  BY <1>7 DEF Put
<1>11. /\ SharedOnce
       /\ \E q \in 0 .. orders[n].remaining : \E told, trade :
            /\ told.type = type /\ told.order = n /\ told.remaining = orders[n].remaining
            /\ q # 0 => trade.type = "trade" /\ trade.order = n /\ trade.quantity = q
            /\ reply' = IF q = 0 THEN <<told>> ELSE <<told, trade>>
            /\ n \in DOMAIN open_orders' <=> q # orders[n].remaining
            /\ n \in DOMAIN open_orders' =>
                    open_orders'[n].remaining = orders[n].remaining - q
  BY <1>7, <1>8, <1>9, <1>10, FillStoredFair
<1>12. PICK volume : volume = order.remaining
  OBVIOUS
<1>13. PICK q, told, trade :
            /\ q \in 0 .. volume
            /\ told.type = "confirmed" /\ told.order = n /\ told.remaining = volume
            /\ q # 0 => trade.type = "trade" /\ trade.order = n /\ trade.quantity = q
            /\ reply' = IF q = 0 THEN <<told>> ELSE <<told, trade>>
            /\ n \in DOMAIN open_orders' <=> q # volume
            /\ n \in DOMAIN open_orders' => open_orders'[n].remaining = volume - q
  BY <1>6, <1>8, <1>11, <1>12
<1>14. InFull
  <2> DEFINE stays == TRUE
  <2>1. stays
    OBVIOUS
  <2> HIDE DEF stays
  <2>2. reply' = IF q = 0 THEN IF stays THEN <<told>> ELSE <<told, told>>
                 ELSE IF stays \/ q = volume THEN <<told, trade>>
                 ELSE <<told, trade, told>>
    BY <2>1, <1>13
  <2>3. /\ stays \in BOOLEAN /\ volume \in Nat \ {0} /\ q \in 0 .. volume
        /\ n \in DOMAIN open_orders' <=> stays /\ q # volume
        /\ ~stays /\ q # volume =>
                told.type = "cancelled" /\ told.order = n /\ told.filled = q
    BY <2>1, <1>9, <1>12, <1>13
  <2>4. /\ told.type = "confirmed" /\ told.order = n /\ told.remaining = volume
        /\ q # 0 => trade.type = "trade" /\ trade.order = n /\ trade.quantity = q
        /\ n \in DOMAIN open_orders' => open_orders'[n].remaining = volume - q
    BY <1>13
  <2> QED BY <2>2, <2>3, <2>4, ReplySettles
<1>15. NoneBehind
  <2>1. \A t \in DOMAIN books : books'[t] = books[t]
    BY <1>2, <1>7 DEF Put, BookOf
  <2> QED BY <2>1 DEF NoneBehind
<1> QED BY <1>11, <1>14, <1>15

LEMMA NewOrderFair ==
    ASSUME IInv, NEW s \in Sessions, NEW token \in Tokens, NEW side \in Side,
           NEW price \in Prices, NEW volume \in Volumes, NewOrder(s, token, side, price, volume)
    PROVE  SharedOnce /\ NoneBehind /\ InFull
<1> DEFINE order == [session |-> s, token |-> token, side |-> side, price |-> price,
                     volume |-> volume, remaining |-> volume, filled |-> 0]
<1>1. FillAtOnce(s, order) \/ ImmediateOrCancel(s, order) \/ RestDayOrder(s, order)
  BY DEF NewOrder
<1>2. Fresh(s, order)
  <2>1. volume \in Quantity \ {0} /\ 0 \in Quantity
    BY EngineAssumption, BookAssumption DEF Quantity
  <2> QED
    BY <2>1 DEF Fresh, Order
<1> HIDE DEF order
<1> QED BY <1>1, <1>2, FillAtOnceFair, ImmediateOrCancelFair, RestDayOrderFair

LEMMA ModifyOrderFair ==
    ASSUME IInv, NEW s \in Sessions, NEW n, NEW price \in Prices, NEW volume \in Volumes,
           NEW remaining \in Claims, NEW claimed \in Claims,
           ModifyOrder(s, n, price, volume, remaining, claimed)
    PROVE  SharedOnce /\ NoneBehind /\ InFull
<1>1. PICK left : left = IF remaining = 0 THEN volume ELSE Least(remaining, volume)
  OBVIOUS
<1>2. /\ left \in Quantity /\ volume \in Quantity /\ claimed \in Quantity
      /\ left > 0
  <2>1. volume \in Quantity \ {0} /\ remaining \in Quantity /\ claimed \in Quantity
    BY EngineAssumption
  <2>2. volume \in Nat \ {0} /\ remaining \in Nat
    BY <2>1, BookAssumption DEF Quantity
  <2>3. left \in {volume, remaining} /\ left > 0
    BY <2>2, <1>1 DEF Least
  <2> QED BY <2>1, <2>3
<1>3. PICK live : live = [open_orders[n] EXCEPT !.price = price, !.volume = volume,
                                                !.filled = claimed, !.remaining = left]
  OBVIOUS
<1>4. PICK orders : orders = [open_orders EXCEPT ![n] = live]
  OBVIOUS
<1>5. PICK type : type = "modified"
  OBVIOUS
<1>6. /\ n \in DOMAIN open_orders /\ UNCHANGED books
      /\ FillStored(type, n, BookOf(live.token), orders, ids_by_token, ids_by_session)
  BY <1>1, <1>3, <1>4, <1>5 DEF ModifyOrder
<1>7. open_orders[n] \in Order
  BY <1>6, Disassemble DEF Sound, IsTable
<1>8. live \in Order /\ live.token = open_orders[n].token /\ live.remaining = left
  BY <1>2, <1>3, <1>7 DEF Order
<1>9. n \in DOMAIN orders /\ orders[n] = live
  BY <1>4, <1>6
<1>10. live.token \in DOMAIN books' => books'[live.token] = BookOf(live.token)
  BY <1>6 DEF BookOf
<1>11. IsBook(BookOf(live.token)) /\ type # "trade"
  BY <1>5, BookOfType DEF IInv
<1>12. PICK view : view = BookOf(live.token)
  OBVIOUS
<1>13. /\ SharedOnce
       /\ \E q \in 0 .. orders[n].remaining : \E told, trade :
            /\ told.type = type /\ told.order = n /\ told.remaining = orders[n].remaining
            /\ q # 0 => trade.type = "trade" /\ trade.order = n /\ trade.quantity = q
            /\ reply' = IF q = 0 THEN <<told>> ELSE <<told, trade>>
            /\ n \in DOMAIN open_orders' <=> q # orders[n].remaining
            /\ n \in DOMAIN open_orders' =>
                    open_orders'[n].remaining = orders[n].remaining - q
  BY <1>2, <1>6, <1>8, <1>9, <1>10, <1>11, <1>12, FillStoredFair
<1>14. InFull
  <2>1. PICK q, told, trade : /\ told.type = type
                              /\ q # 0 => trade.type = "trade"
                              /\ reply' = IF q = 0 THEN <<told>> ELSE <<told, trade>>
    BY <1>13
  <2>2. \A i \in DOMAIN reply' : reply'[i].type # "confirmed"
    <3>1. CASE q = 0
      BY <2>1, <3>1, <1>5
    <3>2. CASE q # 0
      BY <2>1, <3>2, <1>5
    <3> QED BY <3>1, <3>2
  <2> QED BY <2>2 DEF InFull
<1>15. NoneBehind
  BY <1>6 DEF NoneBehind
<1> QED BY <1>13, <1>14, <1>15

-----------------------------------------------------------------------------
(* Book updates.                                                           *)

\* The orders of token t on one side that the top of `view` crosses.
Takers(t, view, side) ==
    {n \in ids_by_token[t] \cap DOMAIN open_orders :
        open_orders[n].side = side /\ Marketable(view, open_orders[n])}

\* The trades that one round of maybeFillRestingOrdersLocked makes: order nth[i]
\* takes taken[nth[i]], and each side's takers share the opposite top.
Round(t, view, taken, filled, nth) ==
    /\ filled = {n \in Takers(t, view, "buy") \cup Takers(t, view, "sell") : taken[n] > 0}
    /\ nth \in [1 .. Cardinality(filled) -> filled]
    /\ \A i, j \in DOMAIN nth : i < j => nth[i] < nth[j]
    /\ DOMAIN reply' = 1 .. Cardinality(filled)
    /\ \A i \in DOMAIN reply' :
        LET order == open_orders[nth[i]]
        IN  /\ reply'[i].type = "trade" /\ reply'[i].order = nth[i]
            /\ reply'[i].token = order.token /\ reply'[i].side = order.side
            /\ reply'[i].limit = order.price /\ reply'[i].quantity = taken[nth[i]]
            /\ reply'[i].price = BestPrice(view, Opposite(order.side))
    /\ \A side \in Side :
        LET takers == Takers(t, view, side)
            top == TopQuantity(view, Opposite(side))
            all == SumFunctionOnSet(taken, takers)
        IN  /\ \A n \in takers : taken[n] \in Nat
            /\ all <= top
            /\ \A n \in takers : taken[n] < open_orders[n].remaining =>
                    all = top /\ \A m \in takers : n < m => taken[m] = 0
    /\ \A n \in DOMAIN open_orders' :
        /\ n \in DOMAIN open_orders
        /\ open_orders'[n].token = open_orders[n].token
        /\ open_orders'[n].side = open_orders[n].side
        /\ open_orders'[n].price = open_orders[n].price
        /\ \A side \in Side :
            n \in Takers(t, view, side) => taken[n] < open_orders[n].remaining

LEMMA FillRestingRound ==
    ASSUME IInv, NEW t \in Tokens, NEW view, IsBook(view), FillResting(t, view)
    PROVE  \E taken, filled, nth : Round(t, view, taken, filled, nth)
<1> DEFINE indexed == ids_by_token[t] \cap DOMAIN open_orders
           stale == {n \in indexed : worker[open_orders[n].session] = "expired"}
           takers(side) == {n \in indexed \ stale : /\ open_orders[n].side = side
                                                    /\ Marketable(view, open_orders[n])}
<1>0. PICK buying \in Leftovers(Crossed(t, view, "buy"), TopQuantity(view, "sell")),
           selling \in Leftovers(Crossed(t, view, "sell"), TopQuantity(view, "buy")) :
             Outcome(t, view, Given(t, view, buying, selling))
  BY FillRestingUnfolds
<1>1. /\ buying \in Leftovers(takers("buy"), TopQuantity(view, "sell"))
      /\ selling \in Leftovers(takers("sell"), TopQuantity(view, "buy"))
      /\ LET taken == [n \in takers("buy") \cup takers("sell") |->
                         Least(IF n \in takers("buy") THEN buying[n] ELSE selling[n],
                               open_orders[n].remaining)]
             filled == {n \in DOMAIN taken : taken[n] > 0}
             after == [n \in DOMAIN open_orders |->
                         IF n \in filled THEN ApplyFill(open_orders[n], taken[n])
                         ELSE open_orders[n]]
             done == {n \in filled : after[n].remaining = 0}
         IN  /\ Store(after, ids_by_token, ids_by_session, stale \cup done, done)
             /\ \E nth \in [1 .. Cardinality(filled) -> filled] :
                 /\ \A i, j \in DOMAIN nth : i < j => nth[i] < nth[j]
                 /\ reply' = [i \in DOMAIN nth |->
                     TradeEvent(nth[i], after[nth[i]], next_activity + i - 1,
                         (next_fill + i - 1) % U32,
                         BestPrice(view, Opposite(after[nth[i]].side)), taken[nth[i]])]
             /\ next_activity' = next_activity + Cardinality(filled)
  BY <1>0 DEF Outcome, Given, Crossed, Stale
<1> DEFINE taken == [n \in takers("buy") \cup takers("sell") |->
                       Least(IF n \in takers("buy") THEN buying[n] ELSE selling[n],
                             open_orders[n].remaining)]
           filled == {n \in DOMAIN taken : taken[n] > 0}
           after == [n \in DOMAIN open_orders |->
                       IF n \in filled THEN ApplyFill(open_orders[n], taken[n])
                       ELSE open_orders[n]]
           done == {n \in filled : after[n].remaining = 0}
<1>2. Store(after, ids_by_token, ids_by_session, stale \cup done, done)
  BY <1>1
<1>3. PICK nth \in [1 .. Cardinality(filled) -> filled] :
        /\ \A i, j \in DOMAIN nth : i < j => nth[i] < nth[j]
        /\ reply' = [i \in DOMAIN nth |->
            TradeEvent(nth[i], after[nth[i]], next_activity + i - 1, (next_fill + i - 1) % U32,
                BestPrice(view, Opposite(after[nth[i]].side)), taken[nth[i]])]
  BY <1>1
<1>4. stale = {}
  BY DEF IInv, NoOrphans
<1>5. \A side : takers(side) = Takers(t, view, side)
  BY <1>4 DEF Takers
<1>6. /\ buying \in Leftovers(Takers(t, view, "buy"), TopQuantity(view, "sell"))
      /\ selling \in Leftovers(Takers(t, view, "sell"), TopQuantity(view, "buy"))
  BY <1>1, <1>5
<1>7. taken = [n \in Takers(t, view, "buy") \cup Takers(t, view, "sell") |->
                  Least(IF n \in Takers(t, view, "buy") THEN buying[n] ELSE selling[n],
                        open_orders[n].remaining)]
  BY <1>5
<1> HIDE DEF takers, taken
<1>8. \A n \in DOMAIN open_orders : /\ open_orders[n] \in Order
                                    /\ open_orders[n].remaining \in Nat \ {0}
  BY Disassemble, BookAssumption DEF Sound, IsTable, Order, Quantity
<1>9. \A side : /\ Takers(t, view, side) \subseteq DOMAIN open_orders
                /\ \A n \in Takers(t, view, side) : open_orders[n].side = side
  BY DEF Takers
<1>10. PICK b \in Nat : DOMAIN open_orders \subseteq 0 .. b
  <2>1. DOMAIN open_orders \subseteq FirstOrder .. next_order - 1 /\ next_order \in Nat
    BY DEF IInv, StateOK, IsTable
  <2>2. DOMAIN open_orders \subseteq 0 .. next_order
    BY <2>1, EngineAssumption
  <2> QED BY <2>1, <2>2
<1>11. /\ \A n \in Takers(t, view, "buy") :
            taken[n] = Least(buying[n], open_orders[n].remaining)
       /\ \A n \in Takers(t, view, "sell") :
            taken[n] = Least(selling[n], open_orders[n].remaining)
       /\ DOMAIN taken = Takers(t, view, "buy") \cup Takers(t, view, "sell")
  <2>1. \A n \in Takers(t, view, "sell") : n \notin Takers(t, view, "buy")
    BY <1>9
  <2> QED BY <2>1, <1>7
<1>12. ASSUME NEW side \in Side
       PROVE  LET takers1 == Takers(t, view, side)
                  top == TopQuantity(view, Opposite(side))
                  all == SumFunctionOnSet(taken, takers1)
              IN  /\ \A n \in takers1 : taken[n] \in Nat /\ taken[n] <= open_orders[n].remaining
                  /\ all <= top
                  /\ \A n \in takers1 : taken[n] < open_orders[n].remaining =>
                        all = top /\ \A m \in takers1 : n < m => taken[m] = 0
  <2> DEFINE group == Takers(t, view, side)
             top == TopQuantity(view, Opposite(side))
  <2>1. PICK left \in Leftovers(group, top) :
            \A n \in group : taken[n] = Least(left[n], open_orders[n].remaining)
    <3>1. CASE side = "buy"
      BY <3>1, <1>6, <1>11 DEF Opposite
    <3>2. CASE side = "sell"
      BY <3>2, <1>6, <1>11 DEF Opposite
    <3> QED BY <3>1, <3>2 DEF Side
  <2>2. top \in Nat
    BY TopQuantityType, BookAssumption DEF Opposite, Side, Quantity
  <2>3. group \in SUBSET (0 .. b) /\ \A n \in group : open_orders[n].remaining \in Nat
    BY <1>8, <1>9, <1>10
  <2> HIDE DEF group, top
  <2>4. \A n \in group : taken[n] \in Nat /\ taken[n] <= open_orders[n].remaining
    <3>1. left \in [group -> 0 .. top]
      BY DEF Leftovers
    <3>2. ASSUME NEW n \in group PROVE taken[n] \in Nat /\ taken[n] <= open_orders[n].remaining
      <4>1. left[n] \in Nat /\ open_orders[n].remaining \in Nat
        BY <3>1, <2>2, <2>3
      <4>2. taken[n] = Least(left[n], open_orders[n].remaining)
        BY <2>1
      <4> QED BY <4>1, <4>2 DEF Least
    <3> QED BY <3>2
  <2>5. /\ SumFunctionOnSet(taken, group) <= top
        /\ \A n \in group : taken[n] < open_orders[n].remaining =>
                /\ SumFunctionOnSet(taken, group) = top
                /\ \A m \in group : n < m => taken[m] = 0
    <3>1. \A n \in group : /\ open_orders[n].remaining \in Nat
                            /\ taken[n] = Least(left[n], open_orders[n].remaining)
      BY <2>1, <2>3
    <3>2. TakenFrom(group, left, taken)
      BY <3>1 DEF TakenFrom
    <3>3. group \in SUBSET (0 .. b) /\ left \in Leftovers(group, top)
      BY <2>3
    <3>4. SharedOut(group, top, taken)
      BY <2>2, <3>2, <3>3, LeftoversShare, ZenonT(60)
    <3> QED BY <3>4 DEF SharedOut
  <2> QED BY <2>4, <2>5 DEF group, top
<1>13. filled = {n \in Takers(t, view, "buy") \cup Takers(t, view, "sell") : taken[n] > 0}
  BY <1>11
<1> HIDE DEF filled
<1>14. ASSUME NEW n \in filled
       PROVE  /\ n \in DOMAIN open_orders /\ open_orders[n] \in Order
              /\ taken[n] \in 0 .. open_orders[n].remaining
              /\ open_orders[n].remaining \in Nat
  <2>1. PICK side \in Side : n \in Takers(t, view, side)
    BY <1>13 DEF Side
  <2>2. taken[n] \in Nat /\ taken[n] <= open_orders[n].remaining
    BY <2>1, <1>12
  <2>3. n \in DOMAIN open_orders /\ open_orders[n].remaining \in Nat /\ open_orders[n] \in Order
    BY <2>1, <1>8, <1>9
  <2> QED BY <2>2, <2>3
<1>15. DOMAIN after = DOMAIN open_orders
       /\ \A n \in DOMAIN open_orders :
            /\ after[n].token = open_orders[n].token /\ after[n].side = open_orders[n].side
            /\ after[n].price = open_orders[n].price
            /\ n \in filled => after[n].remaining = open_orders[n].remaining - taken[n]
  <2>1. ASSUME NEW n \in DOMAIN open_orders
        PROVE  /\ after[n].token = open_orders[n].token /\ after[n].side = open_orders[n].side
               /\ after[n].price = open_orders[n].price
               /\ n \in filled => after[n].remaining = open_orders[n].remaining - taken[n]
    <3>1. CASE n \in filled
      <4>1. after[n] = ApplyFill(open_orders[n], taken[n]) /\ open_orders[n] \in Order
        BY <3>1, <1>8
      <4> HIDE DEF after
      <4> QED BY <4>1 DEF ApplyFill, Order
    <3>2. CASE n \notin filled
      BY <3>2
    <3> QED BY <3>1, <3>2
  <2> QED BY <2>1
<1>16. /\ DOMAIN open_orders' = DOMAIN after \ done
       /\ \A n \in DOMAIN after \ done : open_orders'[n] = after[n]
  <2>1. Store(after, ids_by_token, ids_by_session, done, done)
    BY <1>2, <1>4
  <2> HIDE DEF after, done
  <2> QED BY <2>1, StoreShows
<1>17. done = {n \in filled : after[n].remaining = 0}
  OBVIOUS
<1> HIDE DEF after, done, stale, indexed
<1>18. DOMAIN reply' = 1 .. Cardinality(filled) /\ DOMAIN nth = 1 .. Cardinality(filled)
  BY <1>3
<1>19. ASSUME NEW i \in DOMAIN reply'
       PROVE  LET order == open_orders[nth[i]]
              IN  /\ reply'[i].type = "trade" /\ reply'[i].order = nth[i]
                  /\ reply'[i].token = order.token /\ reply'[i].side = order.side
                  /\ reply'[i].limit = order.price /\ reply'[i].quantity = taken[nth[i]]
                  /\ reply'[i].price = BestPrice(view, Opposite(order.side))
  <2>1. PICK n \in filled : n = nth[i]
    BY <1>3, <1>18
  <2>2. PICK order : order = after[n]
    OBVIOUS
  <2>3. reply'[i] = TradeEvent(n, order, next_activity + i - 1, (next_fill + i - 1) % U32,
                               BestPrice(view, Opposite(order.side)), taken[n])
    BY <2>1, <2>2, <1>3, <1>18
  <2>4. /\ order.token = open_orders[n].token /\ order.side = open_orders[n].side
        /\ order.price = open_orders[n].price
    BY <2>2, <1>14, <1>15
  <2>5. /\ reply'[i].type = "trade" /\ reply'[i].order = n
        /\ reply'[i].token = order.token /\ reply'[i].side = order.side
        /\ reply'[i].limit = order.price /\ reply'[i].quantity = taken[n]
        /\ reply'[i].price = BestPrice(view, Opposite(order.side))
    BY <2>3 DEF TradeEvent
  <2> QED BY <2>1, <2>4, <2>5
<1>20. ASSUME NEW n \in DOMAIN open_orders'
       PROVE  /\ n \in DOMAIN open_orders
              /\ open_orders'[n].token = open_orders[n].token
              /\ open_orders'[n].side = open_orders[n].side
              /\ open_orders'[n].price = open_orders[n].price
              /\ \A side \in Side :
                    n \in Takers(t, view, side) => taken[n] < open_orders[n].remaining
  <2>1. n \in DOMAIN open_orders /\ open_orders'[n] = after[n] /\ n \notin done
    BY <1>15, <1>16
  <2>2. /\ open_orders'[n].token = open_orders[n].token
        /\ open_orders'[n].side = open_orders[n].side
        /\ open_orders'[n].price = open_orders[n].price
    BY <2>1, <1>15
  <2>3. ASSUME NEW side \in Side, n \in Takers(t, view, side)
        PROVE  taken[n] < open_orders[n].remaining
    <3>1. taken[n] \in Nat /\ taken[n] <= open_orders[n].remaining
          /\ open_orders[n].remaining \in Nat \ {0}
      BY <2>1, <2>3, <1>8, <1>12
    <3>2. CASE taken[n] = 0
      BY <3>1, <3>2
    <3>3. CASE taken[n] # 0
      <4>1. n \in filled
        BY <3>1, <3>3, <2>3, <1>13 DEF Side
      <4>2. after[n].remaining = open_orders[n].remaining - taken[n] /\ after[n].remaining # 0
        BY <4>1, <2>1, <1>15, <1>17
      <4> QED BY <4>2, <3>1
    <3> QED BY <3>2, <3>3
  <2> QED BY <2>1, <2>2, <2>3
<1>21. Round(t, view, taken, filled, nth)
  BY <1>3, <1>12, <1>13, <1>18, <1>19, <1>20 DEF Round
<1> QED BY <1>21

\* A numbering in ascending order of a finite set leaves none of it out.
LEMMA Numbering ==
    ASSUME NEW S \in SUBSET Nat, IsFiniteSet(S), NEW nth \in [1 .. Cardinality(S) -> S],
           \A i, j \in DOMAIN nth : i < j => nth[i] < nth[j]
    PROVE  /\ \A i, j \in DOMAIN nth : nth[i] = nth[j] => i = j
           /\ \A n \in S : \E i \in DOMAIN nth : nth[i] = n
<1> DEFINE N == Cardinality(S)
           I == 1 .. N
<1>1. N \in Nat
  BY FS_CardinalityType
<1>2. \A i, j \in I : nth[i] = nth[j] => i = j
  <2>1. ASSUME NEW i \in I, NEW j \in I, nth[i] = nth[j] PROVE i = j
    <3>1. i \in Int /\ j \in Int /\ nth[i] \in Nat /\ nth[j] \in Nat
      <4>1. nth[i] \in S /\ nth[j] \in S
        OBVIOUS
      <4>2. \A x \in S : x \in Nat
        OBVIOUS
      <4>3. nth[i] \in Nat /\ nth[j] \in Nat
        BY <4>1, <4>2
      <4> HIDE DEF N
      <4>4. i \in Int /\ j \in Int
        BY <1>1
      <4> QED BY <4>3, <4>4
    <3>2. ~ (i < j) /\ ~ (j < i)
      BY <2>1, <3>1
    <3> QED BY <3>1, <3>2
  <2> QED BY <2>1
<1>3. Cardinality(I) = N
  <2>1. 1 \in Int /\ N \in Int
    BY <1>1
  <2>2. Cardinality(1 .. N) = IF 1 > N THEN 0 ELSE N - 1 + 1
    <3> HIDE DEF N
    <3> QED BY <2>1, FS_Interval
  <2> QED BY <1>1, <2>2
<1>4. nth \in Injection(I, S)
  BY <1>2 DEF Injection, IsInjective
<1>5. nth \in Surjection(I, S)
  <2>1. Cardinality(I) = Cardinality(S)
    BY <1>3
  <2> HIDE DEF I
  <2> QED BY <1>4, <2>1, FS_Injection
<1> QED BY <1>2, <1>5 DEF Surjection

\* The trades of a round on one side of a token.
LEMMA RoundTraded ==
    ASSUME IInv, Own, NEW t \in Tokens, NEW view, NEW taken, NEW filled, NEW nth,
           Round(t, view, taken, filled, nth), NEW side \in Side
    PROVE  /\ Traded(reply', TradesOn(reply', t, side))
                    = SumFunctionOnSet(taken, Takers(t, view, side))
           /\ \A i \in TradesOn(reply', t, side) :
                /\ nth[i] \in Takers(t, view, side) /\ taken[nth[i]] > 0
                /\ reply'[i].order = nth[i]
           /\ \A u \in Tokens : u # t => TradesOn(reply', u, side) = {}
<1>1. DOMAIN open_orders \in SUBSET Nat
  <2>1. DOMAIN open_orders \subseteq FirstOrder .. next_order - 1 /\ next_order \in Nat
    BY DEF IInv, StateOK, IsTable
  <2> QED BY <2>1, EngineAssumption
<1>2. IsFiniteSet(DOMAIN open_orders)
  <2>1. DOMAIN open_orders \subseteq FirstOrder .. next_order - 1 /\ next_order \in Nat
    BY DEF IInv, StateOK, IsTable
  <2>2. FirstOrder \in Int /\ next_order - 1 \in Int
    BY <2>1, EngineAssumption
  <2>3. IsFiniteSet(FirstOrder .. next_order - 1)
    BY <2>2, FS_Interval
  <2> QED BY <2>1, <2>3, FS_Subset
<1>3. \A n \in DOMAIN open_orders : n \in ids_by_token[t] => open_orders[n].token = t
  BY DEF Own, OwnIn
<1> DEFINE takers == Takers(t, view, side)
           takenOn == {n \in takers : taken[n] > 0}
           trades == TradesOn(reply', t, side)
<1>4. takers \subseteq DOMAIN open_orders
      /\ \A n \in takers : open_orders[n].token = t /\ open_orders[n].side = side
  BY <1>3 DEF Takers
<1>5. /\ filled = {n \in Takers(t, view, "buy") \cup Takers(t, view, "sell") : taken[n] > 0}
      /\ nth \in [1 .. Cardinality(filled) -> filled]
      /\ \A i, j \in DOMAIN nth : i < j => nth[i] < nth[j]
      /\ DOMAIN reply' = 1 .. Cardinality(filled)
  BY DEF Round
<1>6. /\ \A n \in filled : n \in DOMAIN open_orders /\ open_orders[n].token = t /\ taken[n] > 0
      /\ \A n \in filled : open_orders[n].side = side => n \in takers
      /\ takenOn \subseteq filled
  <2>1. \A n \in filled : \E s \in Side : n \in Takers(t, view, s)
    BY <1>5 DEF Side
  <2>2. \A n \in filled : n \in DOMAIN open_orders /\ open_orders[n].token = t
                          /\ taken[n] > 0
    BY <1>3, <1>5 DEF Takers
  <2>3. \A n \in filled : open_orders[n].side = side => n \in takers
    BY <2>1 DEF Takers
  <2>4. takenOn \subseteq filled
    BY <1>5 DEF Side
  <2> QED BY <2>2, <2>3, <2>4
<1>7. filled \in SUBSET Nat /\ IsFiniteSet(filled)
  <2>1. filled \subseteq DOMAIN open_orders
    BY <1>6
  <2> QED BY <2>1, <1>1, <1>2, FS_Subset
<1>8. /\ \A i, j \in DOMAIN nth : nth[i] = nth[j] => i = j
      /\ \A n \in filled : \E i \in DOMAIN nth : nth[i] = n
      /\ DOMAIN nth = DOMAIN reply'
  BY <1>5, <1>7, Numbering
<1>9. ASSUME NEW i \in DOMAIN reply'
      PROVE  /\ nth[i] \in filled
             /\ reply'[i].type = "trade" /\ reply'[i].order = nth[i]
             /\ reply'[i].token = t /\ reply'[i].side = open_orders[nth[i]].side
             /\ reply'[i].quantity = taken[nth[i]]
  <2>1. nth[i] \in filled
    BY <1>5
  <2>2. /\ reply'[i].type = "trade" /\ reply'[i].order = nth[i]
        /\ reply'[i].token = open_orders[nth[i]].token
        /\ reply'[i].side = open_orders[nth[i]].side
        /\ reply'[i].quantity = taken[nth[i]]
    BY DEF Round
  <2> QED BY <2>1, <2>2, <1>6
<1>10. \A i \in trades : /\ i \in DOMAIN reply'
                         /\ nth[i] \in takers /\ nth[i] \in takenOn
                         /\ reply'[i].order = nth[i] /\ taken[nth[i]] > 0
                         /\ reply'[i].quantity = taken[nth[i]]
  BY <1>6, <1>9 DEF TradesOn
<1>11. {nth[i] : i \in trades} = takenOn
  <2>1. ASSUME NEW n \in takenOn PROVE \E i \in trades : nth[i] = n
    <3>1. n \in filled /\ open_orders[n].side = side
      BY <1>4, <1>6
    <3>2. PICK i \in DOMAIN reply' : nth[i] = n
      BY <3>1, <1>8
    <3>3. i \in trades
      BY <3>1, <3>2, <1>9 DEF TradesOn
    <3> QED BY <3>2, <3>3
  <2> HIDE DEF trades, takenOn
  <2> QED BY <2>1, <1>10
<1>12. \A n \in takers : taken[n] \in Nat
  BY DEF Round
<1>13. IsFiniteSet(takers) /\ IsFiniteSet(trades)
  <2>1. IsFiniteSet(takers)
    BY <1>2, <1>4, FS_Subset
  <2>2. Cardinality(filled) \in Int
    BY <1>7, FS_CardinalityType
  <2>3. IsFiniteSet(1 .. Cardinality(filled))
    <3>1. 1 \in Int
      OBVIOUS
    <3> QED BY <2>2, <3>1, FS_Interval
  <2>4. trades \in SUBSET DOMAIN reply'
    BY DEF TradesOn
  <2> QED BY <2>1, <2>3, <2>4, <1>5, FS_Subset
<1>14. Traded(reply', trades) = SumFunctionOnSet(taken, takenOn)
  <2>1. PICK f : f = [i \in trades |-> reply'[i].quantity]
    OBVIOUS
  <2>2. \A i \in trades : taken[nth[i]] \in Int /\ f[i] = taken[nth[i]]
    BY <2>1, <1>10, <1>12
  <2>3. \A i, j \in trades : nth[i] = nth[j] => i = j
    BY <1>8, <1>10
  <2> HIDE DEF trades, takenOn, takers
  <2>4. SumFunctionOnSet(f, trades) = SumFunctionOnSet(taken, {nth[i] : i \in trades})
    BY <2>2, <2>3, <1>13, SumRenamed
  <2> QED BY <2>1, <2>4, <1>11 DEF Traded
<1>15. SumFunctionOnSet(taken, takers) = SumFunctionOnSet(taken, takenOn)
  <2>1. takenOn \in SUBSET takers
    OBVIOUS
  <2>2. \A n \in takers \ takenOn : taken[n] = 0
    BY <1>12
  <2> HIDE DEF takers, takenOn
  <2>3. IsFiniteSet(takers \ takenOn)
    BY <1>13, FS_Subset
  <2>4. SumFunctionOnSet(taken, takers \ takenOn) = 0
    BY <2>2, <2>3, SumZero
  <2>5. /\ SumFunctionOnSet(taken, takers) =
            SumFunctionOnSet(taken, takenOn) + SumFunctionOnSet(taken, takers \ takenOn)
    BY <2>1, <1>12, <1>13, SumParts
  <2>6. SumFunctionOnSet(taken, takenOn) \in Nat
    <3>1. IsFiniteSet(takenOn) /\ \A n \in takenOn : taken[n] \in Nat
      BY <2>1, <1>12, <1>13, FS_Subset
    <3> QED BY <3>1, SumNat
  <2> QED BY <2>4, <2>5, <2>6
<1>16. \A u \in Tokens : u # t => TradesOn(reply', u, side) = {}
  BY <1>9 DEF TradesOn
<1> QED BY <1>10, <1>14, <1>15, <1>16

LEMMA FillRestingFair ==
    ASSUME IInv, Own, NEW t \in Tokens, NEW view, IsBook(view), FillResting(t, view),
           books' = Put(books, t, view)
    PROVE  SharedOnce /\ NoneBehind /\ InFull
<1>1. PICK taken, filled, nth : Round(t, view, taken, filled, nth)
  BY FillRestingRound
<1>2. /\ DOMAIN books' \subseteq Tokens /\ books'[t] = view
      /\ \A u \in DOMAIN books : u # t => books'[u] = books[u]
  <2>1. DOMAIN books \subseteq Tokens
    BY DEF IInv, StateOK, IsTable
  <2> QED BY <2>1 DEF Put
<1>3. /\ nth \in [1 .. Cardinality(filled) -> filled]
      /\ DOMAIN reply' = 1 .. Cardinality(filled)
      /\ \A i \in DOMAIN reply' :
            /\ reply'[i].type = "trade"
            /\ reply'[i].side = open_orders[nth[i]].side
            /\ reply'[i].limit = open_orders[nth[i]].price
            /\ reply'[i].price = BestPrice(view, Opposite(open_orders[nth[i]].side))
  BY <1>1 DEF Round
<1>4. ASSUME NEW side \in Side
      PROVE  /\ Traded(reply', TradesOn(reply', t, side))
                    = SumFunctionOnSet(taken, Takers(t, view, side))
             /\ SumFunctionOnSet(taken, Takers(t, view, side))
                    <= TopQuantity(view, Opposite(side))
             /\ \A i \in TradesOn(reply', t, side) :
                    /\ nth[i] \in Takers(t, view, side) /\ taken[nth[i]] > 0
                    /\ reply'[i].order = nth[i]
             /\ \A u \in Tokens : u # t => TradesOn(reply', u, side) = {}
  <2>1. SumFunctionOnSet(taken, Takers(t, view, side)) <= TopQuantity(view, Opposite(side))
    BY <1>1 DEF Round
  <2>2. /\ Traded(reply', TradesOn(reply', t, side))
                = SumFunctionOnSet(taken, Takers(t, view, side))
        /\ \A i \in TradesOn(reply', t, side) :
                /\ nth[i] \in Takers(t, view, side) /\ taken[nth[i]] > 0
                /\ reply'[i].order = nth[i]
        /\ \A u \in Tokens : u # t => TradesOn(reply', u, side) = {}
    BY <1>1, RoundTraded
  <2> QED BY <2>1, <2>2
<1>5. SharedOnce
  <2>1. ASSUME NEW u \in DOMAIN books', NEW side \in Side PROVE SharesTop(u, side)
    <3>1. CASE u # t
      <4>1. TradesOn(reply', u, side) = {}
        BY <1>2, <1>4, <3>1
      <4> QED BY <4>1 DEF SharesTop
    <3>2. CASE u = t
      <4>1. Traded(reply', TradesOn(reply', t, side)) <= TopQuantity(view, Opposite(side))
        BY <1>4
      <4>2. ASSUME NEW i \in TradesOn(reply', t, side)
            PROVE  /\ reply'[i].price = BestPrice(view, Opposite(side))
                   /\ Crosses(side, reply'[i].limit, reply'[i].price)
        <5>1. PICK order : order = open_orders[nth[i]]
          OBVIOUS
        <5>2. order.side = side /\ Marketable(view, order)
          BY <1>4, <5>1 DEF Takers
        <5>3. i \in DOMAIN reply'
          BY DEF TradesOn
        <5>4. /\ reply'[i].limit = order.price
              /\ reply'[i].price = BestPrice(view, Opposite(side))
          BY <1>3, <5>1, <5>2, <5>3
        <5>5. Crosses(side, order.price, BestPrice(view, Opposite(side)))
          BY <5>2 DEF Marketable
        <5> QED BY <5>4, <5>5
      <4> QED BY <1>2, <3>2, <4>1, <4>2 DEF SharesTop
    <3> QED BY <3>1, <3>2
  <2> QED BY <2>1 DEF SharedOnce
<1>6. NoneBehind
  <2> SUFFICES ASSUME NEW u \in DOMAIN books, books'[u] # books[u],
                      NEW n \in DOMAIN open_orders', open_orders'[n].token = u
               PROVE  LeftFairly(n)
    BY DEF NoneBehind
  <2>1. u = t
    BY <1>2
  <2>2. PICK after : after = open_orders'[n]
    OBVIOUS
  <2>3. PICK order : order = open_orders[n]
    OBVIOUS
  <2>4. /\ n \in DOMAIN open_orders /\ after.token = t /\ order.token = t
        /\ after.side = order.side /\ after.price = order.price
        /\ \A side \in Side : n \in Takers(t, view, side) => taken[n] < order.remaining
    BY <1>1, <2>1, <2>2, <2>3 DEF Round
  <2>5. PICK side \in Side : side = order.side
    <3>1. order \in Order
      BY <2>3, <2>4, Disassemble DEF Sound, IsTable
    <3> QED BY <3>1 DEF Order
  <2>6. ASSUME Marketable(view, after)
        PROVE  /\ Traded(reply', TradesOn(reply', t, side)) = TopQuantity(view, Opposite(side))
               /\ \A i \in TradesOn(reply', t, side) : reply'[i].order <= n
    <3>1. Marketable(view, order)
      BY <2>4, <2>6 DEF Marketable
    <3>2. n \in ids_by_token[t]
      BY <2>3, <2>4 DEF IInv, OrdersIndexed
    <3>3. n \in Takers(t, view, side)
      BY <2>3, <2>4, <2>5, <3>1, <3>2 DEF Takers
    <3>4. /\ SumFunctionOnSet(taken, Takers(t, view, side)) = TopQuantity(view, Opposite(side))
          /\ \A m \in Takers(t, view, side) : n < m => taken[m] = 0
      BY <1>1, <2>3, <2>4, <3>3 DEF Round
    <3>5. ASSUME NEW i \in TradesOn(reply', t, side) PROVE reply'[i].order <= n
      <4>1. PICK m : m = nth[i]
        OBVIOUS
      <4>2. m \in Takers(t, view, side) /\ taken[m] > 0 /\ reply'[i].order = m
        BY <1>4, <4>1
      <4>3. ~ (n < m)
        BY <3>4, <4>2
      <4>4. m \in Int /\ n \in Int
        <5>1. DOMAIN open_orders \subseteq FirstOrder .. next_order - 1
          BY DEF IInv, StateOK, IsTable
        <5> QED BY <2>4, <4>2, <5>1 DEF Takers
      <4> QED BY <4>2, <4>3, <4>4
    <3> QED BY <1>4, <3>4, <3>5
  <2> QED BY <1>2, <2>2, <2>4, <2>5, <2>6 DEF LeftFairly
<1>7. InFull
  BY <1>3 DEF InFull
<1> QED BY <1>5, <1>6, <1>7

LEMMA NothingSaidFair ==
    ASSUME reply' = <<>>, books' = books
    PROVE  SharedOnce /\ NoneBehind /\ InFull
<1>1. DOMAIN reply' = {}
  OBVIOUS
<1> QED BY <1>1, QuietCall

LEMMA OneEventFair ==
    ASSUME NEW event, event.type \notin {"trade", "confirmed"}, reply' = <<event>>,
           books' = books
    PROVE  SharedOnce /\ NoneBehind /\ InFull
<1>1. \A i \in DOMAIN reply' : reply'[i] = event
  OBVIOUS
<1> QED BY <1>1, QuietCall

-----------------------------------------------------------------------------
(* Every step.                                                             *)

LEMMA RequestFair ==
    ASSUME IInv, NEW s \in Sessions, Request(s)
    PROVE  SharedOnce /\ NoneBehind /\ InFull
<1>1. CASE RefuseEntry(s)
  BY <1>1, OneEventFair DEF RefuseEntry, Refuse, ErrorEvent
<1>2. ASSUME NEW t \in Tokens, RefuseToken(s, t)
      PROVE  SharedOnce /\ NoneBehind /\ InFull
  BY <1>2, OneEventFair DEF RefuseToken, Refuse, ErrorEvent
<1>3. ASSUME NEW t \in Tokens, NEW side \in Side, NEW price \in Prices,
             NEW volume \in Volumes, NewOrder(s, t, side, price, volume)
      PROVE  SharedOnce /\ NoneBehind /\ InFull
  BY <1>3, NewOrderFair
<1>4. ASSUME NEW n, NEW type \in {"modify_error", "cancel_error"}, NEW error,
             RefuseUpdate(s, n, type, error)
      PROVE  SharedOnce /\ NoneBehind /\ InFull
  BY <1>4, OneEventFair DEF RefuseUpdate, Refuse, ErrorEvent
<1>5. ASSUME NEW n, NEW price \in Prices, NEW volume \in Volumes,
             NEW remaining \in Claims, NEW claimed \in Claims,
             ModifyOrder(s, n, price, volume, remaining, claimed)
      PROVE  SharedOnce /\ NoneBehind /\ InFull
  BY <1>5, ModifyOrderFair
<1>6. ASSUME NEW n, CancelOrder(s, n) PROVE SharedOnce /\ NoneBehind /\ InFull
  BY <1>6, OneEventFair DEF CancelOrder, OrderEvent
<1> QED
  BY <1>1, <1>2, <1>3, <1>4, <1>5, <1>6 DEF Request

LEMMA MarketMessageFair ==
    ASSUME IInv, Own, NEW t \in Tokens, MarketMessage(t)
    PROVE  SharedOnce /\ NoneBehind /\ InFull
<1>1. CASE IgnoreToken(t)
  BY <1>1, NothingSaidFair DEF IgnoreToken
<1>2. ASSUME NEW view, IsBook(view), BookUpdate(t, view)
      PROVE  SharedOnce /\ NoneBehind /\ InFull
  BY <1>2, FillRestingFair DEF BookUpdate
<1>3. PICK view : view = BookOf(t)
  OBVIOUS
<1>4. IsBook(view)
  BY <1>3, BookOfType DEF IInv
<1>5. ASSUME NEW price \in Prices, NEW quantity \in Ticks, NEW id \in MarketIds,
             NEW side \in Side, TbtOrder(t, id, side, price, quantity)
      PROVE  SharedOnce /\ NoneBehind /\ InFull
  <2>1. /\ IsBook(OnNew(view, id, side, price, quantity))
        /\ IsBook(OnModify(view, id, side, price, quantity))
        /\ IsBook(OnCancel(view, id, side, price, quantity))
    BY <1>4, EngineAssumption, HandlersKeepBook
  <2>2. \/ BookUpdate(t, OnNew(view, id, side, price, quantity))
        \/ BookUpdate(t, OnModify(view, id, side, price, quantity))
        \/ BookUpdate(t, OnCancel(view, id, side, price, quantity))
    BY <1>3, <1>5 DEF TbtOrder
  <2> QED
    BY <2>1, <2>2, <1>2
<1>6. ASSUME NEW price \in Prices, NEW quantity \in Ticks,
             NEW id \in MarketIds, NEW sell_id \in MarketIds,
             TbtTrade(t, id, sell_id, price, quantity)
      PROVE  SharedOnce /\ NoneBehind /\ InFull
  <2>1. PICK side \in Side : TRUE
    BY DEF Side
  <2>2. IsBook(OnTrade(view, id, sell_id, price, quantity))
    BY <1>4, <2>1, EngineAssumption, HandlersKeepBook
  <2>3. BookUpdate(t, OnTrade(view, id, sell_id, price, quantity))
    BY <1>3, <1>6 DEF TbtTrade
  <2> QED
    BY <2>2, <2>3, <1>2
<1> QED
  BY <1>1, <1>5, <1>6 DEF MarketMessage

LEMMA NextFair ==
    ASSUME IInv, Own, Next
    PROVE  SharedOnce /\ NoneBehind /\ InFull
<1>1. ASSUME NEW s \in Sessions, Request(s) PROVE SharedOnce /\ NoneBehind /\ InFull
  BY <1>1, RequestFair
<1>2. ASSUME NEW s \in Sessions, Close(s) PROVE SharedOnce /\ NoneBehind /\ InFull
  BY <1>2, NothingSaidFair DEF Close, WriteFailed, WorkerExit, Expire, DropOrders
<1>3. ASSUME NEW t \in Tokens, MarketMessage(t) PROVE SharedOnce /\ NoneBehind /\ InFull
  BY <1>3, MarketMessageFair
<1> QED
  BY <1>1, <1>2, <1>3 DEF Next

\* An order listed under a token or a session is of that token or session, in
\* every reachable state of every engine.
LEMMA Owned == Spec => [](IInv /\ Own)
<1>1. Spec => []IInv
  BY Invariance
<1>2. Init => Own
  BY InitShows
<1>3. IInv /\ Own /\ [Next]_vars => Own'
  BY NextShows
<1> QED
  BY <1>1, <1>2, <1>3, PTL DEF Spec

\* For every engine: the trades of one call on one side of a token add up to no
\* more than the quantity at the opposite top, all at that price and none beyond
\* its order's limit, whatever orders rest and whatever the book holds.
THEOREM TopShared == Spec => TopSharedOnce
<1>1. IInv /\ Own /\ [Next]_vars =>
        [market_data => \A t \in DOMAIN books', side \in Side : SharesTop(t, side)]_vars
  BY NextFair DEF SharedOnce
<1> QED
  BY <1>1, Owned, PTL DEF Spec, TopSharedOnce

\* For every engine: an order that a book update leaves crossing the top has
\* lost it to orders accepted before it, which took the whole of it.
THEOREM NoneStayBehind == Spec => NoneLeftBehind
<1>1. IInv /\ Own /\ [Next]_vars =>
        [\A t \in DOMAIN books : books'[t] # books[t] =>
            \A n \in DOMAIN open_orders' : open_orders'[n].token = t => LeftFairly(n)]_vars
  BY NextFair DEF NoneBehind
<1> QED
  BY <1>1, Owned, PTL DEF Spec, NoneLeftBehind

\* For every engine: every unit of a confirmed order's volume is traded, rests
\* or is cancelled in the reply that confirms it.
THEOREM AcceptedSettled == Spec => AcceptedInFull
<1>1. IInv /\ Own /\ [Next]_vars =>
        [\A i \in DOMAIN reply' : reply'[i].type = "confirmed" => Settled(i)]_vars
  BY NextFair DEF InFull
<1> QED
  BY <1>1, Owned, PTL DEF Spec, AcceptedInFull

=============================================================================
