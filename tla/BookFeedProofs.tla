--------------------------- MODULE BookFeedProofs ---------------------------
(***************************************************************************)
(* The four message handlers keep a book a book, whatever they are told:   *)
(* unknown ids, repeated ids, any price and any 32-bit quantity.  The book *)
(* of a token follows its feed, and never overstates on a bad one: for any *)
(* orders, prices, sizes and any number of datagrams under way.            *)
(***************************************************************************)
EXTENDS BookFeed, FiniteSetTheorems, SequenceTheorems, TLAPS

-----------------------------------------------------------------------------
(* Tables.                                                                 *)

\* Writing one entry of a table.
LEMMA TablePut ==
    ASSUME NEW K, NEW V, NEW f, IsTable(f, K, V), NEW k \in K, NEW v \in V
    PROVE  /\ IsTable(Put(f, k, v), K, V)
           /\ DOMAIN Put(f, k, v) = DOMAIN f \cup {k}
           /\ Put(f, k, v)[k] = v
           /\ \A x \in DOMAIN f : x # k => Put(f, k, v)[x] = f[x]
BY DEF IsTable, Put

\* Cutting a table down to some of its keys.
LEMMA TableRestrict ==
    ASSUME NEW K, NEW V, NEW f, IsTable(f, K, V), NEW S, S \subseteq DOMAIN f
    PROVE  /\ IsTable(Restrict(f, S), K, V)
           /\ DOMAIN Restrict(f, S) = S
           /\ \A x \in S : Restrict(f, S)[x] = f[x]
BY DEF IsTable, Restrict

\* Erasing one key.
LEMMA TableWithout ==
    ASSUME NEW K, NEW V, NEW f, IsTable(f, K, V), NEW k
    PROVE  IsTable(Without(f, k), K, V)
BY TableRestrict DEF Without

-----------------------------------------------------------------------------
(* Levels.                                                                 *)

\* addLevel keeps a side of the book well formed.
LEMMA AddLevelType ==
    ASSUME NEW levels, IsTable(levels, Prices, Level),
           NEW price \in Prices, NEW quantity \in Quantity
    PROVE  IsTable(AddLevel(levels, price, quantity), Prices, Level)
<1> DEFINE old == IF price \in DOMAIN levels THEN levels[price]
                  ELSE [quantity |-> 0, order_count |-> 0]
           new == [quantity |-> old.quantity + quantity, order_count |-> old.order_count + 1]
<1>1. old \in Level
  BY DEF IsTable, Level
<1>2. quantity \in Nat
  BY BookAssumption DEF Quantity
<1>3. new \in Level
  BY <1>1, <1>2 DEF Level
<1> HIDE DEF new
<1>4. IsTable(Put(levels, price, new), Prices, Level)
  BY <1>3, TablePut
<1> QED
  BY <1>4 DEF AddLevel, new

\* removeLevel does: it never shows a negative quantity, whatever it is asked for.
LEMMA RemoveLevelType ==
    ASSUME NEW levels, IsTable(levels, Prices, Level),
           NEW price \in Prices, NEW quantity \in Quantity, NEW decrement \in BOOLEAN
    PROVE  IsTable(RemoveLevel(levels, price, quantity, decrement), Prices, Level)
<1> DEFINE level == levels[price]
           count == IF decrement /\ level.order_count > 0
                    THEN level.order_count - 1 ELSE level.order_count
           new == [quantity |-> level.quantity - quantity, order_count |-> count]
<1>1. CASE price \notin DOMAIN levels
  BY <1>1 DEF RemoveLevel
<1>2. CASE price \in DOMAIN levels
  <2>1. level \in Level
    BY <1>2 DEF IsTable
  <2>2. count \in Nat
    BY <2>1 DEF Level
  <2>3. CASE level.quantity <= quantity \/ count = 0
    <3>1. RemoveLevel(levels, price, quantity, decrement) = Without(levels, price)
      BY <1>2, <2>3 DEF RemoveLevel
    <3> QED
      BY <3>1, TableWithout
  <2>4. CASE ~(level.quantity <= quantity \/ count = 0)
    <3>1. new \in Level
      BY <2>1, <2>2, <2>4, BookAssumption DEF Level, Quantity
    <3>2. RemoveLevel(levels, price, quantity, decrement) = Put(levels, price, new)
      BY <1>2, <2>4 DEF RemoveLevel
    <3> HIDE DEF new
    <3>3. IsTable(Put(levels, price, new), Prices, Level)
      BY <3>1, TablePut
    <3> QED
      BY <3>2, <3>3
  <2> QED
    BY <2>3, <2>4
<1> QED
  BY <1>1, <1>2

-----------------------------------------------------------------------------
(* Books.                                                                  *)

\* Either side of a book is a table of levels.
LEMMA BookSides ==
    ASSUME NEW b, IsBook(b), NEW side \in Side
    PROVE  IsTable(b[side], Prices, Level)
BY DEF IsBook

\* Replacing one side and the orders of a book.
LEMMA BookUpdateType ==
    ASSUME NEW b, IsBook(b), NEW side \in Side,
           NEW levels, IsTable(levels, Prices, Level),
           NEW orders, IsTable(orders, MarketIds, MarketOrder)
    PROVE  IsBook(Revise(b, side, levels, orders))
<1>1. CASE side = "buy"
  BY <1>1 DEF IsBook, Side, Revise
<1>2. CASE side = "sell"
  BY <1>2 DEF IsBook, Side, Revise
<1> QED
  BY <1>1, <1>2 DEF Side

LEMMA EmptyBookType == IsBook(EmptyBook)
BY DEF IsBook, EmptyBook, Empty, IsTable, Side

LEMMA InsertType ==
    ASSUME NEW b, IsBook(b), NEW id \in MarketIds, NEW side \in Side,
           NEW price \in Prices, NEW quantity \in Quantity
    PROVE  IsBook(Insert(b, id, side, price, quantity))
<1> DEFINE levels == AddLevel(b[side], price, quantity)
           order == [side |-> side, price |-> price, quantity |-> quantity]
           orders == Put(b.orders, id, order)
<1>1. IsTable(levels, Prices, Level)
  BY AddLevelType, BookSides
<1>2. order \in MarketOrder
  BY DEF MarketOrder
<1>3. IsTable(orders, MarketIds, MarketOrder)
  BY <1>2, TablePut DEF IsBook
<1>4. Insert(b, id, side, price, quantity)
        = Revise(b, side, levels, orders)
  BY DEF Insert
<1> HIDE DEF levels, orders
<1> QED
  BY <1>1, <1>3, <1>4, BookUpdateType

LEMMA RemoveKnownType ==
    ASSUME NEW b, IsBook(b), NEW id \in DOMAIN b.orders, NEW quantity \in Quantity
    PROVE  IsBook(RemoveKnown(b, id, quantity))
<1> DEFINE order == b.orders[id]
           whole == quantity = 0 \/ quantity >= order.quantity
           taken == IF whole THEN order.quantity ELSE quantity
           levels == RemoveLevel(b[order.side], order.price, taken, whole)
           orders == IF whole THEN Without(b.orders, id)
                     ELSE [b.orders EXCEPT ![id].quantity = @ - taken]
<1>1. order \in MarketOrder
  BY DEF IsBook, IsTable
<1>2. taken \in Quantity /\ order.side \in Side /\ order.price \in Prices
  BY <1>1 DEF MarketOrder
<1>3. IsTable(levels, Prices, Level)
  BY <1>2, RemoveLevelType, BookSides
<1>4. IsTable(orders, MarketIds, MarketOrder)
  <2>1. CASE whole
    BY <2>1, TableWithout DEF IsBook
  <2>2. CASE ~whole
    <3>1. order.quantity - taken \in Quantity
      BY <1>1, <2>2, BookAssumption DEF MarketOrder, Quantity
    <3>2. [order EXCEPT !.quantity = @ - taken] \in MarketOrder
      BY <1>1, <3>1 DEF MarketOrder
    <3>3. orders = [b.orders EXCEPT ![id] = [order EXCEPT !.quantity = @ - taken]]
      BY <2>2
    <3> HIDE DEF orders, taken, order
    <3> QED
      BY <3>2, <3>3 DEF IsBook, IsTable
  <2> QED
    BY <2>1, <2>2
<1>5. RemoveKnown(b, id, quantity)
        = Revise(b, order.side, levels, orders)
  BY DEF RemoveKnown
<1> HIDE DEF order, levels, orders
<1> QED
  BY <1>2, <1>3, <1>4, <1>5, BookUpdateType

LEMMA TakeOutType ==
    ASSUME NEW b, IsBook(b), NEW id, NEW side \in Side,
           NEW price \in Prices, NEW quantity \in Quantity
    PROVE  IsBook(TakeOut(b, id, side, price, quantity))
<1>1. CASE id \in DOMAIN b.orders
  BY <1>1, RemoveKnownType DEF TakeOut
<1>2. CASE id \notin DOMAIN b.orders
  <2> DEFINE levels == RemoveLevel(b[side], price, quantity, FALSE)
  <2>1. IsTable(levels, Prices, Level)
    BY RemoveLevelType, BookSides
  <2>2. TakeOut(b, id, side, price, quantity) = Revise(b, side, levels, b.orders)
    BY <1>2 DEF TakeOut
  <2>3. IsTable(b.orders, MarketIds, MarketOrder)
    BY DEF IsBook
  <2> HIDE DEF levels
  <2> QED
    BY <2>1, <2>2, <2>3, BookUpdateType
<1> QED
  BY <1>1, <1>2

LEMMA OnModifyType ==
    ASSUME NEW b, IsBook(b), NEW id \in MarketIds, NEW side \in Side,
           NEW price \in Prices, NEW quantity \in Quantity
    PROVE  IsBook(OnModify(b, id, side, price, quantity))
<1>1. CASE id \notin DOMAIN b.orders
  BY <1>1, InsertType DEF OnModify
<1>2. CASE id \in DOMAIN b.orders
  <2> DEFINE old == b.orders[id]
             levels == RemoveLevel(b[old.side], old.price, old.quantity, TRUE)
             orders == Without(b.orders, id)
             rest == Revise(b, old.side, levels, orders)
  <2>1. old \in MarketOrder
    BY <1>2 DEF IsBook, IsTable
  <2>2. old.side \in Side /\ old.price \in Prices /\ old.quantity \in Quantity
    BY <2>1 DEF MarketOrder
  <2>3. IsTable(levels, Prices, Level)
    BY <2>2, RemoveLevelType, BookSides
  <2>4. IsTable(orders, MarketIds, MarketOrder)
    BY TableWithout DEF IsBook
  <2>5. OnModify(b, id, side, price, quantity) = Insert(rest, id, side, price, quantity)
    BY <1>2 DEF OnModify
  <2> HIDE DEF levels, orders, old
  <2>6. IsBook(rest)
    BY <2>2, <2>3, <2>4, BookUpdateType
  <2> HIDE DEF rest
  <2> QED
    BY <2>5, <2>6, InsertType
<1> QED
  BY <1>1, <1>2

\* Any order message, for any id, price, side and quantity, and any trade message
\* turn a well-formed book into a well-formed book.
THEOREM HandlersKeepBook ==
    ASSUME NEW b, IsBook(b),
           NEW id \in MarketIds, NEW other \in MarketIds, NEW side \in Side,
           NEW price \in Prices, NEW quantity \in Quantity
    PROVE  /\ IsBook(OnNew(b, id, side, price, quantity))
           /\ IsBook(OnModify(b, id, side, price, quantity))
           /\ IsBook(OnCancel(b, id, side, price, quantity))
           /\ IsBook(OnTrade(b, id, other, price, quantity))
<1>1. IsBook(OnModify(b, id, side, price, quantity))
  BY OnModifyType
<1>2. IsBook(OnNew(b, id, side, price, quantity))
  BY <1>1, InsertType DEF OnNew
<1>3. IsBook(OnCancel(b, id, side, price, quantity))
  BY TakeOutType DEF OnCancel
<1>4. IsBook(TakeOut(b, id, "buy", price, quantity))
  BY TakeOutType DEF Side
<1>5. IsBook(OnTrade(b, id, other, price, quantity))
  BY <1>4, TakeOutType DEF OnTrade, Side
<1> QED
  BY <1>1, <1>2, <1>3, <1>5

-----------------------------------------------------------------------------
(* Top of book.                                                            *)

\* A nonempty set of naturals has a least element, and Min names it.
LEMMA MinOfNaturals ==
    ASSUME NEW S \in SUBSET Nat, S # {}
    PROVE  Min(S) \in S /\ \A x \in S : Min(S) <= x
<1> DEFINE R == OpToRel(<, Nat)
<1>1. \A x, y \in Nat : <<x, y>> \in R <=> x < y
  BY DEF OpToRel
<1>2. IsWellFoundedOn(R, Nat)
  BY NatLessThanWellFounded
<1> HIDE DEF R
<1>3. PICK x \in S : \A y \in S : ~(<<y, x>> \in R)
  BY <1>2, WFMin
<1>4. ASSUME NEW y \in S PROVE x <= y
  <2>1. x \in Nat /\ y \in Nat
    OBVIOUS
  <2>2. <<y, x>> \in R <=> y < x
    BY <1>1, <2>1, Zenon
  <2>3. ~(y < x)
    BY <1>3, <2>2, Zenon
  <2> QED
    BY <2>1, <2>3
<1> QED
  BY <1>4 DEF Min

\* A nonempty set of naturals with an upper bound has a greatest element.
LEMMA MaxOfNaturals ==
    ASSUME NEW b \in Nat, NEW S \in SUBSET (0 .. b), S # {}
    PROVE  Max(S) \in S /\ \A x \in S : x <= Max(S)
<1> DEFINE T == {b - x : x \in S}
<1>1. T \in SUBSET Nat /\ T # {}
  <2>1. \A x \in S : b - x \in Nat
    OBVIOUS
  <2> QED
    BY <2>1, Zenon
<1>2. \E y \in T : \A z \in T : y <= z
  <2> HIDE DEF T
  <2> QED
    BY <1>1, MinOfNaturals
<1>3. PICK x \in S : \A z \in S : b - x <= b - z
  BY <1>2
<1>4. \A z \in S : z <= x
  BY <1>3
<1> QED
  BY <1>4 DEF Max

\* The price a book shows at the top of a side that is not empty is one of its
\* prices, and none of them is better.
THEOREM BestPriceIsBest ==
    ASSUME NEW b, IsBook(b), NEW side \in Side, DOMAIN b[side] # {}
    PROVE  /\ BestPrice(b, side) \in DOMAIN b[side]
           /\ \A price \in DOMAIN b[side] :
                IF side = "buy" THEN price <= BestPrice(b, side)
                ELSE BestPrice(b, side) <= price
<1>1. DOMAIN b[side] \in SUBSET (0 .. U32 - 1)
  BY BookSides, BookAssumption DEF IsTable
<1>2. U32 - 1 \in Nat
  BY BookAssumption
<1>3. DOMAIN b[side] \in SUBSET Nat
  BY <1>1, <1>2
<1> QED
  BY <1>1, <1>2, <1>3, MinOfNaturals, MaxOfNaturals DEF BestPrice

\* Whatever a level has grown to, the top is shown as a 32-bit quantity.
LEMMA TopQuantityType ==
    ASSUME NEW b, IsBook(b), NEW side \in Side
    PROVE  TopQuantity(b, side) \in Quantity
<1>1. CASE DOMAIN b[side] = {}
  BY <1>1, BookAssumption DEF TopQuantity, Quantity
<1>2. CASE DOMAIN b[side] # {}
  <2>1. b[side][BestPrice(b, side)] \in Level
    BY <1>2, BestPriceIsBest, BookSides DEF IsTable
  <2>2. b[side][BestPrice(b, side)].quantity \in Nat
    BY <2>1 DEF Level
  <2> QED
    BY <1>2, <2>2, BookAssumption DEF TopQuantity, Quantity
<1> QED
  BY <1>1, <1>2

-----------------------------------------------------------------------------
(* Sums.  SumFunctionOnSet is a recursive function on the subsets of a     *)
(* set.  Induction is by a least counterexample: of the subsets of a       *)
(* finite set that violate a claim one has no smaller one in it (LeastSet).*)

\* A bad set has a least bad subset.
LEMMA LeastSet ==
    ASSUME NEW S, IsFiniteSet(S), NEW Bad \in SUBSET SUBSET S, Bad # {}
    PROVE  \E T \in Bad : \A U \in Bad : U \subseteq T => U = T
<1>1. IsWellFoundedOn(StrictSubsetOrdering(S), SUBSET S)
  BY FS_StrictSubsetOrderingWellFounded, FS_FiniteSubsetsOfFinite
<1>2. PICK T \in Bad : \A U \in Bad : ~ (<<U, T>> \in StrictSubsetOrdering(S))
  BY <1>1, WFMin
<1>3. \A U \in Bad : U \subseteq T => U = T
  BY <1>2 DEF StrictSubsetOrdering
<1> QED BY <1>3

\* The equation the sum over the subsets of S is defined by.
Adds(f, S, g) ==
    g = [s \in SUBSET S |->
            IF s = {} THEN 0 ELSE LET x == CHOOSE x \in s : TRUE IN f[x] + g[s \ {x}]]

LEMMA SumIs ==
    ASSUME NEW f, NEW S
    PROVE  SumFunctionOnSet(f, S) = (CHOOSE g : Adds(f, S, g))[S]
BY DEF SumFunctionOnSet, FoldFunctionOnSet, MapThenFoldSet, Adds

\* The equation has a solution: build it up by the size of the subsets.
LEMMA SumDefined ==
    ASSUME NEW f, NEW S, IsFiniteSet(S)
    PROVE  \E g : Adds(f, S, g)
<1> DEFINE Upto(n) == {s \in SUBSET S : Cardinality(s) <= n}
           Value(g, s) == IF s = {} THEN 0
                          ELSE LET x == CHOOSE x \in s : TRUE IN f[x] + g[s \ {x}]
           Stage(n) == \E g : g = [s \in Upto(n) |-> Value(g, s)]
           Bad == {n \in Nat : ~ Stage(n)}
<1>1. \A s \in SUBSET S : IsFiniteSet(s) /\ Cardinality(s) \in Nat
  BY FS_Subset, FS_CardinalityType
<1>2. \A n \in Nat : Stage(n)
  <2> SUFFICES ASSUME Bad # {} PROVE FALSE
    OBVIOUS
  <2>1. PICK n \in Bad : \A m \in Bad : n <= m
    <3>1. Bad \in SUBSET Nat
      OBVIOUS
    <3> HIDE DEF Bad
    <3> QED BY <3>1, MinOfNaturals
  <2>2. CASE n = 0
    <3> DEFINE g == [s \in Upto(0) |-> 0]
    <3>1. \A s \in Upto(0) : s = {}
      BY <1>1, FS_EmptySet
    <3>2. g = [s \in Upto(0) |-> Value(g, s)]
      BY <3>1
    <3> HIDE DEF g
    <3>3. Stage(0)
      BY <3>2
    <3> QED BY <3>3, <2>2, <2>1
  <2>3. CASE n # 0
    <3>1. n \in Nat /\ n - 1 \in Nat /\ n - 1 \notin Bad
      <4>1. n \in Nat
        BY <2>1
      <4>2. n - 1 \in Nat /\ ~ (n <= n - 1)
        BY <4>1, <2>3
      <4> HIDE DEF Bad
      <4> QED BY <4>1, <4>2, <2>1
    <3>2. PICK g : g = [s \in Upto(n - 1) |-> Value(g, s)]
      BY <3>1
    <3> DEFINE h == [s \in Upto(n) |-> Value(g, s)]
    <3>3. ASSUME NEW s \in Upto(n), s # {}
          PROVE  Value(g, s) = Value(h, s)
      <4> DEFINE x == CHOOSE x \in s : TRUE
                 r == s \ {x}
      <4>1. x \in s
        BY <3>3
      <4>2. r \in SUBSET S /\ Cardinality(r) = Cardinality(s) - 1
        BY <4>1, <1>1, FS_RemoveElement
      <4>3. r \in Upto(n - 1) /\ r \in Upto(n)
        BY <4>2, <3>1, <1>1
      <4>4. g[r] = Value(g, r)
        BY <3>2, <4>3
      <4>5. h[r] = Value(g, r)
        BY <4>3
      <4> QED BY <4>4, <4>5, <3>3
    <3>4. \A s \in Upto(n) : Value(g, s) = Value(h, s)
      BY <3>3
    <3>5. h = [s \in Upto(n) |-> Value(h, s)]
      <4> HIDE DEF Value
      <4> QED BY <3>4
    <3> HIDE DEF h
    <3>6. Stage(n)
      BY <3>5
    <3> QED BY <3>6, <2>1
  <2> QED BY <2>2, <2>3
<1>3. Upto(Cardinality(S)) = SUBSET S
  BY <1>1, FS_Subset
<1>4. PICK g : g = [s \in Upto(Cardinality(S)) |-> Value(g, s)]
  BY <1>1, <1>2
<1>5. Adds(f, S, g)
  BY <1>3, <1>4 DEF Adds
<1> QED BY <1>5

\* Solutions over two sets agree where both are defined.
LEMMA SolutionsAgree ==
    ASSUME NEW f, NEW S, IsFiniteSet(S), NEW T \in SUBSET S,
           NEW g, Adds(f, S, g), NEW h, Adds(f, T, h)
    PROVE  g[T] = h[T]
<1> DEFINE Bad == {s \in SUBSET T : g[s] # h[s]}
<1> SUFFICES ASSUME Bad # {} PROVE FALSE
  OBVIOUS
<1>1. PICK s \in Bad : \A U \in Bad : U \subseteq s => U = s
  <2>1. IsFiniteSet(T) /\ Bad \in SUBSET SUBSET T
    BY FS_Subset
  <2> HIDE DEF Bad
  <2> QED BY <2>1, LeastSet
<1>2. s # {}
  BY <1>1 DEF Adds
<1> DEFINE x == CHOOSE x \in s : TRUE
           r == s \ {x}
<1>3. x \in s
  BY <1>2
<1>4. r \in SUBSET T /\ r \subseteq s /\ r # s /\ s \in SUBSET S /\ s \in SUBSET T
  BY <1>1, <1>3
<1>5. g[r] = h[r]
  BY <1>1, <1>4
<1>6. g[s] = f[x] + g[r] /\ h[s] = f[x] + h[r]
  BY <1>2, <1>4 DEF Adds
<1> QED BY <1>1, <1>5, <1>6

\* The sums over all subsets of a set are one solution.
LEMMA SumSolution ==
    ASSUME NEW f, NEW S, IsFiniteSet(S)
    PROVE  \E g : Adds(f, S, g) /\ \A T \in SUBSET S : SumFunctionOnSet(f, T) = g[T]
<1>1. PICK g : Adds(f, S, g)
  BY SumDefined
<1>2. ASSUME NEW T \in SUBSET S
      PROVE  SumFunctionOnSet(f, T) = g[T]
  <2>1. IsFiniteSet(T)
    BY FS_Subset
  <2>2. Adds(f, T, CHOOSE h : Adds(f, T, h))
    BY <2>1, SumDefined
  <2> QED BY <1>1, <2>2, SolutionsAgree, SumIs
<1> QED BY <1>1, <1>2

\* Sums over a finite set: none, and one element taken out, whichever it is.
LEMMA SumEmpty ==
    ASSUME NEW f
    PROVE  SumFunctionOnSet(f, {}) = 0
<1>1. PICK g : Adds(f, {}, g) /\ \A T \in SUBSET {} : SumFunctionOnSet(f, T) = g[T]
  BY SumSolution, FS_EmptySet
<1> QED BY <1>1 DEF Adds

LEMMA SumInt ==
    ASSUME NEW f, NEW S, IsFiniteSet(S), \A x \in S : f[x] \in Int
    PROVE  SumFunctionOnSet(f, S) \in Int
<1>1. PICK g : Adds(f, S, g) /\ \A T \in SUBSET S : SumFunctionOnSet(f, T) = g[T]
  BY SumSolution
<1> DEFINE Bad == {T \in SUBSET S : g[T] \notin Int}
<1> SUFFICES ASSUME Bad # {} PROVE FALSE
  BY <1>1
<1>2. PICK s \in Bad : \A U \in Bad : U \subseteq s => U = s
  <2>1. Bad \in SUBSET SUBSET S
    OBVIOUS
  <2> HIDE DEF Bad
  <2> QED BY <2>1, LeastSet
<1>3. s # {}
  BY <1>2, <1>1 DEF Adds
<1> DEFINE x == CHOOSE x \in s : TRUE
           r == s \ {x}
<1>4. x \in s /\ r \in SUBSET S /\ r \subseteq s /\ r # s
  BY <1>2, <1>3
<1>5. g[s] = f[x] + g[r]
  BY <1>1, <1>3 DEF Adds
<1>6. g[r] \in Int
  BY <1>2, <1>4
<1> QED BY <1>2, <1>4, <1>5, <1>6

LEMMA SumTakeOut ==
    ASSUME NEW f, NEW S, IsFiniteSet(S), \A x \in S : f[x] \in Int, NEW y \in S
    PROVE  SumFunctionOnSet(f, S) = f[y] + SumFunctionOnSet(f, S \ {y})
<1>1. PICK g : Adds(f, S, g) /\ \A T \in SUBSET S : SumFunctionOnSet(f, T) = g[T]
  BY SumSolution
<1>2. \A T \in SUBSET S : g[T] \in Int
  BY <1>1, SumInt, FS_Subset
<1> DEFINE Bad == {T \in SUBSET S : \E z \in T : g[T] # f[z] + g[T \ {z}]}
<1>3. ASSUME Bad # {} PROVE FALSE
  <2>1. PICK s \in Bad : \A U \in Bad : U \subseteq s => U = s
    <3>1. Bad \in SUBSET SUBSET S
      OBVIOUS
    <3> HIDE DEF Bad
    <3> QED BY <3>1, <1>3, LeastSet
  <2>2. PICK z \in s : g[s] # f[z] + g[s \ {z}]
    BY <2>1
  <2> DEFINE x == CHOOSE x \in s : TRUE
  <2>3. x \in s /\ s \in SUBSET S
    BY <2>1, <2>2
  <2>4. g[s] = f[x] + g[s \ {x}]
    BY <1>1, <2>2, <2>3 DEF Adds
  <2>5. x # z
    BY <2>2, <2>4
  <2> HIDE DEF x
  <2> DEFINE r == (s \ {x}) \ {z}
  <2>6. s \ {x} \notin Bad /\ s \ {z} \notin Bad
    BY <2>1, <2>2, <2>3
  <2>7. g[s \ {x}] = f[z] + g[r]
    BY <2>2, <2>3, <2>5, <2>6
  <2>8. g[s \ {z}] = f[x] + g[r]
    <3>1. r = (s \ {z}) \ {x}
      OBVIOUS
    <3> QED BY <3>1, <2>2, <2>3, <2>5, <2>6
  <2>9. f[x] \in Int /\ f[z] \in Int /\ g[r] \in Int
    BY <1>2, <2>2, <2>3
  <2> QED BY <2>2, <2>4, <2>7, <2>8, <2>9
<1> QED BY <1>1, <1>3

\* Adding one element.
LEMMA SumPutIn ==
    ASSUME NEW f, NEW S, IsFiniteSet(S), NEW y, y \notin S, \A x \in S \cup {y} : f[x] \in Int
    PROVE  SumFunctionOnSet(f, S \cup {y}) = f[y] + SumFunctionOnSet(f, S)
<1> DEFINE all == S \cup {y}
<1>1. IsFiniteSet(all)
  BY FS_AddElement
<1>2. all \ {y} = S /\ y \in all
  OBVIOUS
<1>3. \A x \in all : f[x] \in Int
  OBVIOUS
<1> HIDE DEF all
<1>4. SumFunctionOnSet(f, all) = f[y] + SumFunctionOnSet(f, all \ {y})
  BY <1>1, <1>2, <1>3, SumTakeOut
<1> QED BY <1>2, <1>4 DEF all

\* Only the values on the set count.
LEMMA SumAgree ==
    ASSUME NEW f, NEW g, NEW S, IsFiniteSet(S), \A x \in S : f[x] \in Int /\ g[x] = f[x]
    PROVE  SumFunctionOnSet(g, S) = SumFunctionOnSet(f, S)
<1> DEFINE Bad == {T \in SUBSET S : SumFunctionOnSet(g, T) # SumFunctionOnSet(f, T)}
<1> SUFFICES ASSUME Bad # {} PROVE FALSE
  OBVIOUS
<1>1. PICK T \in Bad : \A U \in Bad : U \subseteq T => U = T
  <2>1. Bad \in SUBSET SUBSET S
    OBVIOUS
  <2> HIDE DEF Bad
  <2> QED BY <2>1, LeastSet
<1>2. T # {}
  BY <1>1, SumEmpty
<1>3. PICK y \in T : TRUE
  BY <1>2
<1>4. IsFiniteSet(T) /\ T \in SUBSET S
  BY <1>1, FS_Subset
<1>5. SumFunctionOnSet(g, T \ {y}) = SumFunctionOnSet(f, T \ {y})
  BY <1>1, <1>3
<1>6. SumFunctionOnSet(f, T) = f[y] + SumFunctionOnSet(f, T \ {y})
  BY <1>4, SumTakeOut
<1>7. SumFunctionOnSet(g, T) = g[y] + SumFunctionOnSet(g, T \ {y})
  BY <1>4, SumTakeOut
<1>8. g[y] = f[y]
  BY <1>4
<1> QED BY <1>1, <1>5, <1>6, <1>7, <1>8

\* Sums of naturals.
LEMMA SumNat ==
    ASSUME NEW f, NEW S, IsFiniteSet(S), \A x \in S : f[x] \in Nat
    PROVE  SumFunctionOnSet(f, S) \in Nat
<1> DEFINE Bad == {T \in SUBSET S : SumFunctionOnSet(f, T) \notin Nat}
<1> SUFFICES ASSUME Bad # {} PROVE FALSE
  OBVIOUS
<1>1. PICK T \in Bad : \A U \in Bad : U \subseteq T => U = T
  <2>1. Bad \in SUBSET SUBSET S
    OBVIOUS
  <2> HIDE DEF Bad
  <2> QED BY <2>1, LeastSet
<1>2. T # {}
  <2>1. SumFunctionOnSet(f, {}) \in Nat
    BY SumEmpty
  <2> QED BY <1>1, <2>1
<1>3. PICK y \in T : TRUE
  BY <1>2
<1>4. IsFiniteSet(T) /\ T \in SUBSET S
  BY <1>1, FS_Subset
<1>5. SumFunctionOnSet(f, T \ {y}) \in Nat
  BY <1>1, <1>3
<1>6. SumFunctionOnSet(f, T) = f[y] + SumFunctionOnSet(f, T \ {y})
  BY <1>4, SumTakeOut
<1> QED BY <1>1, <1>4, <1>5, <1>6

\* One value, and values that are all nothing.
LEMMA SumOne ==
    ASSUME NEW f, NEW x, f[x] \in Int
    PROVE  SumFunctionOnSet(f, {x}) = f[x]
<1>1. PICK S : S = {x}
  OBVIOUS
<1>2. IsFiniteSet(S) /\ x \in S /\ S \ {x} = {} /\ \A y \in S : f[y] \in Int
  BY <1>1, FS_Singleton
<1>3. SumFunctionOnSet(f, S) = f[x] + SumFunctionOnSet(f, S \ {x})
  BY <1>2, SumTakeOut
<1> QED BY <1>1, <1>2, <1>3, SumEmpty

LEMMA SumZero ==
    ASSUME NEW f, NEW S, IsFiniteSet(S), \A x \in S : f[x] = 0
    PROVE  SumFunctionOnSet(f, S) = 0
<1> DEFINE Bad == {T \in SUBSET S : SumFunctionOnSet(f, T) # 0}
<1> SUFFICES ASSUME Bad # {} PROVE FALSE
  OBVIOUS
<1>1. PICK T \in Bad : \A U \in Bad : U \subseteq T => U = T
  <2>1. Bad \in SUBSET SUBSET S
    OBVIOUS
  <2> HIDE DEF Bad
  <2> QED BY <2>1, LeastSet
<1>2. T # {}
  BY <1>1, SumEmpty
<1>3. PICK y \in T : TRUE
  BY <1>2
<1>4. IsFiniteSet(T) /\ T \in SUBSET S /\ \A x \in T : f[x] \in Int
  BY <1>1, FS_Subset
<1>5. SumFunctionOnSet(f, T \ {y}) = 0
  BY <1>1, <1>3
<1>6. SumFunctionOnSet(f, T) = f[y] + SumFunctionOnSet(f, T \ {y})
  BY <1>4, SumTakeOut
<1> QED BY <1>1, <1>4, <1>5, <1>6

\* A sum in two parts.
LEMMA SumSplit ==
    ASSUME NEW f, NEW S, IsFiniteSet(S), \A x \in S : f[x] \in Int, NEW T \in SUBSET S
    PROVE  SumFunctionOnSet(f, S) = SumFunctionOnSet(f, T) + SumFunctionOnSet(f, S \ T)
<1> DEFINE Sum(U) == SumFunctionOnSet(f, U)
           Bad == {U \in SUBSET S : Sum(S) # Sum(U) + Sum(S \ U)}
<1> SUFFICES ASSUME Bad # {} PROVE FALSE
  OBVIOUS
<1>1. PICK U \in Bad : \A V \in Bad : V \subseteq U => V = U
  <2>1. Bad \in SUBSET SUBSET S
    OBVIOUS
  <2> HIDE DEF Bad
  <2> QED BY <2>1, LeastSet
<1>2. \A V \in SUBSET S : IsFiniteSet(V) /\ Sum(V) \in Int
  <2>1. ASSUME NEW V \in SUBSET S PROVE IsFiniteSet(V) /\ Sum(V) \in Int
    <3>1. IsFiniteSet(V) /\ \A x \in V : f[x] \in Int
      BY FS_Subset
    <3> QED BY <3>1, SumInt
  <2> QED BY <2>1
<1>3. U # {}
  <2>1. Sum({}) = 0 /\ S \ {} = S
    BY SumEmpty
  <2>2. Sum(S) \in Int
    BY <1>2
  <2>3. Sum(S) = Sum({}) + Sum(S \ {})
    <3> HIDE DEF Sum
    <3> QED BY <2>1, <2>2
  <2> QED BY <2>3, <1>1
<1>4. PICK y \in U : TRUE
  BY <1>3
<1> DEFINE V == U \ {y}
<1>5. Sum(S) = Sum(V) + Sum(S \ V)
  BY <1>1, <1>4
<1>6. Sum(U) = f[y] + Sum(V)
  <2>1. IsFiniteSet(U) /\ \A x \in U : f[x] \in Int
    BY <1>1, <1>2
  <2> QED BY <2>1, SumTakeOut
<1>7. Sum(S \ V) = f[y] + Sum(S \ U)
  <2>1. PICK R : R = S \ V
    OBVIOUS
  <2>2. IsFiniteSet(R) /\ y \in R /\ R \ {y} = S \ U /\ \A x \in R : f[x] \in Int
    BY <2>1, <1>1, <1>2, <1>4
  <2>3. Sum(R) = f[y] + Sum(R \ {y})
    BY <2>2, SumTakeOut
  <2> QED BY <2>1, <2>2, <2>3
<1>8. /\ f[y] \in Int /\ Sum(U) \in Int /\ Sum(V) \in Int /\ Sum(S \ V) \in Int
      /\ Sum(S \ U) \in Int
  BY <1>1, <1>2, <1>4
<1>9. Sum(S) # Sum(U) + Sum(S \ U)
  BY <1>1
<1> HIDE DEF Sum, V
<1> QED BY <1>5, <1>6, <1>7, <1>8, <1>9

\* A sum over other names of the same values.
LEMMA SumRenamed ==
    ASSUME NEW I, IsFiniteSet(I), NEW name, NEW f, NEW g,
           \A i, j \in I : name[i] = name[j] => i = j,
           \A i \in I : f[name[i]] \in Int /\ g[i] = f[name[i]]
    PROVE  SumFunctionOnSet(g, I) = SumFunctionOnSet(f, {name[i] : i \in I})
<1> DEFINE Image(J) == {name[i] : i \in J}
           Bad == {J \in SUBSET I : SumFunctionOnSet(g, J) # SumFunctionOnSet(f, Image(J))}
<1> SUFFICES ASSUME Bad # {} PROVE FALSE
  OBVIOUS
<1>1. PICK J \in Bad : \A K \in Bad : K \subseteq J => K = J
  <2>1. Bad \in SUBSET SUBSET I
    OBVIOUS
  <2> HIDE DEF Bad
  <2> QED BY <2>1, LeastSet
<1>2. J # {}
  <2>1. Image({}) = {}
    OBVIOUS
  <2> HIDE DEF Image
  <2> QED BY <2>1, <1>1, SumEmpty
<1>3. PICK y \in J : TRUE
  BY <1>2
<1>4. IsFiniteSet(J) /\ J \in SUBSET I /\ \A i \in J : g[i] \in Int
  BY <1>1, FS_Subset
<1>5. SumFunctionOnSet(g, J \ {y}) = SumFunctionOnSet(f, Image(J \ {y}))
  BY <1>1, <1>3
<1>6. SumFunctionOnSet(g, J) = g[y] + SumFunctionOnSet(g, J \ {y})
  BY <1>4, SumTakeOut
<1>7. SumFunctionOnSet(f, Image(J)) = f[name[y]] + SumFunctionOnSet(f, Image(J \ {y}))
  <2>1. IsFiniteSet(Image(J))
    <3>1. PICK h : h = [i \in J |-> name[i]]
      OBVIOUS
    <3>2. h \in Surjection(J, Image(J))
      BY <3>1 DEF Surjection
    <3> HIDE DEF Image
    <3> QED BY <3>2, <1>4, FS_Surjection
  <2>2. Image(J) \ {name[y]} = Image(J \ {y}) /\ name[y] \in Image(J)
    BY <1>4
  <2>3. \A x \in Image(J) : f[x] \in Int
    BY <1>4
  <2> HIDE DEF Image
  <2>4. SumFunctionOnSet(f, Image(J)) = f[name[y]] + SumFunctionOnSet(f, Image(J) \ {name[y]})
    BY <2>1, <2>2, <2>3, SumTakeOut
  <2> QED BY <2>2, <2>4
<1> QED BY <1>1, <1>4, <1>5, <1>6, <1>7

-----------------------------------------------------------------------------
(* Orders behind levels.                                                   *)

\* Finitely many orders.
Known(orders) == IsTable(orders, MarketIds, MarketOrder) /\ IsFiniteSet(DOMAIN orders)

\* What one order adds to the level at a price, and to its count.
Share(order, side, price) ==
    IF order.side = side /\ order.price = price THEN order.quantity ELSE 0
One(order, side, price) ==
    IF order.side = side /\ order.price = price THEN 1 ELSE 0

Amounts(orders) == [id \in DOMAIN orders |-> orders[id].quantity]

-----------------------------------------------------------------------------
(* Levels as sums over orders.                                             *)

LEMMA OrderFields ==
    ASSUME NEW orders, Known(orders), NEW id \in DOMAIN orders
    PROVE  /\ orders[id] \in MarketOrder /\ id \in MarketIds
           /\ orders[id].side \in Side /\ orders[id].price \in Prices
           /\ orders[id].quantity \in Quantity /\ orders[id].quantity \in Nat
<1>1. orders[id] \in MarketOrder /\ id \in MarketIds
  BY DEF Known, IsTable
<1> QED BY <1>1, BookAssumption DEF MarketOrder, Quantity

LEMMA DepthType ==
    ASSUME NEW orders, Known(orders), NEW side, NEW price
    PROVE  /\ IsFiniteSet(At(orders, side, price))
           /\ Depth(orders, side, price) \in Nat
           /\ Cardinality(At(orders, side, price)) \in Nat
           /\ At(orders, side, price) = {} =>
                /\ Depth(orders, side, price) = 0
                /\ Cardinality(At(orders, side, price)) = 0
           /\ At(orders, side, price) # {} => Cardinality(At(orders, side, price)) > 0
<1> DEFINE S == At(orders, side, price)
<1>1. IsFiniteSet(S)
  BY FS_Subset DEF At, Known
<1>2. \A x \in S : Amounts(orders)[x] \in Nat
  BY OrderFields DEF At, Amounts
<1>3. SumFunctionOnSet(Amounts(orders), S) \in Nat
  <2> HIDE DEF S
  <2> QED BY <1>1, <1>2, SumNat
<1>4. Cardinality(S) \in Nat /\ (Cardinality(S) = 0 <=> S = {})
  BY <1>1, FS_CardinalityType, FS_EmptySet
<1>5. Depth(orders, side, price) = SumFunctionOnSet(Amounts(orders), S)
  BY DEF Depth, Amounts
<1> QED BY <1>1, <1>3, <1>4, <1>5, SumEmpty

LEMMA KnownWithout ==
    ASSUME NEW orders, Known(orders), NEW id
    PROVE  /\ Known(Without(orders, id))
           /\ DOMAIN Without(orders, id) = DOMAIN orders \ {id}
           /\ \A x \in DOMAIN orders \ {id} : Without(orders, id)[x] = orders[x]
<1>1. IsFiniteSet(DOMAIN orders \ {id})
  BY FS_Subset DEF Known
<1> QED BY <1>1, TableRestrict DEF Known, Without

LEMMA KnownPut ==
    ASSUME NEW orders, Known(orders), NEW id \in MarketIds, NEW order \in MarketOrder
    PROVE  /\ Known(Put(orders, id, order))
           /\ DOMAIN Put(orders, id, order) = DOMAIN orders \cup {id}
           /\ Put(orders, id, order)[id] = order
           /\ \A x \in DOMAIN orders : x # id => Put(orders, id, order)[x] = orders[x]
<1>1. IsFiniteSet(DOMAIN orders \cup {id})
  BY FS_AddElement DEF Known
<1> QED BY <1>1, TablePut DEF Known

\* Taking one order away.
LEMMA DepthWithout ==
    ASSUME NEW orders, Known(orders), NEW id \in DOMAIN orders, NEW side, NEW price
    PROVE  /\ Depth(orders, side, price)
                = Depth(Without(orders, id), side, price) + Share(orders[id], side, price)
           /\ Cardinality(At(orders, side, price))
                = Cardinality(At(Without(orders, id), side, price))
                    + One(orders[id], side, price)
<1> DEFINE rest == Without(orders, id)
           S == At(orders, side, price)
           T == At(rest, side, price)
           f == Amounts(orders)
           g == Amounts(rest)
<1>1. Known(rest) /\ DOMAIN rest = DOMAIN orders \ {id}
        /\ \A x \in DOMAIN rest : rest[x] = orders[x]
  BY KnownWithout
<1>2. T = S \ {id}
  BY <1>1 DEF At
<1>3. IsFiniteSet(S) /\ IsFiniteSet(T)
  BY <1>1, DepthType
<1>4. \A x \in S : f[x] \in Int
  BY OrderFields DEF At, Amounts
<1>5. \A x \in T : f[x] \in Int /\ g[x] = f[x]
  BY <1>1, <1>2, <1>4 DEF At, Amounts
<1>6. Depth(orders, side, price) = SumFunctionOnSet(f, S)
        /\ Depth(rest, side, price) = SumFunctionOnSet(g, T)
  BY DEF Depth, Amounts
<1>7. f[id] = orders[id].quantity
  BY DEF Amounts
<1>8. id \in S <=> orders[id].side = side /\ orders[id].price = price
  BY DEF At
<1>9. Depth(orders, side, price) \in Nat /\ Cardinality(S) \in Nat
  BY DepthType
<1> HIDE DEF S, T, f, g, rest
<1>10. SumFunctionOnSet(g, T) = SumFunctionOnSet(f, T)
  BY <1>3, <1>5, SumAgree
<1>11. CASE id \in S
  <2>1. SumFunctionOnSet(f, S) = f[id] + SumFunctionOnSet(f, T)
    BY <1>2, <1>3, <1>4, <1>11, SumTakeOut
  <2>2. Cardinality(T) = Cardinality(S) - 1
    BY <1>2, <1>3, <1>11, FS_RemoveElement
  <2>3. SumFunctionOnSet(f, T) \in Int
    BY <1>3, <1>5, SumInt
  <2>4. f[id] \in Int
    BY <1>4, <1>11
  <2> QED BY <1>6, <1>7, <1>8, <1>9, <1>10, <1>11, <2>1, <2>2, <2>3, <2>4 DEF Share, One, S, T, rest
<1>12. CASE id \notin S
  <2>1. T = S
    BY <1>2, <1>12
  <2> QED BY <1>6, <1>8, <1>9, <1>10, <1>12, <2>1 DEF Share, One, S, T, rest
<1> QED BY <1>11, <1>12

\* Adding one.
LEMMA DepthPut ==
    ASSUME NEW orders, Known(orders), NEW id \in MarketIds, id \notin DOMAIN orders,
           NEW order \in MarketOrder, NEW side, NEW price
    PROVE  /\ Depth(Put(orders, id, order), side, price)
                = Depth(orders, side, price) + Share(order, side, price)
           /\ Cardinality(At(Put(orders, id, order), side, price))
                = Cardinality(At(orders, side, price)) + One(order, side, price)
<1> DEFINE more == Put(orders, id, order)
<1>1. Known(more) /\ id \in DOMAIN more /\ more[id] = order
  <2>1. Known(more)
    BY KnownPut
  <2>2. DOMAIN more = DOMAIN orders \cup {id}
    BY KnownPut
  <2>3. more[id] = order
    BY DEF Put
  <2> QED BY <2>1, <2>2, <2>3
<1>2. Without(more, id) = orders
  <2>1. DOMAIN more = DOMAIN orders \cup {id} /\ \A x \in DOMAIN orders : more[x] = orders[x]
    BY KnownPut
  <2>2. orders = [x \in DOMAIN orders |-> orders[x]]
    BY DEF Known, IsTable
  <2>3. Without(more, id) = [x \in DOMAIN more \ {id} |-> more[x]]
    BY DEF Without, Restrict
  <2> HIDE DEF more
  <2> QED BY <2>1, <2>2, <2>3
<1> HIDE DEF more
<1> QED BY <1>1, <1>2, DepthWithout DEF more

\* Changing one.
LEMMA DepthChange ==
    ASSUME NEW orders, Known(orders), NEW id \in DOMAIN orders,
           NEW changed, Known(changed), DOMAIN changed = DOMAIN orders,
           \A x \in DOMAIN orders : x # id => changed[x] = orders[x],
           NEW side, NEW price
    PROVE  Depth(orders, side, price) + Share(changed[id], side, price)
                = Depth(changed, side, price) + Share(orders[id], side, price)
<1> DEFINE rest == Without(orders, id)
<1>1. Without(changed, id) = rest
  BY DEF Without, Restrict
<1>2. Depth(orders, side, price) = Depth(rest, side, price) + Share(orders[id], side, price)
  BY DepthWithout
<1>3. Depth(changed, side, price)
        = Depth(Without(changed, id), side, price) + Share(changed[id], side, price)
  BY DepthWithout
<1>4. Depth(rest, side, price) \in Nat
  BY KnownWithout, DepthType
<1>5. Share(orders[id], side, price) \in Nat /\ Share(changed[id], side, price) \in Nat
  BY OrderFields DEF Share
<1> QED BY <1>1, <1>2, <1>3, <1>4, <1>5

\* Making one smaller.
LEMMA DepthShrink ==
    ASSUME NEW orders, Known(orders), NEW id \in DOMAIN orders,
           NEW quantity \in Nat, quantity <= orders[id].quantity, NEW side, NEW price
    PROVE  LET less == [orders EXCEPT ![id].quantity = @ - quantity]
           IN  /\ Known(less) /\ DOMAIN less = DOMAIN orders
               /\ At(less, side, price) = At(orders, side, price)
               /\ Depth(orders, side, price) = Depth(less, side, price)
                    + (IF orders[id].side = side /\ orders[id].price = price
                       THEN quantity ELSE 0)
<1> DEFINE small == [orders[id] EXCEPT !.quantity = @ - quantity]
           less == [orders EXCEPT ![id] = small]
<1>1. small \in MarketOrder /\ small.side = orders[id].side /\ small.price = orders[id].price
        /\ small.quantity = orders[id].quantity - quantity
  <2>1. orders[id].quantity - quantity \in Quantity
    BY OrderFields, BookAssumption DEF Quantity
  <2> QED BY <2>1, OrderFields DEF MarketOrder
<1>2. less = [orders EXCEPT ![id].quantity = @ - quantity]
  OBVIOUS
<1> HIDE DEF small
<1>3. Known(less) /\ DOMAIN less = DOMAIN orders /\ less[id] = small
        /\ \A x \in DOMAIN orders : x # id => less[x] = orders[x]
  BY <1>1 DEF Known, IsTable
<1> HIDE DEF less
<1>4. At(less, side, price) = At(orders, side, price)
  BY <1>1, <1>3 DEF At
<1>5. Depth(orders, side, price) + Share(less[id], side, price)
        = Depth(less, side, price) + Share(orders[id], side, price)
  BY <1>3, DepthChange
<1>6. Depth(orders, side, price) \in Nat /\ Depth(less, side, price) \in Nat
  BY <1>3, DepthType
<1>7. /\ Share(orders[id], side, price) = Share(small, side, price)
            + (IF orders[id].side = side /\ orders[id].price = price THEN quantity ELSE 0)
      /\ Share(small, side, price) \in Nat
  BY <1>1, OrderFields DEF Share
<1> QED BY <1>2, <1>3, <1>4, <1>5, <1>6, <1>7

-----------------------------------------------------------------------------
(* Levels after a change.                                                  *)

LEMMA RemoveLevelIs ==
    ASSUME NEW levels, IsTable(levels, Prices, Level), NEW price, NEW quantity \in Nat,
           NEW decrement \in BOOLEAN
    PROVE  LET new == RemoveLevel(levels, price, quantity, decrement)
               count == levels[price].order_count - IF decrement THEN 1 ELSE 0
           IN  /\ price \notin DOMAIN levels => new = levels
               /\ price \in DOMAIN levels =>
                    IF levels[price].quantity <= quantity \/ count <= 0
                    THEN new = Without(levels, price)
                    ELSE new = Put(levels, price,
                            [quantity |-> levels[price].quantity - quantity,
                             order_count |-> count])
<1>1. CASE price \notin DOMAIN levels
  BY <1>1 DEF RemoveLevel
<1>2. CASE price \in DOMAIN levels
  <2> DEFINE level == levels[price]
  <2>1. level.quantity \in Nat /\ level.order_count \in Nat
    BY <1>2 DEF IsTable, Level
  <2>2. CASE decrement = TRUE
    BY <1>2, <2>1, <2>2 DEF RemoveLevel
  <2>3. CASE decrement = FALSE
    BY <1>2, <2>1, <2>3 DEF RemoveLevel
  <2> QED BY <2>2, <2>3
<1> QED BY <1>1, <1>2

-----------------------------------------------------------------------------
(* Never overstating.                                                      *)

\* One side's levels are covered by the orders.
CoveredSide(levels, orders, side) ==
    \A price \in DOMAIN levels :
        /\ levels[price].quantity <= Depth(orders, side, price)
        /\ levels[price].order_count \in 1 .. Cardinality(At(orders, side, price))

FeedSound(b) == IsBook(b) /\ IsFiniteSet(DOMAIN b.orders) /\ Covered(b)

LEMMA SoundBook ==
    ASSUME NEW b, FeedSound(b)
    PROVE  /\ Known(b.orders)
           /\ \A side \in Side : IsTable(b[side], Prices, Level)
                                 /\ CoveredSide(b[side], b.orders, side)
BY DEF FeedSound, IsBook, Known, Covered, CoveredSide

\* Changing one side's levels, and orders of that side.
LEMMA ReviseSound ==
    ASSUME NEW b, FeedSound(b), NEW side \in Side, NEW levels, NEW orders,
           IsTable(levels, Prices, Level), Known(orders),
           CoveredSide(levels, orders, side),
           \A price :
              /\ Depth(orders, Opposite(side), price) = Depth(b.orders, Opposite(side), price)
              /\ Cardinality(At(orders, Opposite(side), price))
                    = Cardinality(At(b.orders, Opposite(side), price))
    PROVE  FeedSound(Revise(b, side, levels, orders))
<1> DEFINE c == Revise(b, side, levels, orders)
<1>1. IsBook(c) /\ IsFiniteSet(DOMAIN orders)
  BY BookUpdateType DEF FeedSound, Known
<1>2. c.orders = orders /\ c[side] = levels /\ c[Opposite(side)] = b[Opposite(side)]
  BY DEF Revise, Side, Opposite
<1>3. CoveredSide(b[Opposite(side)], b.orders, Opposite(side))
  BY SoundBook DEF Opposite, Side
<1>4. CoveredSide(c[Opposite(side)], orders, Opposite(side))
  BY <1>2, <1>3 DEF CoveredSide
<1>5. Side = {side, Opposite(side)}
  BY DEF Side, Opposite
<1> HIDE DEF c
<1>6. Covered(c)
  BY <1>2, <1>4, <1>5 DEF Covered, CoveredSide
<1> QED BY <1>1, <1>2, <1>6 DEF FeedSound, c

\* A new order is counted on its level.
LEMMA InsertSound ==
    ASSUME NEW b, FeedSound(b), NEW id \in MarketIds, id \notin DOMAIN b.orders,
           NEW side \in Side, NEW price \in Prices, NEW quantity \in Quantity
    PROVE  FeedSound(Insert(b, id, side, price, quantity))
<1> DEFINE order == [side |-> side, price |-> price, quantity |-> quantity]
           orders == Put(b.orders, id, order)
           levels == AddLevel(b[side], price, quantity)
<1>1. order \in MarketOrder /\ order.side = side /\ order.price = price
        /\ order.quantity = quantity /\ quantity \in Nat
  BY BookAssumption DEF MarketOrder, Quantity
<1>2. /\ Known(b.orders) /\ IsTable(b[side], Prices, Level)
      /\ CoveredSide(b[side], b.orders, side)
  BY SoundBook
<1>3. Insert(b, id, side, price, quantity) = Revise(b, side, levels, orders)
  BY DEF Insert
<1> HIDE DEF order
<1>4. \A s, p :
        /\ Depth(orders, s, p) = Depth(b.orders, s, p) + Share(order, s, p)
        /\ Cardinality(At(orders, s, p)) = Cardinality(At(b.orders, s, p)) + One(order, s, p)
  BY <1>1, <1>2, DepthPut
<1>5. \A s, p : Depth(b.orders, s, p) \in Nat /\ Cardinality(At(b.orders, s, p)) \in Nat
  BY <1>2, DepthType
<1>6. Known(orders)
  BY <1>1, <1>2, KnownPut
<1>7. IsTable(levels, Prices, Level)
  BY <1>2, AddLevelType
<1>8. \A p : Depth(orders, Opposite(side), p) = Depth(b.orders, Opposite(side), p)
             /\ Cardinality(At(orders, Opposite(side), p))
                    = Cardinality(At(b.orders, Opposite(side), p))
  <2>1. Opposite(side) # side
    BY DEF Opposite, Side
  <2> QED BY <1>1, <1>4, <1>5, <2>1 DEF Share, One
<1>9. /\ DOMAIN levels = DOMAIN b[side] \cup {price}
      /\ \A x \in DOMAIN b[side] : x # price => levels[x] = b[side][x]
      /\ levels[price] = IF price \in DOMAIN b[side]
            THEN [quantity |-> b[side][price].quantity + quantity,
                  order_count |-> b[side][price].order_count + 1]
            ELSE [quantity |-> 0 + quantity, order_count |-> 0 + 1]
  BY DEF AddLevel, Put
<1> HIDE DEF orders, levels
<1>10. ASSUME NEW p \in DOMAIN levels
       PROVE  /\ levels[p].quantity <= Depth(orders, side, p)
              /\ levels[p].order_count \in 1 .. Cardinality(At(orders, side, p))
  <2>1. CASE p # price
    <3>1. p \in DOMAIN b[side] /\ levels[p] = b[side][p]
      BY <1>9, <1>10, <2>1
    <3>2. Share(order, side, p) = 0 /\ One(order, side, p) = 0
      BY <1>1, <2>1 DEF Share, One
    <3>3. /\ b[side][p].quantity <= Depth(b.orders, side, p)
          /\ b[side][p].order_count \in 1 .. Cardinality(At(b.orders, side, p))
      BY <1>2, <3>1 DEF CoveredSide
    <3> QED BY <1>4, <1>5, <3>1, <3>2, <3>3
  <2>2. CASE p = price
    <3>1. Share(order, side, p) = quantity /\ One(order, side, p) = 1
      BY <1>1, <2>2 DEF Share, One
    <3>2. CASE p \in DOMAIN b[side]
      <4>1. b[side][p] \in Level
        BY <1>2, <3>2 DEF IsTable
      <4>2. b[side][p].quantity \in Nat /\ b[side][p].order_count \in Nat
        BY <4>1 DEF Level
      <4>3. /\ b[side][p].quantity <= Depth(b.orders, side, p)
            /\ b[side][p].order_count \in 1 .. Cardinality(At(b.orders, side, p))
        BY <1>2, <3>2 DEF CoveredSide
      <4>4. levels[p].quantity = b[side][p].quantity + quantity
              /\ levels[p].order_count = b[side][p].order_count + 1
        BY <1>9, <2>2, <3>2
      <4> QED BY <1>1, <1>4, <1>5, <3>1, <4>2, <4>3, <4>4
    <3>3. CASE p \notin DOMAIN b[side]
      <4>1. levels[p].quantity = quantity /\ levels[p].order_count = 1
        BY <1>1, <1>9, <2>2, <3>3
      <4> QED BY <1>1, <1>4, <1>5, <3>1, <4>1
    <3> QED BY <3>2, <3>3
  <2> QED BY <2>1, <2>2
<1>11. CoveredSide(levels, orders, side)
  BY <1>10 DEF CoveredSide
<1> QED BY <1>3, <1>6, <1>7, <1>8, <1>11, ReviseSound

\* Taking a level down with its orders: nothing is left uncovered if what the orders
\* lose is no more than what the level loses.
LEMMA RemoveCovered ==
    ASSUME NEW levels, IsTable(levels, Prices, Level), NEW before, Known(before),
           NEW after, Known(after), NEW side, CoveredSide(levels, before, side),
           NEW price, NEW quantity \in Nat, NEW decrement \in BOOLEAN,
           NEW lost \in 0 .. quantity, NEW gone \in 0 .. (IF decrement THEN 1 ELSE 0),
           \A p : /\ Depth(before, side, p)
                        = Depth(after, side, p) + (IF p = price THEN lost ELSE 0)
                  /\ Cardinality(At(before, side, p))
                        = Cardinality(At(after, side, p)) + (IF p = price THEN gone ELSE 0)
    PROVE  CoveredSide(RemoveLevel(levels, price, quantity, decrement), after, side)
<1> DEFINE new == RemoveLevel(levels, price, quantity, decrement)
<1>1. \A s, p : Depth(after, s, p) \in Nat /\ Cardinality(At(after, s, p)) \in Nat
  BY DepthType
<1>2. ASSUME NEW p \in DOMAIN levels
      PROVE  /\ levels[p].quantity \in Nat /\ levels[p].order_count \in Nat
             /\ levels[p].quantity <= Depth(before, side, p)
             /\ levels[p].order_count \in 1 .. Cardinality(At(before, side, p))
             /\ p # price => /\ levels[p].quantity <= Depth(after, side, p)
                             /\ levels[p].order_count \in 1 .. Cardinality(At(after, side, p))
  <2>1. levels[p] \in Level
    BY <1>2 DEF IsTable
  <2>2. /\ levels[p].quantity <= Depth(before, side, p)
        /\ levels[p].order_count \in 1 .. Cardinality(At(before, side, p))
    BY <1>2 DEF CoveredSide
  <2>3. p # price => /\ Depth(before, side, p) = Depth(after, side, p)
                     /\ Cardinality(At(before, side, p)) = Cardinality(At(after, side, p))
    BY <1>1
  <2> QED BY <2>1, <2>2, <2>3 DEF Level
<1>3. CASE price \notin DOMAIN levels
  <2>1. new = levels
    BY <1>3 DEF RemoveLevel
  <2>2. \A p \in DOMAIN levels : p # price
    BY <1>3
  <2> HIDE DEF new
  <2> QED BY <1>2, <2>1, <2>2 DEF CoveredSide, new
<1>4. CASE price \in DOMAIN levels
  <2> DEFINE count == levels[price].order_count - IF decrement THEN 1 ELSE 0
  <2>1. CASE levels[price].quantity <= quantity \/ count <= 0
    <3>1. new = Without(levels, price)
      BY <1>4, <2>1, RemoveLevelIs
    <3>2. DOMAIN new = DOMAIN levels \ {price} /\ \A p \in DOMAIN new : new[p] = levels[p]
      BY <3>1 DEF Without, Restrict
    <3> HIDE DEF new
    <3> QED BY <1>2, <3>2 DEF CoveredSide, new
  <2>2. CASE ~ (levels[price].quantity <= quantity \/ count <= 0)
    <3> DEFINE level == [quantity |-> levels[price].quantity - quantity, order_count |-> count]
    <3>1. new = Put(levels, price, level)
      BY <1>4, <2>2, RemoveLevelIs
    <3> HIDE DEF level
    <3>2. DOMAIN new = DOMAIN levels /\ new[price] = level
            /\ \A p \in DOMAIN levels : p # price => new[p] = levels[p]
      BY <1>4, <3>1 DEF Put
    <3>3. /\ level.quantity <= Depth(after, side, price)
          /\ level.order_count \in 1 .. Cardinality(At(after, side, price))
      <4>1. level.quantity = levels[price].quantity - quantity /\ level.order_count = count
        BY DEF level
      <4>2. Depth(before, side, price) = Depth(after, side, price) + lost
              /\ Cardinality(At(before, side, price)) = Cardinality(At(after, side, price)) + gone
        OBVIOUS
      <4>3. /\ levels[price].quantity \in Nat /\ levels[price].order_count \in Nat
            /\ levels[price].quantity <= Depth(before, side, price)
            /\ levels[price].order_count \in 1 .. Cardinality(At(before, side, price))
        BY <1>2, <1>4
      <4> QED BY <1>1, <2>2, <4>1, <4>2, <4>3
    <3> HIDE DEF new
    <3> QED BY <1>2, <3>2, <3>3 DEF CoveredSide, new
  <2> QED BY <2>1, <2>2
<1> QED BY <1>3, <1>4

\* The book without one of its orders.
Dropped(b, id) ==
    LET old == b.orders[id]
    IN  Revise(b, old.side, RemoveLevel(b[old.side], old.price, old.quantity, TRUE),
               Without(b.orders, id))

\* An order of the book with less.
Lessened(b, id, quantity) ==
    LET old == b.orders[id]
    IN  Revise(b, old.side, RemoveLevel(b[old.side], old.price, quantity, FALSE),
               [b.orders EXCEPT ![id].quantity = @ - quantity])

LEMMA DroppedSound ==
    ASSUME NEW b, FeedSound(b), NEW id \in DOMAIN b.orders
    PROVE  FeedSound(Dropped(b, id))
<1> DEFINE old == b.orders[id]
           orders == Without(b.orders, id)
           levels == RemoveLevel(b[old.side], old.price, old.quantity, TRUE)
<1>1. Known(b.orders) /\ Known(orders)
  BY SoundBook, KnownWithout
<1>2. old.side \in Side /\ old.price \in Prices /\ old.quantity \in Quantity /\ old.quantity \in Nat
  BY <1>1, OrderFields
<1>3. IsTable(b[old.side], Prices, Level) /\ CoveredSide(b[old.side], b.orders, old.side)
  BY <1>2, SoundBook
<1>4. \A s, p :
        /\ Depth(b.orders, s, p) = Depth(orders, s, p) + Share(old, s, p)
        /\ Cardinality(At(b.orders, s, p)) = Cardinality(At(orders, s, p)) + One(old, s, p)
  BY <1>1, DepthWithout
<1>5. \A s, p : Depth(orders, s, p) \in Nat /\ Cardinality(At(orders, s, p)) \in Nat
  BY <1>1, DepthType
<1>6. Dropped(b, id) = Revise(b, old.side, levels, orders)
  BY DEF Dropped
<1>7. IsTable(levels, Prices, Level)
  BY <1>2, <1>3, RemoveLevelType
<1> HIDE DEF old, orders
<1>8. \A p : Depth(orders, Opposite(old.side), p) = Depth(b.orders, Opposite(old.side), p)
             /\ Cardinality(At(orders, Opposite(old.side), p))
                    = Cardinality(At(b.orders, Opposite(old.side), p))
  <2>1. Opposite(old.side) # old.side
    BY <1>2 DEF Opposite, Side
  <2> QED BY <1>4, <1>5, <2>1 DEF Share, One
<1>9. \A p : /\ Depth(b.orders, old.side, p)
                    = Depth(orders, old.side, p) + (IF p = old.price THEN old.quantity ELSE 0)
             /\ Cardinality(At(b.orders, old.side, p))
                    = Cardinality(At(orders, old.side, p)) + (IF p = old.price THEN 1 ELSE 0)
  BY <1>4 DEF Share, One
<1>11. CoveredSide(levels, orders, old.side)
  <2> DEFINE size == old.quantity
             price == old.price
             side == old.side
             before == b.orders
             shown == b[old.side]
             all == TRUE
             one == 1
  <2>1. /\ size \in Nat /\ size \in 0 .. size /\ all \in BOOLEAN
        /\ one \in 0 .. (IF all THEN 1 ELSE 0)
        /\ IsTable(shown, Prices, Level) /\ CoveredSide(shown, before, side)
        /\ Known(before) /\ Known(orders)
    BY <1>1, <1>2, <1>3
  <2>2. \A p : /\ Depth(before, side, p)
                        = Depth(orders, side, p) + (IF p = price THEN size ELSE 0)
                /\ Cardinality(At(before, side, p))
                        = Cardinality(At(orders, side, p)) + (IF p = price THEN one ELSE 0)
    BY <1>9
  <2> HIDE DEF size, price, side, before, shown, all, one
  <2>3. CoveredSide(RemoveLevel(shown, price, size, all), orders, side)
    BY <2>1, <2>2, RemoveCovered
  <2> QED BY <2>3 DEF size, price, side, before, shown, all
<1> HIDE DEF levels
<1> QED BY <1>1, <1>2, <1>6, <1>7, <1>8, <1>11, ReviseSound

LEMMA LessenedSound ==
    ASSUME NEW b, FeedSound(b), NEW id \in DOMAIN b.orders,
           NEW quantity \in Quantity, quantity <= b.orders[id].quantity
    PROVE  FeedSound(Lessened(b, id, quantity))
<1> DEFINE old == b.orders[id]
           orders == [b.orders EXCEPT ![id].quantity = @ - quantity]
           levels == RemoveLevel(b[old.side], old.price, quantity, FALSE)
<1>1. Known(b.orders) /\ quantity \in Nat
  BY SoundBook, BookAssumption DEF Quantity
<1>2. old.side \in Side /\ old.price \in Prices
  BY <1>1, OrderFields
<1>3. IsTable(b[old.side], Prices, Level) /\ CoveredSide(b[old.side], b.orders, old.side)
  BY <1>2, SoundBook
<1>4. /\ Known(orders)
      /\ \A s, p :
            /\ At(orders, s, p) = At(b.orders, s, p)
            /\ Depth(b.orders, s, p) = Depth(orders, s, p)
                    + (IF old.side = s /\ old.price = p THEN quantity ELSE 0)
  BY <1>1, DepthShrink
<1>5. \A s, p : Depth(orders, s, p) \in Nat /\ Cardinality(At(orders, s, p)) \in Nat
  BY <1>4, DepthType
<1>6. Lessened(b, id, quantity) = Revise(b, old.side, levels, orders)
  BY DEF Lessened
<1>7. IsTable(levels, Prices, Level)
  BY <1>2, <1>3, RemoveLevelType
<1> HIDE DEF old, orders
<1>8. \A p : Depth(orders, Opposite(old.side), p) = Depth(b.orders, Opposite(old.side), p)
             /\ Cardinality(At(orders, Opposite(old.side), p))
                    = Cardinality(At(b.orders, Opposite(old.side), p))
  <2>1. Opposite(old.side) # old.side
    BY <1>2 DEF Opposite, Side
  <2> QED BY <1>4, <1>5, <2>1
<1>9. \A p : /\ Depth(b.orders, old.side, p)
                    = Depth(orders, old.side, p) + (IF p = old.price THEN quantity ELSE 0)
             /\ Cardinality(At(b.orders, old.side, p))
                    = Cardinality(At(orders, old.side, p)) + (IF p = old.price THEN 0 ELSE 0)
  BY <1>4, <1>5
<1>10. quantity \in 0 .. quantity /\ 0 \in 0 .. (IF FALSE THEN 1 ELSE 0)
  BY <1>1
<1>11. CoveredSide(levels, orders, old.side)
  BY <1>1, <1>2, <1>3, <1>4, <1>9, <1>10, RemoveCovered
<1> HIDE DEF levels
<1> QED BY <1>2, <1>4, <1>6, <1>7, <1>8, <1>11, ReviseSound

\* An unknown order only takes from a level.
LEMMA UnknownSound ==
    ASSUME NEW b, FeedSound(b), NEW side \in Side, NEW price \in Prices, NEW quantity \in Quantity
    PROVE  FeedSound(Revise(b, side, RemoveLevel(b[side], price, quantity, FALSE), b.orders))
<1> DEFINE levels == RemoveLevel(b[side], price, quantity, FALSE)
<1>1. Known(b.orders) /\ quantity \in Nat
  BY SoundBook, BookAssumption DEF Quantity
<1>2. IsTable(b[side], Prices, Level) /\ CoveredSide(b[side], b.orders, side)
  BY SoundBook
<1>3. IsTable(levels, Prices, Level)
  BY <1>2, RemoveLevelType
<1>4. \A p : /\ Depth(b.orders, side, p)
                    = Depth(b.orders, side, p) + (IF p = price THEN 0 ELSE 0)
             /\ Cardinality(At(b.orders, side, p))
                    = Cardinality(At(b.orders, side, p)) + (IF p = price THEN 0 ELSE 0)
  BY <1>1, DepthType
<1>5. 0 \in 0 .. quantity /\ 0 \in 0 .. (IF FALSE THEN 1 ELSE 0)
  BY <1>1
<1>6. CoveredSide(levels, b.orders, side)
  BY <1>1, <1>2, <1>4, <1>5, RemoveCovered
<1> HIDE DEF levels
<1>7. FeedSound(Revise(b, side, levels, b.orders))
  BY <1>1, <1>3, <1>6, ReviseSound
<1> QED BY <1>7 DEF levels

LEMMA TakeOutSound ==
    ASSUME NEW b, FeedSound(b), NEW id, NEW side \in Side,
           NEW price \in Prices, NEW quantity \in Quantity
    PROVE  FeedSound(TakeOut(b, id, side, price, quantity))
<1>1. CASE id \notin DOMAIN b.orders
  BY <1>1, UnknownSound DEF TakeOut
<1>2. CASE id \in DOMAIN b.orders
  <2> DEFINE old == b.orders[id]
             whole == quantity = 0 \/ quantity >= old.quantity
  <2>1. TakeOut(b, id, side, price, quantity) = RemoveKnown(b, id, quantity)
    BY <1>2 DEF TakeOut
  <2>2. CASE whole
    <3>1. RemoveKnown(b, id, quantity) = Dropped(b, id)
      BY <2>2 DEF RemoveKnown, Dropped
    <3> QED BY <1>2, <2>1, <3>1, DroppedSound
  <2>3. CASE ~ whole
    <3>1. RemoveKnown(b, id, quantity) = Lessened(b, id, quantity)
      BY <2>3 DEF RemoveKnown, Lessened
    <3>2. quantity <= old.quantity
      <4>1. old.quantity \in Nat /\ quantity \in Nat
        BY <1>2, SoundBook, OrderFields, BookAssumption DEF Quantity
      <4> QED BY <2>3, <4>1
    <3> QED BY <1>2, <2>1, <3>1, <3>2, LessenedSound
  <2> QED BY <2>2, <2>3
<1> QED BY <1>1, <1>2

LEMMA OnModifySound ==
    ASSUME NEW b, FeedSound(b), NEW id \in MarketIds, NEW side \in Side,
           NEW price \in Prices, NEW quantity \in Quantity
    PROVE  FeedSound(OnModify(b, id, side, price, quantity))
<1>1. CASE id \notin DOMAIN b.orders
  BY <1>1, InsertSound DEF OnModify
<1>2. CASE id \in DOMAIN b.orders
  <2>1. OnModify(b, id, side, price, quantity) = Insert(Dropped(b, id), id, side, price, quantity)
    BY <1>2 DEF OnModify, Dropped
  <2>2. FeedSound(Dropped(b, id))
    BY <1>2, DroppedSound
  <2>3. id \notin DOMAIN Dropped(b, id).orders
    BY DEF Dropped, Revise, Without, Restrict
  <2> QED BY <2>1, <2>2, <2>3, InsertSound
<1> QED BY <1>1, <1>2

\* Any datagram leaves a book sound.
LEMMA ApplySound ==
    ASSUME NEW b, FeedSound(b), NEW m \in Message
    PROVE  FeedSound(Apply(b, m))
<1>1. CASE m.kind \in {"N", "M", "X"}
  <2>1. m.id \in MarketIds /\ m.side \in Side /\ m.price \in Prices /\ m.quantity \in Quantity
    BY <1>1 DEF Message
  <2>2. CASE m.kind = "N"
    <3>1. Apply(b, m) = OnNew(b, m.id, m.side, m.price, m.quantity)
      BY <2>2 DEF Apply
    <3> QED BY <2>1, <3>1, OnModifySound, InsertSound DEF OnNew
  <2>3. CASE m.kind = "M"
    <3>1. Apply(b, m) = OnModify(b, m.id, m.side, m.price, m.quantity)
      BY <2>3 DEF Apply
    <3> QED BY <2>1, <3>1, OnModifySound
  <2>4. CASE m.kind = "X"
    <3>1. Apply(b, m) = OnCancel(b, m.id, m.side, m.price, m.quantity)
      BY <2>4 DEF Apply
    <3> QED BY <2>1, <3>1, TakeOutSound DEF OnCancel
  <2> QED BY <1>1, <2>2, <2>3, <2>4
<1>2. CASE m.kind = "T"
  <2>1. m.price \in Prices /\ m.quantity \in Quantity
    BY <1>2 DEF Message
  <2>2. Apply(b, m) = OnTrade(b, m.buy, m.sell, m.price, m.quantity)
    BY <1>2 DEF Apply
  <2>3. FeedSound(TakeOut(b, m.buy, "buy", m.price, m.quantity))
    BY <2>1, TakeOutSound DEF Side
  <2>4. FeedSound(TakeOut(TakeOut(b, m.buy, "buy", m.price, m.quantity),
                      m.sell, "sell", m.price, m.quantity))
    BY <2>1, <2>3, TakeOutSound DEF Side
  <2> QED BY <2>2, <2>4 DEF OnTrade
<1>3. m.kind \in {"N", "M", "X", "T"}
  BY DEF Message
<1> QED BY <1>1, <1>2, <1>3

-----------------------------------------------------------------------------
(* Following.  From a book that shows exactly some orders, every handler   *)
(* goes to one that shows exactly what the exchange has made of them.      *)

Count(orders, side, price) == Cardinality(At(orders, side, price))

\* Nobody rests with nothing.
Positive(orders) == \A id \in DOMAIN orders : orders[id].quantity > 0

LEMMA LevelsType ==
    ASSUME NEW orders, Known(orders), NEW side
    PROVE  /\ IsTable(LevelsOf(orders, side), Prices, Level)
           /\ \A p : p \in DOMAIN LevelsOf(orders, side) <=> Count(orders, side, p) > 0
           /\ \A p \in DOMAIN LevelsOf(orders, side) : LevelsOf(orders, side)[p] =
                [quantity |-> Depth(orders, side, p), order_count |-> Count(orders, side, p)]
<1> DEFINE levels == LevelsOf(orders, side)
<1>1. \A p : p \in DOMAIN levels <=> At(orders, side, p) # {}
  BY DEF LevelsOf, At
<1>2. \A p : At(orders, side, p) # {} <=> Count(orders, side, p) > 0
  BY DepthType DEF Count
<1>3. \A p \in DOMAIN levels : levels[p] =
        [quantity |-> Depth(orders, side, p), order_count |-> Count(orders, side, p)]
  BY DEF LevelsOf, Count
<1>4. \A p \in DOMAIN levels : levels[p] \in Level
  BY <1>3, DepthType DEF Level, Count
<1>5. DOMAIN levels \subseteq Prices
  BY OrderFields DEF LevelsOf
<1>6. levels = [p \in DOMAIN levels |-> levels[p]]
  BY DEF LevelsOf
<1> HIDE DEF levels
<1>7. IsTable(levels, Prices, Level)
  BY <1>4, <1>5, <1>6 DEF IsTable
<1> QED BY <1>1, <1>2, <1>3, <1>7 DEF levels

\* Depths and counts make the levels.
LEMMA LevelsAre ==
    ASSUME NEW orders, Known(orders), NEW side, NEW levels, IsTable(levels, Prices, Level),
           \A p : p \in DOMAIN levels <=> Count(orders, side, p) > 0,
           \A p \in DOMAIN levels : levels[p] =
                [quantity |-> Depth(orders, side, p), order_count |-> Count(orders, side, p)]
    PROVE  levels = LevelsOf(orders, side)
<1> DEFINE L == LevelsOf(orders, side)
<1>1. /\ IsTable(L, Prices, Level)
      /\ \A p : p \in DOMAIN L <=> Count(orders, side, p) > 0
      /\ \A p \in DOMAIN L : L[p] =
            [quantity |-> Depth(orders, side, p), order_count |-> Count(orders, side, p)]
  BY LevelsType
<1> HIDE DEF L
<1>2. DOMAIN levels = DOMAIN L
  BY <1>1
<1>3. \A p \in DOMAIN L : levels[p] = L[p]
  BY <1>1, <1>2
<1>4. levels = [p \in DOMAIN levels |-> levels[p]] /\ L = [p \in DOMAIN L |-> L[p]]
  BY <1>1 DEF IsTable
<1> QED BY <1>2, <1>3, <1>4 DEF L

LEMMA DepthPositive ==
    ASSUME NEW orders, Known(orders), Positive(orders), NEW side, NEW price
    PROVE  /\ Count(orders, side, price) > 0 <=> Depth(orders, side, price) > 0
           /\ Count(orders, side, price) \in Nat /\ Depth(orders, side, price) \in Nat
<1>1. Count(orders, side, price) \in Nat /\ Depth(orders, side, price) \in Nat
  BY DepthType DEF Count
<1>2. CASE At(orders, side, price) = {}
  BY <1>2, DepthType DEF Count
<1>3. CASE At(orders, side, price) # {}
  <2>1. PICK id \in At(orders, side, price) : TRUE
    BY <1>3
  <2>2. id \in DOMAIN orders /\ Share(orders[id], side, price) = orders[id].quantity
    BY <2>1 DEF At, Share
  <2>3. Depth(orders, side, price)
            = Depth(Without(orders, id), side, price) + Share(orders[id], side, price)
    BY <2>2, DepthWithout
  <2>4. Depth(Without(orders, id), side, price) \in Nat
    BY KnownWithout, DepthType
  <2>5. orders[id].quantity \in Nat /\ orders[id].quantity > 0
    BY <2>2, OrderFields DEF Positive
  <2>6. Count(orders, side, price) > 0
    BY <1>3, DepthType DEF Count
  <2> QED BY <1>1, <2>2, <2>3, <2>4, <2>5, <2>6
<1> QED BY <1>1, <1>2, <1>3

LEMMA ReviseExact ==
    ASSUME NEW before, Known(before), NEW after, Known(after), NEW side \in Side,
           \A p : /\ Depth(after, Opposite(side), p) = Depth(before, Opposite(side), p)
                  /\ Count(after, Opposite(side), p) = Count(before, Opposite(side), p)
    PROVE  Revise(BookOfOrders(before), side, LevelsOf(after, side), after)
                = BookOfOrders(after)
<1>1. LevelsOf(before, Opposite(side)) = LevelsOf(after, Opposite(side))
  <2> DEFINE L == LevelsOf(before, Opposite(side))
  <2>1. /\ IsTable(L, Prices, Level)
        /\ \A p : p \in DOMAIN L <=> Count(before, Opposite(side), p) > 0
        /\ \A p \in DOMAIN L : L[p] = [quantity |-> Depth(before, Opposite(side), p),
                                       order_count |-> Count(before, Opposite(side), p)]
    BY LevelsType
  <2> HIDE DEF L
  <2>2. /\ \A p : p \in DOMAIN L <=> Count(after, Opposite(side), p) > 0
        /\ \A p \in DOMAIN L : L[p] = [quantity |-> Depth(after, Opposite(side), p),
                                       order_count |-> Count(after, Opposite(side), p)]
    BY <2>1
  <2>3. L = LevelsOf(after, Opposite(side))
    BY <2>1, <2>2, LevelsAre
  <2> QED BY <2>3 DEF L
<1>2. CASE side = "buy"
  BY <1>1, <1>2 DEF Revise, BookOfOrders, Opposite
<1>3. CASE side = "sell"
  BY <1>1, <1>3 DEF Revise, BookOfOrders, Opposite
<1> QED BY <1>2, <1>3 DEF Side

LEMMA BookOfOrdersIs ==
    ASSUME NEW orders
    PROVE  /\ BookOfOrders(orders).orders = orders
           /\ \A side \in Side : BookOfOrders(orders)[side] = LevelsOf(orders, side)
BY DEF BookOfOrders, Side

LEMMA InsertExact ==
    ASSUME NEW orders, Known(orders), NEW id \in MarketIds, id \notin DOMAIN orders,
           NEW side \in Side, NEW price \in Prices, NEW quantity \in Quantity
    PROVE  Insert(BookOfOrders(orders), id, side, price, quantity)
             = BookOfOrders(Put(orders, id, [side |-> side, price |-> price, quantity |-> quantity]))
<1> DEFINE order == [side |-> side, price |-> price, quantity |-> quantity]
           after == Put(orders, id, order)
           old == LevelsOf(orders, side)
           levels == AddLevel(old, price, quantity)
<1>1. order \in MarketOrder /\ order.side = side /\ order.price = price
        /\ order.quantity = quantity /\ quantity \in Nat
  BY BookAssumption DEF MarketOrder, Quantity
<1>2. Insert(BookOfOrders(orders), id, side, price, quantity)
        = Revise(BookOfOrders(orders), side, levels, after)
  BY BookOfOrdersIs DEF Insert
<1> HIDE DEF order
<1>3. Known(after)
  BY <1>1, KnownPut
<1>4. \A s, p : /\ Depth(after, s, p) = Depth(orders, s, p) + Share(order, s, p)
                /\ Count(after, s, p) = Count(orders, s, p) + One(order, s, p)
  BY <1>1, DepthPut DEF Count
<1>5. \A s, p : Depth(orders, s, p) \in Nat /\ Count(orders, s, p) \in Nat
                /\ (Count(orders, s, p) = 0 => Depth(orders, s, p) = 0)
  BY DepthType DEF Count
<1>6. \A p : /\ Depth(after, Opposite(side), p) = Depth(orders, Opposite(side), p)
             /\ Count(after, Opposite(side), p) = Count(orders, Opposite(side), p)
  <2>1. Opposite(side) # side
    BY DEF Opposite, Side
  <2> QED BY <1>1, <1>4, <1>5, <2>1 DEF Share, One
<1>7. /\ IsTable(old, Prices, Level)
      /\ \A p : p \in DOMAIN old <=> Count(orders, side, p) > 0
      /\ \A p \in DOMAIN old : old[p] =
            [quantity |-> Depth(orders, side, p), order_count |-> Count(orders, side, p)]
  BY LevelsType
<1>8. IsTable(levels, Prices, Level)
  BY <1>7, AddLevelType
<1>9. /\ DOMAIN levels = DOMAIN old \cup {price}
      /\ \A x \in DOMAIN old : x # price => levels[x] = old[x]
      /\ levels[price] = IF price \in DOMAIN old
            THEN [quantity |-> old[price].quantity + quantity,
                  order_count |-> old[price].order_count + 1]
            ELSE [quantity |-> 0 + quantity, order_count |-> 0 + 1]
  BY DEF AddLevel, Put
<1> HIDE DEF old, levels, after
<1>10. \A p : /\ p # price => Share(order, side, p) = 0 /\ One(order, side, p) = 0
              /\ p = price => Share(order, side, p) = quantity /\ One(order, side, p) = 1
  BY <1>1 DEF Share, One
<1>11. \A p : p \in DOMAIN levels <=> Count(after, side, p) > 0
  BY <1>4, <1>5, <1>7, <1>9, <1>10
<1>12. ASSUME NEW p \in DOMAIN levels
       PROVE  levels[p] = [quantity |-> Depth(after, side, p), order_count |-> Count(after, side, p)]
  <2>1. CASE p # price
    BY <1>4, <1>5, <1>7, <1>9, <1>10, <2>1
  <2>2. CASE p = price /\ p \in DOMAIN old
    BY <1>1, <1>4, <1>7, <1>9, <1>10, <2>2
  <2>3. CASE p = price /\ p \notin DOMAIN old
    <3>1. Count(orders, side, p) = 0 /\ Depth(orders, side, p) = 0
      BY <1>5, <1>7, <2>3
    <3> QED BY <1>1, <1>4, <1>9, <1>10, <2>3, <3>1
  <2> QED BY <2>1, <2>2, <2>3
<1>13. levels = LevelsOf(after, side)
  BY <1>3, <1>8, <1>11, <1>12, LevelsAre
<1>14. Revise(BookOfOrders(orders), side, LevelsOf(after, side), after) = BookOfOrders(after)
  BY <1>3, <1>6, ReviseExact
<1> QED BY <1>2, <1>13, <1>14 DEF after, order

\* Taking a level down exactly: what it shows after is what is left at its price.
LEMMA RemoveExact ==
    ASSUME NEW before, Known(before), Positive(before),
           NEW after, Known(after), Positive(after),
           NEW side, NEW price, Count(before, side, price) > 0,
           NEW quantity \in Nat, NEW decrement \in BOOLEAN,
           NEW gone \in 0 .. 1, gone = IF decrement THEN 1 ELSE 0,
           \A p : /\ Depth(before, side, p)
                        = Depth(after, side, p) + (IF p = price THEN quantity ELSE 0)
                  /\ Count(before, side, p)
                        = Count(after, side, p) + (IF p = price THEN gone ELSE 0)
    PROVE  RemoveLevel(LevelsOf(before, side), price, quantity, decrement) = LevelsOf(after, side)
<1> DEFINE old == LevelsOf(before, side)
           new == RemoveLevel(old, price, quantity, decrement)
           count == old[price].order_count - IF decrement THEN 1 ELSE 0
<1>1. /\ IsTable(old, Prices, Level)
      /\ \A p : p \in DOMAIN old <=> Count(before, side, p) > 0
      /\ \A p \in DOMAIN old : old[p] =
            [quantity |-> Depth(before, side, p), order_count |-> Count(before, side, p)]
  BY LevelsType
<1>2. \A p : /\ Count(before, side, p) \in Nat /\ Depth(before, side, p) \in Nat
             /\ Count(after, side, p) \in Nat /\ Depth(after, side, p) \in Nat
             /\ (Count(after, side, p) > 0 <=> Depth(after, side, p) > 0)
  BY DepthPositive
<1> HIDE DEF old
<1>3. price \in DOMAIN old
  BY <1>1
<1>4. old[price].quantity = Depth(after, side, price) + quantity
        /\ count = Count(after, side, price)
  <2>1. old[price].quantity = Depth(before, side, price)
          /\ old[price].order_count = Count(before, side, price)
    BY <1>1, <1>3
  <2>2. /\ Depth(before, side, price) = Depth(after, side, price) + quantity
        /\ Count(before, side, price) = Count(after, side, price) + (IF decrement THEN 1 ELSE 0)
    OBVIOUS
  <2> QED BY <1>2, <2>1, <2>2
<1>5. \A p : p # price => /\ Depth(after, side, p) = Depth(before, side, p)
                          /\ Count(after, side, p) = Count(before, side, p)
  BY <1>2
<1>6. IF old[price].quantity <= quantity \/ count <= 0
      THEN new = Without(old, price)
      ELSE new = Put(old, price, [quantity |-> old[price].quantity - quantity,
                                  order_count |-> count])
  BY <1>1, <1>3, RemoveLevelIs
<1> HIDE DEF new
<1>7. CASE Count(after, side, price) = 0
  <2>1. Depth(after, side, price) = 0
    BY <1>2, <1>7
  <2>2. new = Without(old, price)
    BY <1>4, <1>6, <2>1
  <2>3. IsTable(new, Prices, Level)
    BY <1>1, <2>2, TableWithout
  <2>4. DOMAIN new = DOMAIN old \ {price} /\ \A p \in DOMAIN new : new[p] = old[p]
    BY <2>2 DEF Without, Restrict
  <2>5. \A p : p \in DOMAIN new <=> Count(after, side, p) > 0
    BY <1>1, <1>5, <1>7, <2>4
  <2>6. \A p \in DOMAIN new : new[p] =
            [quantity |-> Depth(after, side, p), order_count |-> Count(after, side, p)]
    BY <1>1, <1>5, <2>4
  <2>7. new = LevelsOf(after, side)
    BY <2>3, <2>5, <2>6, LevelsAre
  <2> QED BY <2>7 DEF new, old
<1>8. CASE Count(after, side, price) # 0
  <2> DEFINE level == [quantity |-> Depth(after, side, price),
                       order_count |-> Count(after, side, price)]
  <2>1. Depth(after, side, price) > 0 /\ Count(after, side, price) > 0
    BY <1>2, <1>8
  <2>2. /\ ~ (old[price].quantity <= quantity \/ count <= 0)
        /\ old[price].quantity - quantity = Depth(after, side, price)
    BY <1>2, <1>4, <2>1
  <2>3. new = Put(old, price, [quantity |-> old[price].quantity - quantity,
                               order_count |-> count])
    BY <1>6, <2>2
  <2>4. new = Put(old, price, level)
    BY <1>4, <2>2, <2>3
  <2>5. level \in Level
    BY <1>2 DEF Level
  <2> HIDE DEF level
  <2>6. IsTable(new, Prices, Level)
    <3>1. price \in Prices /\ IsTable(old, Prices, Level)
      BY <1>1, <1>3 DEF IsTable
    <3>2. IsTable(Put(old, price, level), Prices, Level)
      BY <2>5, <3>1, TablePut
    <3> QED BY <2>4, <3>2
  <2>7. DOMAIN new = DOMAIN old /\ new[price] = level
          /\ \A p \in DOMAIN old : p # price => new[p] = old[p]
    BY <1>3, <2>4 DEF Put
  <2>8. \A p : p \in DOMAIN new <=> Count(after, side, p) > 0
    BY <1>1, <1>3, <1>5, <2>1, <2>7
  <2>9. \A p \in DOMAIN new : new[p] =
            [quantity |-> Depth(after, side, p), order_count |-> Count(after, side, p)]
    BY <1>1, <1>5, <2>7 DEF level
  <2>10. new = LevelsOf(after, side)
    BY <2>6, <2>8, <2>9, LevelsAre
  <2> QED BY <2>10 DEF new, old
<1> QED BY <1>2, <1>7, <1>8

LEMMA DropExact ==
    ASSUME NEW orders, Known(orders), Positive(orders), NEW id \in DOMAIN orders
    PROVE  /\ Dropped(BookOfOrders(orders), id) = BookOfOrders(Without(orders, id))
           /\ Known(Without(orders, id)) /\ Positive(Without(orders, id))
<1> DEFINE old == orders[id]
           after == Without(orders, id)
           side == old.side
           price == old.price
           quantity == old.quantity
           b == BookOfOrders(orders)
           levels == RemoveLevel(b[side], price, quantity, TRUE)
<1>1. side \in Side /\ price \in Prices /\ quantity \in Nat
  BY OrderFields
<1>2. b.orders = orders /\ b[side] = LevelsOf(orders, side)
  BY <1>1, BookOfOrdersIs
<1>3. Known(after) /\ Positive(after)
  <2> HIDE DEF old, after, b
  <2>1. Known(after) /\ DOMAIN after = DOMAIN orders \ {id}
        /\ \A x \in DOMAIN orders \ {id} : after[x] = orders[x]
    BY KnownWithout DEF after
  <2> QED BY <2>1 DEF Positive
<1>4. \A s, p : /\ Depth(orders, s, p) = Depth(after, s, p) + Share(old, s, p)
                /\ Count(orders, s, p) = Count(after, s, p) + One(old, s, p)
  BY DepthWithout DEF Count
<1>5. \A s, p : Depth(after, s, p) \in Nat /\ Count(after, s, p) \in Nat
  BY <1>3, DepthType DEF Count
<1>6. Dropped(b, id) = Revise(b, side, levels, after)
  BY <1>2 DEF Dropped
<1> HIDE DEF b, after
<1>7. \A s, p : Share(old, s, p) = (IF side = s /\ price = p THEN quantity ELSE 0)
                /\ One(old, s, p) = (IF side = s /\ price = p THEN 1 ELSE 0)
  BY DEF Share, One
<1> HIDE DEF side, price, quantity, old
<1>8. \A p : /\ Depth(after, Opposite(side), p) = Depth(orders, Opposite(side), p)
             /\ Count(after, Opposite(side), p) = Count(orders, Opposite(side), p)
  <2>1. Opposite(side) # side
    BY <1>1 DEF Opposite, Side
  <2> QED BY <1>4, <1>5, <1>7, <2>1
<1>9. \A p : /\ Depth(orders, side, p)
                    = Depth(after, side, p) + (IF p = price THEN quantity ELSE 0)
             /\ Count(orders, side, p)
                    = Count(after, side, p) + (IF p = price THEN 1 ELSE 0)
  BY <1>4, <1>5, <1>7
<1>10. Count(orders, side, price) > 0
  BY <1>5, <1>9
<1> HIDE DEF levels
<1>11. RemoveLevel(LevelsOf(orders, side), price, quantity, TRUE) = LevelsOf(after, side)
  <2> DEFINE all == TRUE
             one == 1
  <2>1. all \in BOOLEAN /\ one \in 0 .. 1 /\ one = IF all THEN 1 ELSE 0
    OBVIOUS
  <2>2. \A p : /\ Depth(orders, side, p)
                      = Depth(after, side, p) + (IF p = price THEN quantity ELSE 0)
               /\ Count(orders, side, p)
                      = Count(after, side, p) + (IF p = price THEN one ELSE 0)
    BY <1>9
  <2> HIDE DEF all, one
  <2>3. RemoveLevel(LevelsOf(orders, side), price, quantity, all) = LevelsOf(after, side)
    BY <1>1, <1>3, <1>9, <1>10, <2>1, <2>2, RemoveExact
  <2> QED BY <2>3 DEF all
<1>12. Revise(BookOfOrders(orders), side, LevelsOf(after, side), after) = BookOfOrders(after)
  BY <1>1, <1>3, <1>8, ReviseExact
<1> QED BY <1>2, <1>3, <1>6, <1>11, <1>12 DEF b, after, levels

LEMMA LessenExact ==
    ASSUME NEW orders, Known(orders), Positive(orders), NEW id \in DOMAIN orders,
           NEW quantity \in Nat, quantity < orders[id].quantity
    PROVE  LET less == [orders EXCEPT ![id].quantity = @ - quantity]
           IN  /\ Lessened(BookOfOrders(orders), id, quantity) = BookOfOrders(less)
               /\ Known(less) /\ Positive(less) /\ DOMAIN less = DOMAIN orders
<1> DEFINE old == orders[id]
           after == [orders EXCEPT ![id].quantity = @ - quantity]
           side == old.side
           price == old.price
           b == BookOfOrders(orders)
           levels == RemoveLevel(b[side], price, quantity, FALSE)
<1>1. side \in Side /\ price \in Prices /\ old.quantity \in Nat
  BY OrderFields
<1>2. b.orders = orders /\ b[side] = LevelsOf(orders, side)
  BY <1>1, BookOfOrdersIs
<1>3. quantity <= orders[id].quantity
  BY <1>1
<1>4. /\ Known(after) /\ DOMAIN after = DOMAIN orders
      /\ \A s, p : /\ At(after, s, p) = At(orders, s, p)
                   /\ Depth(orders, s, p) = Depth(after, s, p)
                        + (IF side = s /\ price = p THEN quantity ELSE 0)
  <2>1. Known(after)
    BY <1>3, DepthShrink
  <2>2. DOMAIN after = DOMAIN orders
    OBVIOUS
  <2>3. \A s, p : /\ At(after, s, p) = At(orders, s, p)
                  /\ Depth(orders, s, p) = Depth(after, s, p)
                       + (IF side = s /\ price = p THEN quantity ELSE 0)
    BY <1>3, DepthShrink
  <2> QED BY <2>1, <2>2, <2>3
<1>5. Positive(after)
  <2>1. \A x \in DOMAIN orders : after[x].quantity
            = IF x = id THEN orders[x].quantity - quantity ELSE orders[x].quantity
    <3>1. [old EXCEPT !.quantity = @ - quantity].quantity = old.quantity - quantity
      BY OrderFields DEF MarketOrder
    <3> QED BY <3>1 DEF Known, IsTable
  <2>2. \A x \in DOMAIN orders : orders[x].quantity \in Nat
    BY OrderFields
  <2> HIDE DEF after
  <2> QED BY <1>4, <2>1, <2>2 DEF Positive
<1>6. Lessened(b, id, quantity) = Revise(b, side, levels, after)
  BY <1>2 DEF Lessened
<1>7. \A s, p : /\ Depth(after, s, p) \in Nat /\ Count(after, s, p) \in Nat
                /\ Count(orders, s, p) = Count(after, s, p)
  BY <1>4, DepthType DEF Count
<1> HIDE DEF b, after, old
<1>8. \A p : /\ Depth(after, Opposite(side), p) = Depth(orders, Opposite(side), p)
             /\ Count(after, Opposite(side), p) = Count(orders, Opposite(side), p)
  <2>1. Opposite(side) # side
    BY <1>1 DEF Opposite, Side
  <2> QED BY <1>4, <1>7, <2>1
<1>9. \A p : /\ Depth(orders, side, p)
                    = Depth(after, side, p) + (IF p = price THEN quantity ELSE 0)
             /\ Count(orders, side, p)
                    = Count(after, side, p) + (IF p = price THEN 0 ELSE 0)
  BY <1>4, <1>7
<1>10. Count(orders, side, price) > 0
  <2>1. id \in At(orders, side, price)
    BY DEF At, old
  <2> QED BY <2>1, DepthType DEF Count
<1> HIDE DEF side, price
<1> HIDE DEF levels
<1>11. RemoveLevel(LevelsOf(orders, side), price, quantity, FALSE) = LevelsOf(after, side)
  <2> DEFINE all == FALSE
             one == 0
  <2>1. all \in BOOLEAN /\ one \in 0 .. 1 /\ one = IF all THEN 1 ELSE 0
    OBVIOUS
  <2>2. \A p : /\ Depth(orders, side, p)
                      = Depth(after, side, p) + (IF p = price THEN quantity ELSE 0)
               /\ Count(orders, side, p)
                      = Count(after, side, p) + (IF p = price THEN one ELSE 0)
    BY <1>9
  <2> HIDE DEF all, one
  <2>3. RemoveLevel(LevelsOf(orders, side), price, quantity, all) = LevelsOf(after, side)
    BY <1>1, <1>4, <1>5, <1>9, <1>10, <2>1, <2>2, RemoveExact
  <2> QED BY <2>3 DEF all
<1>12. Revise(BookOfOrders(orders), side, LevelsOf(after, side), after) = BookOfOrders(after)
  BY <1>1, <1>4, <1>8, ReviseExact
<1> QED BY <1>2, <1>4, <1>5, <1>6, <1>11, <1>12 DEF b, after, levels

\* Taking from a known order what the exchange took from it.
LEMMA TakeOutExact ==
    ASSUME NEW orders, Known(orders), Positive(orders), NEW id \in DOMAIN orders,
           NEW side, NEW price, NEW quantity \in Nat \ {0}, quantity <= orders[id].quantity
    PROVE  /\ TakeOut(BookOfOrders(orders), id, side, price, quantity)
                = BookOfOrders(Shrink(orders, id, quantity))
           /\ Known(Shrink(orders, id, quantity)) /\ Positive(Shrink(orders, id, quantity))
           /\ DOMAIN orders \ {id} \subseteq DOMAIN Shrink(orders, id, quantity)
           /\ DOMAIN Shrink(orders, id, quantity) \subseteq DOMAIN orders
           /\ \A x \in DOMAIN orders \ {id} : Shrink(orders, id, quantity)[x] = orders[x]
<1> DEFINE b == BookOfOrders(orders)
           whole == quantity = 0 \/ quantity >= orders[id].quantity
<1>1. orders[id].quantity \in Nat /\ b.orders = orders
  BY OrderFields, BookOfOrdersIs
<1>2. TakeOut(b, id, side, price, quantity) = RemoveKnown(b, id, quantity)
  BY <1>1 DEF TakeOut
<1>3. CASE quantity = orders[id].quantity
  <2>1. RemoveKnown(b, id, quantity) = Dropped(b, id)
    BY <1>1, <1>3 DEF RemoveKnown, Dropped
  <2>2. Shrink(orders, id, quantity) = Without(orders, id)
    BY <1>3 DEF Shrink
  <2>3. /\ Dropped(b, id) = BookOfOrders(Without(orders, id))
        /\ Known(Without(orders, id)) /\ Positive(Without(orders, id))
    BY DropExact
  <2>4. DOMAIN Without(orders, id) = DOMAIN orders \ {id}
          /\ \A x \in DOMAIN orders \ {id} : Without(orders, id)[x] = orders[x]
    BY KnownWithout
  <2> HIDE DEF b
  <2> QED BY <1>2, <2>1, <2>2, <2>3, <2>4 DEF b
<1>4. CASE quantity < orders[id].quantity
  <2>1. ~ whole /\ quantity # orders[id].quantity
    BY <1>1, <1>4
  <2>2. RemoveKnown(b, id, quantity) = Lessened(b, id, quantity)
    BY <1>1, <2>1 DEF RemoveKnown, Lessened
  <2>3. Shrink(orders, id, quantity) = [orders EXCEPT ![id].quantity = @ - quantity]
    BY <2>1 DEF Shrink
  <2> DEFINE less == [orders EXCEPT ![id].quantity = @ - quantity]
  <2>4. \A x \in DOMAIN orders \ {id} : less[x] = orders[x]
    OBVIOUS
  <2>5. /\ Lessened(b, id, quantity) = BookOfOrders(less)
        /\ Known(less) /\ Positive(less) /\ DOMAIN less = DOMAIN orders
    BY <1>4, LessenExact
  <2> HIDE DEF b, less
  <2>6. Shrink(orders, id, quantity) = less
    BY <2>3 DEF less
  <2> QED BY <1>2, <2>2, <2>4, <2>5, <2>6 DEF b
<1> QED BY <1>1, <1>3, <1>4

-----------------------------------------------------------------------------
(* Catching up is applying one message after the other: CaughtUp is a      *)
(* recursive function of how many have been applied, a trail of books.     *)

Trail(f, b, messages) ==
    f = [i \in 0 .. Len(messages) |-> IF i = 0 THEN b ELSE Apply(f[i - 1], messages[i])]

LEMMA CaughtUpIs ==
    ASSUME NEW b, NEW messages
    PROVE  CaughtUp(b, messages) = (CHOOSE f : Trail(f, b, messages))[Len(messages)]
BY DEF CaughtUp, Trail

LEMMA TrailSteps ==
    ASSUME NEW b, NEW messages, NEW f, Trail(f, b, messages), Len(messages) \in Nat
    PROVE  /\ f[0] = b
           /\ \A i \in 1 .. Len(messages) : f[i] = Apply(f[i - 1], messages[i])
<1> DEFINE Step(i) == IF i = 0 THEN b ELSE Apply(f[i - 1], messages[i])
<1>1. \A i \in 0 .. Len(messages) : f[i] = Step(i)
  <2>1. f = [i \in 0 .. Len(messages) |-> Step(i)]
    BY DEF Trail
  <2> HIDE DEF FeedNext
  <2> QED BY <2>1
<1> QED BY <1>1

LEMMA TrailUnique ==
    ASSUME NEW b, NEW messages, Len(messages) \in Nat,
           NEW f, Trail(f, b, messages), NEW g, Trail(g, b, messages)
    PROVE  f[Len(messages)] = g[Len(messages)]
<1> DEFINE n == Len(messages)
           Bad == {i \in 0 .. n : f[i] # g[i]}
<1>1. \A h : h \in {f, g} =>
        h[0] = b /\ \A i \in 1 .. n : h[i] = Apply(h[i - 1], messages[i])
  BY TrailSteps
<1> SUFFICES ASSUME f[n] # g[n] PROVE FALSE
  OBVIOUS
<1>2. PICK i \in Bad : \A j \in Bad : i <= j
  <2>1. Bad \in SUBSET Nat /\ n \in Bad
    OBVIOUS
  <2> HIDE DEF Bad
  <2> QED BY <2>1, MinOfNaturals
<1>3. i \in 1 .. n
  BY <1>1, <1>2
<1>4. i - 1 \in 0 .. n /\ i - 1 \notin Bad
  <2>1. i - 1 \in 0 .. n /\ ~ (i <= i - 1)
    BY <1>3
  <2> HIDE DEF Bad
  <2> QED BY <1>2, <2>1
<1>5. f[i - 1] = g[i - 1]
  BY <1>4
<1> QED BY <1>1, <1>2, <1>3, <1>5

LEMMA TrailExists ==
    ASSUME NEW b, NEW messages, Len(messages) \in Nat
    PROVE  \E f : Trail(f, b, messages)
<1> DEFINE Value(f, i) == IF i = 0 THEN b ELSE Apply(f[i - 1], messages[i])
           Stage(n) == \E f : f = [i \in 0 .. n |-> Value(f, i)]
           Bad == {n \in Nat : ~ Stage(n)}
<1>1. \A n \in Nat : Stage(n)
  <2> SUFFICES ASSUME Bad # {} PROVE FALSE
    OBVIOUS
  <2>1. PICK n \in Bad : \A m \in Bad : n <= m
    <3>1. Bad \in SUBSET Nat
      OBVIOUS
    <3> HIDE DEF Bad
    <3> QED BY <3>1, MinOfNaturals
  <2>2. CASE n = 0
    <3> DEFINE g == [i \in 0 .. 0 |-> b]
    <3>1. g = [i \in 0 .. 0 |-> Value(g, i)]
      OBVIOUS
    <3> HIDE DEF g
    <3>2. Stage(0)
      BY <3>1
    <3> QED BY <2>1, <2>2, <3>2
  <2>3. CASE n # 0
    <3>1. n \in Nat /\ n - 1 \in Nat /\ n - 1 \notin Bad
      <4>1. n \in Nat
        BY <2>1
      <4>2. n - 1 \in Nat /\ ~ (n <= n - 1)
        BY <2>3, <4>1
      <4> HIDE DEF Bad
      <4> QED BY <2>1, <4>1, <4>2
    <3>2. PICK g : g = [i \in 0 .. n - 1 |-> Value(g, i)]
      BY <3>1
    <3> DEFINE h == [i \in 0 .. n |-> Value(g, i)]
    <3>3. \A i \in 0 .. n : Value(g, i) = Value(h, i)
      <4>1. ASSUME NEW i \in 0 .. n, i # 0 PROVE g[i - 1] = h[i - 1]
        <5>1. i - 1 \in 0 .. n - 1 /\ i - 1 \in 0 .. n
          BY <3>1, <4>1
        <5>2. g[i - 1] = Value(g, i - 1)
          BY <3>2, <5>1
        <5>3. h[i - 1] = Value(g, i - 1)
          BY <5>1
        <5> QED BY <5>2, <5>3
      <4> HIDE DEF h
      <4> QED BY <4>1
    <3>4. h = [i \in 0 .. n |-> Value(h, i)]
      <4> HIDE DEF Value
      <4> QED BY <3>3
    <3> HIDE DEF h
    <3>5. Stage(n)
      BY <3>4
    <3> QED BY <2>1, <3>5
  <2> QED BY <2>2, <2>3
<1>2. PICK f : f = [i \in 0 .. Len(messages) |-> Value(f, i)]
  BY <1>1
<1> QED BY <1>2 DEF Trail

\* Any trail ends where CaughtUp does.
LEMMA TrailEnds ==
    ASSUME NEW b, NEW messages, Len(messages) \in Nat, NEW f, Trail(f, b, messages)
    PROVE  CaughtUp(b, messages) = f[Len(messages)]
<1> DEFINE g == CHOOSE g : Trail(g, b, messages)
<1>1. Trail(g, b, messages)
  OBVIOUS
<1>2. CaughtUp(b, messages) = g[Len(messages)]
  BY CaughtUpIs
<1> HIDE DEF g
<1> QED BY <1>1, <1>2, TrailUnique

LEMMA CaughtUpEmpty ==
    ASSUME NEW b
    PROVE  CaughtUp(b, <<>>) = b
<1>1. Len(<<>>) = 0 /\ Len(<<>>) \in Nat
  OBVIOUS
<1>2. PICK f : Trail(f, b, <<>>)
  BY <1>1, TrailExists
<1>3. f[0] = b
  BY <1>1, <1>2, TrailSteps
<1> QED BY <1>1, <1>2, <1>3, TrailEnds

\* One more message under way is one more applied.
LEMMA CaughtUpAppend ==
    ASSUME NEW b, NEW messages \in Seq(Message), NEW m \in Message
    PROVE  CaughtUp(b, Append(messages, m)) = Apply(CaughtUp(b, messages), m)
<1> DEFINE n == Len(messages)
           more == Append(messages, m)
<1>1. n \in Nat /\ Len(more) = n + 1 /\ Len(more) \in Nat /\ more[n + 1] = m
        /\ \A i \in 1 .. n : more[i] = messages[i]
  BY AppendProperties
<1> HIDE DEF n, more
<1>2. PICK f : Trail(f, b, more)
  BY <1>1, TrailExists
<1>3. f[0] = b /\ \A i \in 1 .. n + 1 : f[i] = Apply(f[i - 1], more[i])
  BY <1>1, <1>2, TrailSteps
<1> DEFINE g == [i \in 0 .. n |-> f[i]]
<1>4. ASSUME NEW i \in 0 .. n
      PROVE  g[i] = IF i = 0 THEN b ELSE Apply(g[i - 1], messages[i])
  <2>1. CASE i = 0
    BY <1>1, <1>3, <2>1
  <2>2. CASE i # 0
    <3>1. i \in 1 .. n /\ i \in 1 .. n + 1 /\ i - 1 \in 0 .. n
      BY <1>1, <2>2
    <3>2. g[i] = f[i] /\ g[i - 1] = f[i - 1]
      BY <3>1
    <3> QED BY <1>1, <1>3, <2>2, <3>1, <3>2
  <2> QED BY <2>1, <2>2
<1>5. Trail(g, b, messages)
  <2>1. g = [i \in 0 .. n |-> g[i]]
    OBVIOUS
  <2> HIDE DEF g
  <2> QED BY <1>4, <2>1 DEF Trail, n
<1>6. g[n] = f[n]
  BY <1>1
<1> HIDE DEF g
<1>7. CaughtUp(b, messages) = f[n] /\ CaughtUp(b, more) = f[n + 1]
  BY <1>1, <1>2, <1>5, <1>6, TrailEnds DEF n
<1>8. f[n + 1] = Apply(f[n], m)
  <2>1. n + 1 \in 1 .. n + 1 /\ n + 1 - 1 = n
    BY <1>1
  <2> QED BY <1>1, <1>3, <2>1
<1> QED BY <1>7, <1>8 DEF more

\* Hearing the oldest message leaves the rest to be caught up with.
LEMMA CaughtUpTail ==
    ASSUME NEW b, NEW messages \in Seq(Message), messages # <<>>
    PROVE  CaughtUp(Apply(b, messages[1]), Tail(messages)) = CaughtUp(b, messages)
<1> DEFINE n == Len(messages)
           rest == Tail(messages)
           after == Apply(b, messages[1])
<1>1. n \in Nat /\ n # 0 /\ Len(rest) = n - 1 /\ Len(rest) \in Nat
        /\ \A i \in 1 .. n - 1 : rest[i] = messages[i + 1]
  BY HeadTailProperties, EmptySeq
<1>2. PICK f : Trail(f, b, messages)
  BY <1>1, TrailExists
<1>3. f[0] = b /\ \A i \in 1 .. n : f[i] = Apply(f[i - 1], messages[i])
  BY <1>1, <1>2, TrailSteps
<1> DEFINE g == [i \in 0 .. n - 1 |-> f[i + 1]]
<1> HIDE DEF n, rest
<1>4. ASSUME NEW i \in 0 .. n - 1
      PROVE  g[i] = IF i = 0 THEN after ELSE Apply(g[i - 1], rest[i])
  <2>1. CASE i = 0
    <3>1. 1 \in 1 .. n /\ 1 - 1 = 0 /\ 0 \in 0 .. n - 1 /\ 0 + 1 = 1
      BY <1>1
    <3>2. f[1] = Apply(f[0], messages[1])
      BY <1>3, <3>1
    <3> QED BY <1>3, <2>1, <3>1, <3>2
  <2>2. CASE i # 0
    <3>1. i \in 1 .. n - 1 /\ i + 1 \in 1 .. n /\ i - 1 \in 0 .. n - 1
            /\ i + 1 - 1 = i /\ i - 1 + 1 = i
      BY <1>1, <2>2
    <3>2. g[i] = f[i + 1] /\ g[i - 1] = f[i]
      BY <3>1
    <3>3. f[i + 1] = Apply(f[i], messages[i + 1])
      BY <1>3, <3>1
    <3> QED BY <1>1, <2>2, <3>1, <3>2, <3>3
  <2> QED BY <2>1, <2>2
<1>5. Trail(g, after, rest)
  <2>1. g = [i \in 0 .. n - 1 |-> g[i]]
    OBVIOUS
  <2> HIDE DEF g, after
  <2> QED BY <1>1, <1>4, <2>1 DEF Trail
<1>6. g[n - 1] = f[n]
  <2>1. n - 1 \in 0 .. n - 1 /\ n - 1 + 1 = n
    BY <1>1
  <2> QED BY <2>1
<1> HIDE DEF g, after
<1>7. CaughtUp(after, rest) = g[n - 1]
  BY <1>1, <1>5, TrailEnds
<1>8. CaughtUp(b, messages) = f[n]
  BY <1>1, <1>2, TrailEnds DEF n
<1> QED BY <1>6, <1>7, <1>8 DEF after, rest

-----------------------------------------------------------------------------
(* What the exchange publishes describes what it did: applied to the book  *)
(* that shows its orders, every message yields the book that shows them    *)
(* afterwards.                                                             *)

LEMMA NewExact ==
    ASSUME NEW orders, Known(orders), Positive(orders),
           NEW id \in MarketIds, id \notin DOMAIN orders,
           NEW side \in Side, NEW price \in Prices, NEW quantity \in Sizes
    PROVE  LET order == [side |-> side, price |-> price, quantity |-> quantity]
               m == [kind |-> "N", id |-> id, side |-> side,
                     price |-> price, quantity |-> quantity]
           IN  /\ Apply(BookOfOrders(orders), m) = BookOfOrders(Put(orders, id, order))
               /\ Known(Put(orders, id, order)) /\ Positive(Put(orders, id, order))
               /\ m \in Message
<1> DEFINE b == BookOfOrders(orders)
           order == [side |-> side, price |-> price, quantity |-> quantity]
           m == [kind |-> "N", id |-> id, side |-> side, price |-> price, quantity |-> quantity]
<1>1. quantity \in Quantity /\ quantity \in Nat /\ quantity > 0
  BY FeedAssumption, BookAssumption DEF Quantity
<1>2. m \in Message
  BY <1>1 DEF Message
<1>3. Apply(b, m) = OnNew(b, id, side, price, quantity)
  BY DEF Apply
<1>4. OnNew(b, id, side, price, quantity) = Insert(b, id, side, price, quantity)
  BY BookOfOrdersIs DEF OnNew
<1>5. Insert(b, id, side, price, quantity) = BookOfOrders(Put(orders, id, order))
  BY <1>1, InsertExact
<1>6. order \in MarketOrder /\ order.quantity > 0
  BY <1>1 DEF MarketOrder
<1> HIDE DEF order, b, m
<1>7. Known(Put(orders, id, order)) /\ Positive(Put(orders, id, order))
  <2>1. /\ DOMAIN Put(orders, id, order) = DOMAIN orders \cup {id}
        /\ Put(orders, id, order)[id] = order
        /\ \A x \in DOMAIN orders : x # id => Put(orders, id, order)[x] = orders[x]
    BY DEF Put
  <2>2. Known(Put(orders, id, order))
    BY <1>6, KnownPut
  <2> QED BY <1>6, <2>1, <2>2 DEF Positive
<1> QED BY <1>2, <1>3, <1>4, <1>5, <1>7 DEF order, b, m

LEMMA ModifyExact ==
    ASSUME NEW orders, Known(orders), Positive(orders), NEW id \in DOMAIN orders,
           NEW price \in Prices, NEW quantity \in Sizes
    PROVE  LET changed == [orders EXCEPT ![id].price = price, ![id].quantity = quantity]
               m == [kind |-> "M", id |-> id, side |-> orders[id].side,
                     price |-> price, quantity |-> quantity]
           IN  /\ Apply(BookOfOrders(orders), m) = BookOfOrders(changed)
               /\ Known(changed) /\ Positive(changed)
               /\ DOMAIN changed = DOMAIN orders
               /\ m \in Message
<1> DEFINE b == BookOfOrders(orders)
           side == orders[id].side
           rest == Without(orders, id)
           order == [side |-> side, price |-> price, quantity |-> quantity]
           m == [kind |-> "M", id |-> id, side |-> side, price |-> price, quantity |-> quantity]
           changed == [orders EXCEPT ![id].price = price, ![id].quantity = quantity]
<1>1. quantity \in Quantity /\ quantity \in Nat /\ quantity > 0
  BY FeedAssumption, BookAssumption DEF Quantity
<1>2. side \in Side /\ id \in MarketIds
  BY OrderFields
<1>3. m \in Message
  BY <1>1, <1>2 DEF Message
<1>4. Apply(b, m) = OnModify(b, id, side, price, quantity)
  BY DEF Apply
<1>5. OnModify(b, id, side, price, quantity)
        = Insert(Dropped(b, id), id, side, price, quantity)
  BY BookOfOrdersIs DEF OnModify, Dropped
<1>6. Dropped(b, id) = BookOfOrders(rest) /\ Known(rest) /\ Positive(rest)
  BY DropExact
<1>7. id \notin DOMAIN rest
  BY KnownWithout
<1>8. order \in MarketOrder /\ order.quantity > 0
  BY <1>1, <1>2 DEF MarketOrder
<1>9. changed = Put(rest, id, order)
  <2>1. [orders[id] EXCEPT !.price = price, !.quantity = quantity] = order
    <3> DEFINE o == orders[id]
    <3>1. o \in MarketOrder
      BY OrderFields
    <3> HIDE DEF o
    <3>2. o = [side |-> o.side, price |-> o.price, quantity |-> o.quantity]
      BY <3>1 DEF MarketOrder
    <3>3. [o EXCEPT !.price = price] = [side |-> o.side, price |-> price, quantity |-> o.quantity]
      BY <3>2
    <3>4. [[side |-> o.side, price |-> price, quantity |-> o.quantity]
               EXCEPT !.quantity = quantity]
            = [side |-> o.side, price |-> price, quantity |-> quantity]
      OBVIOUS
    <3> QED BY <3>3, <3>4, Zenon DEF o
  <2>2. changed = [orders EXCEPT ![id] = order]
    BY <2>1
  <2>3. orders = [x \in DOMAIN orders |-> orders[x]]
    BY DEF Known, IsTable
  <2>4. DOMAIN rest \cup {id} = DOMAIN orders
          /\ \A x \in DOMAIN orders \ {id} : rest[x] = orders[x]
    BY KnownWithout
  <2> HIDE DEF rest, order
  <2> QED BY <2>2, <2>3, <2>4 DEF Put
<1>10. DOMAIN changed = DOMAIN orders
  OBVIOUS
<1> HIDE DEF rest, changed, b, m, side
<1>11. Insert(BookOfOrders(rest), id, side, price, quantity) = BookOfOrders(Put(rest, id, order))
  BY <1>1, <1>2, <1>6, <1>7, InsertExact
<1> HIDE DEF order
<1>12. Known(changed) /\ Positive(changed)
  <2>1. /\ DOMAIN Put(rest, id, order) = DOMAIN rest \cup {id}
        /\ Put(rest, id, order)[id] = order
        /\ \A x \in DOMAIN rest : x # id => Put(rest, id, order)[x] = rest[x]
    BY <1>2, <1>6, <1>8, KnownPut
  <2>2. Known(Put(rest, id, order))
    BY <1>2, <1>6, <1>8, KnownPut
  <2> QED BY <1>6, <1>8, <1>9, <2>1, <2>2 DEF Positive
<1> QED
  BY <1>3, <1>4, <1>5, <1>6, <1>9, <1>10, <1>11, <1>12 DEF changed, b, m, side

LEMMA CancelExact ==
    ASSUME NEW orders, Known(orders), Positive(orders), NEW id \in DOMAIN orders
    PROVE  LET m == [kind |-> "X", id |-> id, side |-> orders[id].side,
                     price |-> orders[id].price, quantity |-> orders[id].quantity]
           IN  /\ Apply(BookOfOrders(orders), m) = BookOfOrders(Without(orders, id))
               /\ Known(Without(orders, id)) /\ Positive(Without(orders, id))
               /\ m \in Message
<1> DEFINE b == BookOfOrders(orders)
           m == [kind |-> "X", id |-> id, side |-> orders[id].side,
                 price |-> orders[id].price, quantity |-> orders[id].quantity]
<1>1. /\ id \in MarketIds /\ orders[id].side \in Side /\ orders[id].price \in Prices
      /\ orders[id].quantity \in Quantity /\ orders[id].quantity \in Nat
  BY OrderFields
<1>2. m \in Message
  BY <1>1 DEF Message
<1>3. Apply(b, m) = TakeOut(b, id, orders[id].side, orders[id].price, orders[id].quantity)
  BY DEF Apply, OnCancel
<1>4. TakeOut(b, id, orders[id].side, orders[id].price, orders[id].quantity)
        = BookOfOrders(Shrink(orders, id, orders[id].quantity))
  <2>1. orders[id].quantity \in Nat \ {0} /\ orders[id].quantity <= orders[id].quantity
    BY <1>1 DEF Positive
  <2> QED BY <2>1, TakeOutExact
<1>5. Shrink(orders, id, orders[id].quantity) = Without(orders, id)
  BY DEF Shrink
<1>6. Known(Without(orders, id)) /\ Positive(Without(orders, id))
  BY DropExact
<1> HIDE DEF b, m
<1> QED BY <1>2, <1>3, <1>4, <1>5, <1>6 DEF b, m

LEMMA TradeExact ==
    ASSUME NEW orders, Known(orders), Positive(orders),
           NEW buy \in DOMAIN orders, NEW sell \in DOMAIN orders,
           orders[buy].side = "buy", orders[sell].side = "sell",
           NEW quantity \in Sizes,
           quantity <= orders[buy].quantity, quantity <= orders[sell].quantity
    PROVE  LET after == Shrink(Shrink(orders, buy, quantity), sell, quantity)
               m == [kind |-> "T", buy |-> buy, sell |-> sell,
                     price |-> orders[sell].price, quantity |-> quantity]
           IN  /\ Apply(BookOfOrders(orders), m) = BookOfOrders(after)
               /\ Known(after) /\ Positive(after)
               /\ DOMAIN after \subseteq DOMAIN orders
               /\ m \in Message
<1> DEFINE b == BookOfOrders(orders)
           price == orders[sell].price
           half == Shrink(orders, buy, quantity)
           after == Shrink(half, sell, quantity)
           m == [kind |-> "T", buy |-> buy, sell |-> sell, price |-> price, quantity |-> quantity]
<1>1. quantity \in Quantity /\ quantity \in Nat \ {0}
  BY FeedAssumption, BookAssumption DEF Quantity
<1>2. m \in Message
  BY <1>1, OrderFields DEF Message
<1>3. Apply(b, m) = TakeOut(TakeOut(b, buy, "buy", price, quantity), sell, "sell", price, quantity)
  BY DEF Apply, OnTrade
<1> HIDE DEF price, m, after
<1>4. /\ TakeOut(b, buy, "buy", price, quantity) = BookOfOrders(half)
      /\ Known(half) /\ Positive(half)
      /\ DOMAIN orders \ {buy} \subseteq DOMAIN half /\ DOMAIN half \subseteq DOMAIN orders
      /\ \A x \in DOMAIN orders \ {buy} : half[x] = orders[x]
  BY <1>1, TakeOutExact
<1>5. sell # buy /\ sell \in DOMAIN half /\ half[sell] = orders[sell]
  BY <1>4
<1> HIDE DEF half
<1>6. /\ TakeOut(BookOfOrders(half), sell, "sell", price, quantity) = BookOfOrders(after)
      /\ Known(after) /\ Positive(after) /\ DOMAIN after \subseteq DOMAIN half
  BY <1>1, <1>4, <1>5, TakeOutExact DEF after
<1> HIDE DEF b
<1> QED BY <1>2, <1>3, <1>4, <1>6 DEF b, m, after, half, price

\* Whatever the exchange does, it publishes one message that says so.
LEMMA ExchangeExact ==
    ASSUME Known(market), Positive(market), DOMAIN market \subseteq used,
           used \subseteq MarketIds, Exchange
    PROVE  /\ Known(market') /\ Positive(market')
           /\ DOMAIN market' \subseteq used' /\ used' \subseteq MarketIds
           /\ Len(wire) < MaxWire /\ book' = book
           /\ \E m \in Message :
                /\ wire' = Append(wire, m)
                /\ Apply(BookOfOrders(market), m) = BookOfOrders(market')
<1> PICK id \in MarketIds, price \in Prices, quantity \in Sizes :
            \/ \E side \in Side : ExchangeNew(id, side, price, quantity)
            \/ ExchangeModify(id, price, quantity)
            \/ ExchangeCancel(id)
            \/ \E other \in MarketIds : ExchangeTrade(id, other, quantity)
  BY DEF Exchange
<1>1. CASE \E side \in Side : ExchangeNew(id, side, price, quantity)
  <2> PICK side \in Side : ExchangeNew(id, side, price, quantity)
    BY <1>1
  <2> DEFINE order == [side |-> side, price |-> price, quantity |-> quantity]
             m == [kind |-> "N", id |-> id, side |-> side, price |-> price,
                   quantity |-> quantity]
  <2>1. /\ id \notin used /\ used' = used \cup {id} /\ market' = Put(market, id, order)
        /\ Len(wire) < MaxWire /\ wire' = Append(wire, m) /\ book' = book
    BY DEF ExchangeNew, Publish
  <2>2. /\ Apply(BookOfOrders(market), m) = BookOfOrders(Put(market, id, order))
        /\ Known(Put(market, id, order)) /\ Positive(Put(market, id, order)) /\ m \in Message
    BY <2>1, NewExact
  <2>3. DOMAIN Put(market, id, order) = DOMAIN market \cup {id}
    BY DEF Put
  <2> HIDE DEF order, m
  <2> QED BY <2>1, <2>2, <2>3
<1>2. CASE ExchangeModify(id, price, quantity)
  <2> DEFINE changed == [market EXCEPT ![id].price = price, ![id].quantity = quantity]
             m == [kind |-> "M", id |-> id, side |-> market[id].side,
                   price |-> price, quantity |-> quantity]
  <2>1. /\ id \in DOMAIN market /\ used' = used /\ market' = changed
        /\ Len(wire) < MaxWire /\ wire' = Append(wire, m) /\ book' = book
    BY <1>2 DEF ExchangeModify, Publish
  <2>2. /\ Apply(BookOfOrders(market), m) = BookOfOrders(changed)
        /\ Known(changed) /\ Positive(changed) /\ DOMAIN changed = DOMAIN market
        /\ m \in Message
    <3> DEFINE orders == market
    <3>1. Known(orders) /\ Positive(orders) /\ id \in DOMAIN orders
      BY <2>1
    <3> HIDE DEF orders
    <3>2. LET altered == [orders EXCEPT ![id].price = price, ![id].quantity = quantity]
              n == [kind |-> "M", id |-> id, side |-> orders[id].side,
                    price |-> price, quantity |-> quantity]
          IN  /\ Apply(BookOfOrders(orders), n) = BookOfOrders(altered)
              /\ Known(altered) /\ Positive(altered)
              /\ DOMAIN altered = DOMAIN orders
              /\ n \in Message
      BY <3>1, ModifyExact
    <3> QED BY <3>2 DEF orders
  <2> HIDE DEF changed, m
  <2> QED BY <2>1, <2>2
<1>3. CASE ExchangeCancel(id)
  <2> DEFINE m == [kind |-> "X", id |-> id, side |-> market[id].side,
                   price |-> market[id].price, quantity |-> market[id].quantity]
  <2>1. /\ id \in DOMAIN market /\ used' = used /\ market' = Without(market, id)
        /\ Len(wire) < MaxWire /\ wire' = Append(wire, m) /\ book' = book
    BY <1>3 DEF ExchangeCancel, Publish
  <2>2. /\ Apply(BookOfOrders(market), m) = BookOfOrders(Without(market, id))
        /\ Known(Without(market, id)) /\ Positive(Without(market, id)) /\ m \in Message
    BY <2>1, CancelExact
  <2>3. DOMAIN Without(market, id) = DOMAIN market \ {id}
    BY KnownWithout
  <2> HIDE DEF m
  <2> QED BY <2>1, <2>2, <2>3
<1>4. CASE \E other \in MarketIds : ExchangeTrade(id, other, quantity)
  <2> PICK other \in MarketIds : ExchangeTrade(id, other, quantity)
    BY <1>4
  <2> DEFINE after == Shrink(Shrink(market, id, quantity), other, quantity)
             m == [kind |-> "T", buy |-> id, sell |-> other,
                   price |-> market[other].price, quantity |-> quantity]
  <2>1. /\ id \in DOMAIN market /\ other \in DOMAIN market
        /\ market[id].side = "buy" /\ market[other].side = "sell"
        /\ quantity <= market[id].quantity /\ quantity <= market[other].quantity
        /\ used' = used /\ market' = after
        /\ Len(wire) < MaxWire /\ wire' = Append(wire, m) /\ book' = book
    BY DEF ExchangeTrade, Publish
  <2>2. /\ Apply(BookOfOrders(market), m) = BookOfOrders(after)
        /\ Known(after) /\ Positive(after) /\ DOMAIN after \subseteq DOMAIN market
        /\ m \in Message
    BY <2>1, TradeExact
  <2> HIDE DEF after, m
  <2> QED BY <2>1, <2>2
<1> QED BY <1>1, <1>2, <1>3, <1>4

-----------------------------------------------------------------------------
(* The network moves messages about and makes none up.                     *)

LEMMA RemoveAtType ==
    ASSUME NEW S, NEW s \in Seq(S), NEW i \in DOMAIN s
    PROVE  /\ RemoveAt(s, i) \in Seq(S)
           /\ Len(RemoveAt(s, i)) = Len(s) - 1
           /\ i = 1 => RemoveAt(s, i) = Tail(s)
<1>1. Len(s) \in Nat /\ i \in 1 .. Len(s) /\ \A j \in 1 .. Len(s) : s[j] \in S
  BY LenProperties, ElementOfSeq
<1> DEFINE front == SubSeq(s, 1, i - 1)
           back == SubSeq(s, i + 1, Len(s))
<1>2. front \in Seq(S) /\ Len(front) = i - 1
  <2>1. 1 \in Int /\ i - 1 \in Int /\ \A j \in 1 .. i - 1 : s[j] \in S
    BY <1>1
  <2>2. /\ front \in Seq(S)
        /\ Len(front) = IF 1 <= i - 1 THEN i - 1 - 1 + 1 ELSE 0
    BY <2>1, SubSeqProperties
  <2> QED BY <1>1, <2>2
<1>3. back \in Seq(S) /\ Len(back) = Len(s) - i
  <2>1. i + 1 \in Int /\ Len(s) \in Int /\ \A j \in i + 1 .. Len(s) : s[j] \in S
    BY <1>1
  <2>2. /\ back \in Seq(S)
        /\ Len(back) = IF i + 1 <= Len(s) THEN Len(s) - (i + 1) + 1 ELSE 0
    BY <2>1, SubSeqProperties
  <2> QED BY <1>1, <2>2
<1>4. RemoveAt(s, i) = front \o back
  BY DEF RemoveAt
<1>5. i = 1 => RemoveAt(s, i) = Tail(s)
  <2> SUFFICES ASSUME i = 1 PROVE front \o back = Tail(s)
    BY <1>4
  <2>1. s # <<>>
    BY <1>1
  <2>2. front = <<>>
    BY <1>1, SubSeqEmpty
  <2>3. back = Tail(s)
    BY <2>1, TailIsSubSeq
  <2> HIDE DEF front, back
  <2> QED BY <1>3, <2>2, <2>3, ConcatEmptySeq
<1> HIDE DEF front, back
<1>6. front \o back \in Seq(S) /\ Len(front \o back) = Len(front) + Len(back)
  BY <1>2, <1>3, ConcatProperties
<1>7. Len(front) + Len(back) = Len(s) - 1
  BY <1>1, <1>2, <1>3
<1> QED BY <1>4, <1>5, <1>6, <1>7

LEMMA InsertAtType ==
    ASSUME NEW S, NEW s \in Seq(S), NEW i \in DOMAIN s, NEW e \in S
    PROVE  InsertAt(s, i, e) \in Seq(S) /\ Len(InsertAt(s, i, e)) = Len(s) + 1
<1>1. Len(s) \in Nat /\ i \in 1 .. Len(s) /\ \A j \in 1 .. Len(s) : s[j] \in S
  BY LenProperties, ElementOfSeq
<1> DEFINE front == SubSeq(s, 1, i - 1)
           back == SubSeq(s, i, Len(s))
<1>2. front \in Seq(S) /\ Len(front) = i - 1
  <2>1. 1 \in Int /\ i - 1 \in Int /\ \A j \in 1 .. i - 1 : s[j] \in S
    BY <1>1
  <2>2. /\ front \in Seq(S)
        /\ Len(front) = IF 1 <= i - 1 THEN i - 1 - 1 + 1 ELSE 0
    BY <2>1, SubSeqProperties
  <2> QED BY <1>1, <2>2
<1>3. back \in Seq(S) /\ Len(back) = Len(s) - i + 1
  <2>1. i \in Int /\ Len(s) \in Int /\ \A j \in i .. Len(s) : s[j] \in S
    BY <1>1
  <2>2. /\ back \in Seq(S)
        /\ Len(back) = IF i <= Len(s) THEN Len(s) - i + 1 ELSE 0
    BY <2>1, SubSeqProperties
  <2> QED BY <1>1, <2>2
<1>4. <<e>> \in Seq(S) /\ Len(<<e>>) = 1
  OBVIOUS
<1>5. InsertAt(s, i, e) = (front \o <<e>>) \o back
  BY DEF InsertAt
<1> HIDE DEF front, back
<1>6. front \o <<e>> \in Seq(S) /\ Len(front \o <<e>>) = Len(front) + 1
  BY <1>2, <1>4, ConcatProperties
<1>7. /\ (front \o <<e>>) \o back \in Seq(S)
      /\ Len((front \o <<e>>) \o back) = Len(front \o <<e>>) + Len(back)
  BY <1>3, <1>6, ConcatProperties
<1>8. InsertAt(s, i, e) \in Seq(S)
  BY <1>5, <1>7
<1>9. Len(InsertAt(s, i, e)) = Len(front \o <<e>>) + Len(back)
  BY <1>5, <1>7
<1>10. Len(InsertAt(s, i, e)) = (i - 1 + 1) + (Len(s) - i + 1)
  BY <1>2, <1>3, <1>6, <1>9
<1>11. Len(InsertAt(s, i, e)) = Len(s) + 1
  <2> DEFINE n == Len(s)  m == Len(InsertAt(s, i, e))
  <2>1. n \in Int /\ i \in Int /\ m = (i - 1 + 1) + (n - i + 1)
    BY <1>1, <1>10
  <2> HIDE DEF n, m
  <2>2. m = n + 1
    BY <2>1
  <2> QED BY <2>2 DEF n, m
<1> QED BY <1>8, <1>11

-----------------------------------------------------------------------------
(* The invariant.  The book is sound whatever the network did: that is     *)
(* NeverOverstates.  BookFollowsFeed is inductive together with what it    *)
(* needs of the exchange: its orders are finitely many, none is empty, and *)
(* an id is given out once.                                                *)

FeedInv ==
    /\ faults \in Networks
    /\ Known(market) /\ Positive(market)
    /\ DOMAIN market \subseteq used /\ used \subseteq MarketIds
    /\ wire \in Seq(Message) /\ Len(wire) <= MaxWire
    /\ FeedSound(book)
    /\ BookFollowsFeed

LEMMA EmptyBookSound == FeedSound(EmptyBook) /\ BookOfOrders(Empty) = EmptyBook
<1>1. DOMAIN Empty = {} /\ IsFiniteSet({})
  BY FS_EmptySet DEF Empty
<1>2. IsBook(EmptyBook)
  BY <1>1 DEF IsBook, EmptyBook, IsTable, Side, Empty
<1>3. Covered(EmptyBook)
  BY <1>1 DEF Covered, EmptyBook, Side
<1>4. EmptyBook.orders = Empty
  BY DEF EmptyBook
<1>5. LevelsOf(Empty, "buy") = Empty /\ LevelsOf(Empty, "sell") = Empty
  BY DEF LevelsOf, Empty
<1> QED BY <1>1, <1>2, <1>3, <1>4, <1>5 DEF FeedSound, BookOfOrders, EmptyBook

LEMMA FeedInvInit == FeedInit => FeedInv
<1> SUFFICES ASSUME FeedInit PROVE FeedInv
  OBVIOUS
<1>1. /\ faults \in Networks /\ market = Empty /\ used = {} /\ wire = <<>>
      /\ book = EmptyBook
  BY DEF FeedInit
<1>2. Known(market) /\ Positive(market) /\ DOMAIN market \subseteq used
  BY <1>1, FS_EmptySet DEF Known, IsTable, Positive, Empty
<1>3. wire \in Seq(Message) /\ Len(wire) <= MaxWire
  BY <1>1, FeedAssumption
<1>4. FeedSound(book)
  BY <1>1, EmptyBookSound
<1>5. CaughtUp(EmptyBook, <<>>) = EmptyBook
  BY CaughtUpEmpty
<1>6. BookFollowsFeed
  BY <1>1, <1>5, EmptyBookSound DEF BookFollowsFeed
<1> QED BY <1>1, <1>2, <1>3, <1>4, <1>6 DEF FeedInv

LEMMA FeedInvNext ==
    ASSUME FeedInv, [FeedNext]_feed_vars
    PROVE  FeedInv'
<1>1. /\ faults \in Networks /\ Known(market) /\ Positive(market)
      /\ DOMAIN market \subseteq used /\ used \subseteq MarketIds
      /\ wire \in Seq(Message) /\ Len(wire) <= MaxWire /\ Len(wire) \in Nat
      /\ FeedSound(book)
      /\ faults = {} => CaughtUp(book, wire) = BookOfOrders(market)
      /\ MaxWire \in Nat
  BY FeedAssumption, LenProperties DEF FeedInv, BookFollowsFeed
<1>2. ASSUME Exchange, UNCHANGED faults
      PROVE  FeedInv'
  <2>1. /\ Known(market') /\ Positive(market')
        /\ DOMAIN market' \subseteq used' /\ used' \subseteq MarketIds
        /\ Len(wire) < MaxWire /\ book' = book
    BY <1>1, <1>2, ExchangeExact
  <2>2. PICK m \in Message :
            /\ wire' = Append(wire, m)
            /\ Apply(BookOfOrders(market), m) = BookOfOrders(market')
    BY <1>1, <1>2, ExchangeExact
  <2>3. wire' \in Seq(Message) /\ Len(wire') <= MaxWire
    BY <1>1, <2>1, <2>2, AppendProperties
  <2>4. CaughtUp(book', wire') = Apply(CaughtUp(book, wire), m)
    BY <1>1, <2>1, <2>2, CaughtUpAppend
  <2>5. BookFollowsFeed'
    BY <1>1, <1>2, <2>2, <2>4 DEF BookFollowsFeed
  <2> QED BY <1>1, <1>2, <2>1, <2>3, <2>5 DEF FeedInv
<1>3. ASSUME Lose, UNCHANGED faults
      PROVE  FeedInv'
  <2>1. PICK i \in DOMAIN wire : wire' = RemoveAt(wire, i)
    BY <1>3 DEF Lose
  <2>2. wire' \in Seq(Message) /\ Len(wire') <= MaxWire
    BY <1>1, <2>1, RemoveAtType
  <2>3. faults' # {} /\ UNCHANGED <<market, used, book>>
    BY <1>3 DEF Lose
  <2>4. BookFollowsFeed'
    BY <2>3 DEF BookFollowsFeed
  <2> QED BY <1>1, <1>3, <2>2, <2>3, <2>4 DEF FeedInv
<1>4. ASSUME Duplicate, UNCHANGED faults
      PROVE  FeedInv'
  <2>1. PICK i \in DOMAIN wire : wire' = InsertAt(wire, i, wire[i])
    BY <1>4 DEF Duplicate
  <2>2. wire[i] \in Message
    BY <1>1, LenProperties, ElementOfSeq
  <2>3. wire' \in Seq(Message) /\ Len(wire') <= MaxWire
    BY <1>1, <1>4, <2>1, <2>2, InsertAtType DEF Duplicate
  <2>4. faults' # {} /\ UNCHANGED <<market, used, book>>
    BY <1>4 DEF Duplicate
  <2>5. BookFollowsFeed'
    BY <2>4 DEF BookFollowsFeed
  <2> QED BY <1>1, <1>4, <2>3, <2>4, <2>5 DEF FeedInv
<1>5. ASSUME Receive, UNCHANGED faults
      PROVE  FeedInv'
  <2>1. PICK i \in DOMAIN wire :
            /\ i = 1 \/ "reorder" \in faults
            /\ wire' = RemoveAt(wire, i)
            /\ book' = Apply(book, wire[i])
            /\ UNCHANGED <<market, used>>
    BY <1>5 DEF Receive
  <2>2. wire[i] \in Message /\ wire # <<>>
    BY <1>1, LenProperties, ElementOfSeq
  <2>3. wire' \in Seq(Message) /\ Len(wire') <= MaxWire
    BY <1>1, <2>1, RemoveAtType
  <2>4. FeedSound(book')
    BY <1>1, <2>1, <2>2, ApplySound
  <2>5. BookFollowsFeed'
    <3> SUFFICES ASSUME faults = {} PROVE CaughtUp(book', wire') = BookOfOrders(market')
      BY <1>5 DEF BookFollowsFeed
    <3>1. i = 1 /\ wire' = Tail(wire)
      BY <1>1, <2>1, RemoveAtType
    <3>2. CaughtUp(Apply(book, wire[1]), Tail(wire)) = CaughtUp(book, wire)
      BY <1>1, <2>2, CaughtUpTail
    <3> QED BY <1>1, <2>1, <3>1, <3>2
  <2> QED BY <1>1, <1>5, <2>1, <2>3, <2>4, <2>5 DEF FeedInv
<1>6. ASSUME UNCHANGED feed_vars
      PROVE  FeedInv'
  BY <1>6 DEF FeedInv, feed_vars, BookFollowsFeed
<1> QED BY <1>2, <1>3, <1>4, <1>5, <1>6 DEF FeedNext

\* What exchange, network and book keep up together, with every datagram.
THEOREM FeedInvariant == FeedSpec => []FeedInv
<1>1. FeedInit => FeedInv
  BY FeedInvInit
<1>2. FeedInv /\ [FeedNext]_feed_vars => FeedInv'
  BY FeedInvNext
<1> QED BY <1>1, <1>2, PTL DEF FeedSpec

\* The feed and the book keep their types: the datagrams under way are ones the
\* exchange can send, and levels and orders of the book have prices, ids and
\* quantities of the right kind (onTbtOrderMessage, onTbtTradeMessage).
THEOREM FeedTypeCorrect == FeedSpec => []FeedTypeOK
<1>1. FeedInv => FeedTypeOK
  <2> SUFFICES ASSUME FeedInv PROVE FeedTypeOK
    OBVIOUS
  <2>1. IsTable(market, used, MarketOrder)
    BY DEF FeedInv, Known, IsTable
  <2> QED BY <2>1 DEF FeedInv, FeedTypeOK, FeedSound
<1> QED BY <1>1, FeedInvariant, PTL

\* On a feed that loses, repeats and reorders nothing the book follows the
\* exchange: once the datagrams under way are applied it shows exactly the
\* exchange's orders, levels and counts (ExternalBook, runtime.cpp:417-538).
THEOREM BookFollows == FeedSpec => []BookFollowsFeed
<1>1. FeedInv => BookFollowsFeed
  BY DEF FeedInv
<1> QED BY <1>1, FeedInvariant, PTL

\* Whatever the network does, no level the engine fills against shows more
\* than the orders the book knows of at its price.
THEOREM BookNeverOverstates == FeedSpec => []NeverOverstates
<1>1. FeedInv => NeverOverstates
  BY DEF FeedInv, FeedSound, NeverOverstates
<1> QED BY <1>1, FeedInvariant, PTL

=============================================================================
