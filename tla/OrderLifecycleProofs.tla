------------------------ MODULE OrderLifecycleProofs ------------------------
(***************************************************************************)
(* OrderLifecycle proved for every set of orders, symbols, prices and      *)
(* quantities and every capacity of the table.                             *)
(***************************************************************************)
EXTENDS OrderLifecycle, OrderLemmas

(* The state a slot keeps: an expiry is no event, and leaves it as it was. *)
KeptState(x) ==
  CASE x.state = "Sent"              -> "Pending"
    [] x.state \in {"Live", "Expired"} -> IF x.filled = 0 THEN "Pending" ELSE "PartiallyFilled"
    [] OTHER                         -> x.state

(* What holds between a slot and the exchange's entry for its order.  The  *)
(* entry of an open order leaves something to trade, which the state alone *)
(* does not say; an order without fills has no average yet.                *)
SlotFollows(o, x) ==
  /\ x.state # "None"
  /\ o.state = KeptState(x)
  /\ <<o.symbol, o.side, o.limit_price, o.original_qty, o.filled_qty>>
       = <<x.symbol, x.side, x.limit, x.qty, x.filled>>
  /\ x.state \in {"Sent", "Live", "Expired"} => x.filled < x.qty
  /\ x.state = "Sent" => x.filled = 0
  /\ o.avg_fill_price \in Nat
  /\ x.filled = 0 => o.avg_fill_price = 0
  /\ x.filled > 0 => \E lo, hi \in x.traded : lo - 1 <= o.avg_fill_price
                                              /\ o.avg_fill_price <= hi
  /\ o.avg_fill_price * x.filled <= x.value
  /\ x.value - o.avg_fill_price * x.filled <= x.slack

UniqueOrders == \A i, j \in 1..Len(orders) : orders[i].order_id = orders[j].order_id => i = j

LostOnlyWhenFull ==
  \A oid \in OrderIds : book[oid].state # "None" /\ Len(orders) < MaxOrders => OrderTracked(oid)

UnsentUntraded ==
  \A oid \in OrderIds : book[oid].state = "None" => book[oid].filled = 0 /\ book[oid].value = 0

IndInv ==
  /\ TypeOK
  /\ \A i \in 1..Len(orders) : SlotFollows(orders[i], book[orders[i].order_id])
  /\ UniqueOrders
  /\ LostOnlyWhenFull
  /\ UnsentUntraded

(* What one event may do to a slot. *)
Advances(o, h) ==
  /\ h.order_id = o.order_id
  /\ <<o.state, h.state>> \in Forward
  /\ h.filled_qty >= o.filled_qty
  /\ ~IsOpen(o) => h = o

SlotsAdvance ==
  /\ Len(orders') >= Len(orders)
  /\ \A i \in 1..Len(orders) : Advances(orders[i], orders'[i])

-----------------------------------------------------------------------------

-----------------------------------------------------------------------------
(* handle_fill() follows the trade of the exchange: the average fill price *)
(* keeps its range and loses no more than the roundings allow.             *)
LEMMA FillFollows ==
  ASSUME NEW o \in Order, NEW x \in BookEntry, SlotFollows(o, x), x.state = "Live",
         NEW q \in Nat \ {0}, x.filled + q <= x.qty,
         NEW px \in Prices, NEW p \in ToFixed(px),
         NEW e, e.fill_qty = q, e.fill_price = p, e.sequence \in Nat,
         NEW y \in BookEntry,
         y = [ x EXCEPT !.state  = IF x.filled + q = x.qty THEN "Filled" ELSE "Live",
                        !.filled = x.filled + q,
                        !.value  = x.value + q * px,
                        !.slack  = x.slack + q + ((x.filled + q) - 1),
                        !.traded = x.traded \cup {px} ]
  PROVE  /\ HandleFill(o, e) \in Order
         /\ SlotFollows(HandleFill(o, e), y)
         /\ Advances(o, HandleFill(o, e))
<1> DEFINE a == o.avg_fill_price
           n == x.filled
           m == n + q
           c == a * n + p * q
           d == c \div m
           st == IF x.qty - m <= 0 THEN "Filled" ELSE "PartiallyFilled"
           h == [ o EXCEPT !.avg_fill_price = d, !.filled_qty = m,
                           !.last_seq = e.sequence, !.state = st ]
<1>1. /\ a \in Nat /\ n \in Nat /\ x.qty \in Nat /\ x.value \in Nat /\ x.slack \in Nat
      /\ x.traded \subseteq Prices
      /\ o.filled_qty = n /\ o.original_qty = x.qty
      /\ a * n <= x.value /\ x.value - a * n <= x.slack
      /\ n < x.qty
  BY DEF SlotFollows, BookEntry
<1>2. px \in Nat /\ px > 0 /\ p \in Nat /\ px - 1 <= p /\ p <= px
  BY OrderPricesAssumption DEF ToFixed
<1>3. /\ d \in Nat
      /\ d * m <= c
      /\ c - d * m <= m - 1
      /\ \A lo, hi \in Int : /\ n > 0 => lo <= a /\ a <= hi
                             /\ lo <= p /\ p <= hi
                             => lo <= d /\ d <= hi
  <2>1. a \in Nat /\ n \in Nat /\ p \in Nat
    BY <1>1, <1>2
  <2>2. TruncatedAverage(a, n, p, q, d)
    <3> HIDE DEF a, n, st, h
    <3> QED BY <2>1, AverageOfFills
  <2> HIDE DEF a, n, d, st, h
  <2> QED BY <2>2, Zenon DEF TruncatedAverage
<1>4. c \in Nat /\ m \in Nat /\ m > 0
  <2>1. a * n \in Nat /\ p * q \in Nat /\ m \in Nat /\ m > 0
    <3> HIDE DEF a, n
    <3> QED BY <1>1, <1>2
  <2> QED BY <2>1
<1>5. HandleFill(o, e) = h
  <2>1. CDiv(c, m) = d
    BY <1>4 DEF CDiv
  <2>2. o.filled_qty + e.fill_qty = m /\ e.fill_price * e.fill_qty = p * q
    BY <1>1
  <2>3. o.avg_fill_price * o.filled_qty + e.fill_price * e.fill_qty = c
    BY <1>1, <2>2
  <2> HIDE DEF a, n, m, c, d
  <2> QED BY <1>1, <1>4, <2>1, <2>2, <2>3 DEF HandleFill
<1> HIDE DEF c, d
<1>6. h \in Order
  <2>1. st \in OrderStates /\ d \in Int /\ m \in Int
    BY <1>3, <1>4 DEF OrderStates
  <2> HIDE DEF st, m
  <2> QED BY <2>1 DEF Order
<1>7. /\ h.avg_fill_price = d /\ h.filled_qty = m /\ h.state = st
      /\ h.symbol = o.symbol /\ h.side = o.side /\ h.limit_price = o.limit_price
      /\ h.original_qty = o.original_qty /\ h.order_id = o.order_id
  BY <1>3, <1>4 DEF Order
<1>8. /\ y.state = IF m = x.qty THEN "Filled" ELSE "Live"
      /\ y.filled = m /\ y.value = x.value + q * px
      /\ y.slack = x.slack + q + (m - 1)
      /\ y.traded = x.traded \cup {px}
      /\ y.symbol = x.symbol /\ y.side = x.side /\ y.limit = x.limit /\ y.qty = x.qty
  BY DEF BookEntry
<1>9. \E lo, hi \in y.traded : lo - 1 <= d /\ d <= hi
  <2>1. CASE n = 0
    <3>1. px - 1 <= d /\ d <= px
      BY <1>2, <1>3, <2>1
    <3> QED BY <3>1, <1>8
  <2>2. CASE n > 0
    <3>1. PICK lo \in x.traded, hi \in x.traded : lo - 1 <= a /\ a <= hi
      BY <2>2 DEF SlotFollows
    <3>2. lo \in Nat /\ hi \in Nat
      BY <1>1, OrderPricesAssumption
    <3> DEFINE l == IF lo <= px THEN lo ELSE px
               u == IF hi <= px THEN px ELSE hi
    <3>3. /\ l \in y.traded /\ u \in y.traded /\ l - 1 \in Int /\ u \in Int
          /\ l - 1 <= a /\ a <= u /\ l - 1 <= p /\ p <= u
      BY <1>1, <1>2, <1>8, <3>1, <3>2
    <3> HIDE DEF l, u
    <3>4. l - 1 <= d /\ d <= u
      BY <1>3, <3>3
    <3> QED BY <3>3, <3>4
  <2> QED BY <1>1, <2>1, <2>2
<1>10. d * m <= x.value + q * px /\ (x.value + q * px) - d * m <= x.slack + q + (m - 1)
  <2>1. /\ a * n \in Nat /\ p * q \in Nat /\ q * px \in Nat /\ d * m \in Nat
        /\ c = a * n + p * q
    BY <1>1, <1>2, <1>3, <1>4 DEF c
  <2>2. p * q <= q * px /\ q * px <= p * q + q
    <3>1. q * p <= q * px /\ q * px <= q * (p + 1)
      BY <1>2, ProductOrder
    <3> QED BY <1>2, <3>1
  <2> HIDE DEF a, n, m
  <2> QED BY <1>1, <1>2, <1>3, <1>4, <2>1, <2>2
<1>11. SlotFollows(h, y)
  <2>1. /\ y.state # "None"
        /\ h.state = KeptState(y)
        /\ y.state \in {"Sent", "Live", "Expired"} => y.filled < y.qty
        /\ y.state = "Sent" => y.filled = 0
    <3>0. m = x.qty \/ m < x.qty
      <4>1. n \in Nat /\ x.qty \in Nat /\ m <= x.qty
        BY <1>1
      <4> HIDE DEF n
      <4> QED BY <4>1
    <3> HIDE DEF h, a, n, m
    <3>1. CASE m = x.qty
      BY <1>1, <1>4, <1>7, <1>8, <3>1 DEF KeptState
    <3>2. CASE m < x.qty
      <4>1. y.state = "Live" /\ h.state = "PartiallyFilled" /\ y.filled = m /\ y.qty = x.qty
        BY <1>1, <1>4, <1>7, <1>8, <3>2
      <4> QED BY <1>4, <3>2, <4>1 DEF KeptState
    <3> QED BY <3>0, <3>1, <3>2, Zenon
  <2>2. <<h.symbol, h.side, h.limit_price, h.original_qty, h.filled_qty>>
          = <<y.symbol, y.side, y.limit, y.qty, y.filled>>
    BY <1>7, <1>8 DEF SlotFollows
  <2>3. /\ h.avg_fill_price \in Nat
        /\ y.filled = 0 => h.avg_fill_price = 0
        /\ \E lo, hi \in y.traded : lo - 1 <= h.avg_fill_price /\ h.avg_fill_price <= hi
        /\ h.avg_fill_price * y.filled <= y.value
        /\ y.value - h.avg_fill_price * y.filled <= y.slack
    BY <1>3, <1>4, <1>7, <1>8, <1>9, <1>10
  <2> HIDE DEF h
  <2> QED BY <2>1, <2>2, <2>3 DEF SlotFollows
<1>12. Advances(o, h)
  <2>1. o.state \in {"Pending", "PartiallyFilled"}
    BY DEF SlotFollows, KeptState
  <2>2. st \in {"Filled", "PartiallyFilled"} /\ m >= n
    BY <1>1
  <2> QED BY <1>1, <1>7, <2>1, <2>2 DEF Advances, Forward, OrderStates, IsOpen
<1> QED BY <1>5, <1>6, <1>11, <1>12

-----------------------------------------------------------------------------
(* An event of an order the exchange knows: if the handler keeps the slot  *)
(* in step with the new entry of the book, apply_event() keeps the table   *)
(* in step with the book.  An order without a slot stays without one.      *)
LEMMA KnownStep ==
  ASSUME IndInv, NEW oid \in OrderIds, book[oid].state # "None",
         NEW y \in BookEntry, y.state # "None", book' = [book EXCEPT ![oid] = y],
         NEW e, e.order_id = oid, e.type # "NewOrder", orders' = BookOrder(orders, e),
         \A o \in Order : o.order_id = oid /\ SlotFollows(o, book[oid]) =>
            /\ HandleKnown(o, e) \in Order
            /\ SlotFollows(HandleKnown(o, e), y)
            /\ Advances(o, HandleKnown(o, e))
  PROVE  IndInv' /\ SlotsAdvance
<1> DEFINE i == FindOrder(orders, oid)
<1>1. /\ orders \in Seq(Order) /\ Len(orders) <= MaxOrders /\ Len(orders) \in Nat
      /\ book \in [OrderIds -> BookEntry]
  BY DEF IndInv, TypeOK
<1>2. /\ i \in 0..Len(orders)
      /\ i # 0 => orders[i].order_id = oid
      /\ i = 0 => \A j \in 1..Len(orders) : orders[j].order_id # oid
  BY <1>1, FindOrderProps
<1>3. /\ book' \in [OrderIds -> BookEntry]
      /\ book'[oid] = y
      /\ \A z \in OrderIds \ {oid} : book'[z] = book[z]
  BY <1>1
<1>4. \A j \in 1..Len(orders) : orders[j] \in Order /\ orders[j].order_id \in OrderIds
  <2>1. \A j \in 1..Len(orders) : orders[j] \in Order
    BY <1>1
  <2>2. \A o \in Order : o.order_id \in OrderIds
    BY DEF Order
  <2> QED BY <2>1, <2>2
<1>5. \A j \in 1..Len(orders) : Advances(orders[j], orders[j])
  <2> SUFFICES ASSUME NEW o \in Order PROVE Advances(o, o)
    BY <1>4
  <2>1. o.state \in OrderStates /\ o.filled_qty \in Int
    BY DEF Order
  <2>2. <<o.state, o.state>> \in Forward
    BY <2>1 DEF Forward, OrderStates
  <2> QED BY <2>1, <2>2 DEF Advances
<1>6. CASE i = 0
  <2>1. orders' = orders
    BY <1>6 DEF BookOrder
  <2>2. \A j \in 1..Len(orders) : book'[orders[j].order_id] = book[orders[j].order_id]
    BY <1>2, <1>3, <1>4, <1>6
  <2>3. LostOnlyWhenFull'
    BY <1>3, <2>1 DEF IndInv, LostOnlyWhenFull, OrderTracked
  <2>4. IndInv'
    BY <1>1, <1>3, <2>1, <2>2, <2>3 DEF IndInv, TypeOK, UniqueOrders, UnsentUntraded
  <2> QED BY <1>1, <1>5, <2>1, <2>4 DEF SlotsAdvance
<1>7. CASE i # 0
  <2> DEFINE h == HandleKnown(orders[i], e)
  <2>1. i \in 1..Len(orders) /\ orders[i] \in Order /\ orders[i].order_id = oid
    BY <1>1, <1>2, <1>4, <1>7
  <2>2. orders' = [orders EXCEPT ![i] = h]
    BY <1>7 DEF BookOrder
  <2>3. SlotFollows(orders[i], book[oid])
    BY <2>1 DEF IndInv
  <2>4. h \in Order /\ SlotFollows(h, y) /\ Advances(orders[i], h)
    BY <2>1, <2>3
  <2> HIDE DEF h, i
  <2>5. /\ orders' \in Seq(Order) /\ Len(orders') = Len(orders)
        /\ orders'[i] = h
        /\ \A j \in 1..Len(orders) : j # i => orders'[j] = orders[j]
    BY <1>1, <2>1, <2>2, <2>4
  <2>6. h.order_id = oid
    BY <2>1, <2>4 DEF Advances
  <2>7. \A j \in 1..Len(orders) : orders'[j].order_id = orders[j].order_id
    BY <2>1, <2>5, <2>6
  <2>8. \A j \in 1..Len(orders) : j # i => orders[j].order_id \in OrderIds \ {oid}
    BY <1>4, <2>1 DEF IndInv, UniqueOrders
  <2>9. \A j \in 1..Len(orders) : SlotFollows(orders'[j], book'[orders'[j].order_id])
    <3> SUFFICES ASSUME NEW j \in 1..Len(orders)
                 PROVE  SlotFollows(orders'[j], book'[orders'[j].order_id])
      OBVIOUS
    <3>1. CASE j = i
      BY <1>3, <2>4, <2>5, <2>6, <3>1
    <3>2. CASE j # i
      <4>1. orders'[j] = orders[j] /\ book'[orders[j].order_id] = book[orders[j].order_id]
        BY <1>3, <2>5, <2>8, <3>2
      <4>2. SlotFollows(orders[j], book[orders[j].order_id])
        BY DEF IndInv
      <4> QED BY <4>1, <4>2
    <3> QED BY <3>1, <3>2
  <2>10. UniqueOrders'
    BY <2>5, <2>7 DEF IndInv, UniqueOrders
  <2>11. LostOnlyWhenFull'
    <3> SUFFICES ASSUME NEW z \in OrderIds, book'[z].state # "None", Len(orders') < MaxOrders
                 PROVE  \E j \in 1..Len(orders') : orders'[j].order_id = z
      BY DEF LostOnlyWhenFull, OrderTracked
    <3>1. book[z].state # "None"
      BY <1>3
    <3>2. \E j \in 1..Len(orders) : orders[j].order_id = z
      BY <2>5, <3>1 DEF IndInv, LostOnlyWhenFull, OrderTracked
    <3> QED BY <2>5, <2>7, <3>2
  <2>12. IndInv'
    BY <1>1, <1>3, <2>5, <2>9, <2>10, <2>11 DEF IndInv, TypeOK, UnsentUntraded
  <2>13. SlotsAdvance
    <3>1. \A j \in 1..Len(orders) : Advances(orders[j], orders'[j])
      BY <1>5, <2>1, <2>4, <2>5
    <3> QED BY <1>1, <2>5, <3>1 DEF SlotsAdvance
  <2> QED BY <2>12, <2>13
<1> QED BY <1>6, <1>7

(* A change of the book that the manager is not told of, or has no slot    *)
(* for, where the slot agrees with the new entry as it is.                 *)
LEMMA SilentStep ==
  ASSUME IndInv, NEW oid \in OrderIds, book[oid].state # "None",
         NEW y \in BookEntry, y.state # "None", book' = [book EXCEPT ![oid] = y],
         orders' = orders,
         \A o \in Order : o.order_id = oid /\ SlotFollows(o, book[oid]) => SlotFollows(o, y)
  PROVE  IndInv' /\ SlotsAdvance
<1>1. /\ orders \in Seq(Order) /\ Len(orders) \in Nat
      /\ book \in [OrderIds -> BookEntry]
  BY DEF IndInv, TypeOK
<1>2. /\ book' \in [OrderIds -> BookEntry]
      /\ book'[oid] = y
      /\ \A z \in OrderIds \ {oid} : book'[z] = book[z]
  BY <1>1
<1>3. \A j \in 1..Len(orders) : orders[j] \in Order
  BY <1>1
<1>4. \A o \in Order : o.order_id \in OrderIds /\ Advances(o, o)
  <2> SUFFICES ASSUME NEW o \in Order PROVE o.order_id \in OrderIds /\ Advances(o, o)
    OBVIOUS
  <2>1. o.state \in OrderStates /\ o.filled_qty \in Int /\ o.order_id \in OrderIds
    BY DEF Order
  <2>2. <<o.state, o.state>> \in Forward
    BY <2>1 DEF Forward, OrderStates
  <2> QED BY <2>1, <2>2 DEF Advances
<1>5. \A j \in 1..Len(orders) : SlotFollows(orders[j], book'[orders[j].order_id])
  <2> SUFFICES ASSUME NEW j \in 1..Len(orders)
               PROVE  SlotFollows(orders[j], book'[orders[j].order_id])
    OBVIOUS
  <2>1. SlotFollows(orders[j], book[orders[j].order_id])
    BY DEF IndInv
  <2>2. orders[j] \in Order /\ orders[j].order_id \in OrderIds
    BY <1>3, <1>4
  <2> QED BY <1>2, <2>1, <2>2
<1>6. LostOnlyWhenFull'
  BY <1>2 DEF IndInv, LostOnlyWhenFull, OrderTracked
<1>7. IndInv'
  BY <1>2, <1>5, <1>6 DEF IndInv, TypeOK, UniqueOrders, UnsentUntraded
<1>8. SlotsAdvance
  BY <1>1, <1>3, <1>4 DEF SlotsAdvance
<1> QED BY <1>7, <1>8

-----------------------------------------------------------------------------
(* send_order(): the order takes a new slot, unless the table is full. *)
LEMMA SubmitStep ==
  ASSUME IndInv, NEW oid \in OrderIds, NEW sym \in Symbols, NEW side \in Sides,
         NEW qty \in Quantities \ {0}, NEW px \in Prices, Submit(oid, sym, side, qty, px)
  PROVE  IndInv' /\ SlotsAdvance
<1> DEFINE e == MakeNewOrder(sym, side, qty, px, oid)
           n == NewOrder(e)
           y == [ book[oid] EXCEPT !.state = "Sent", !.symbol = sym, !.side = side,
                                   !.limit = px, !.qty = qty ]
<1>1. /\ orders \in Seq(Order) /\ Len(orders) \in Nat /\ Len(orders) <= MaxOrders
      /\ book \in [OrderIds -> BookEntry] /\ book[oid] \in BookEntry
      /\ book[oid].state = "None"
  BY DEF IndInv, TypeOK, Submit
<1>2. qty \in Nat /\ qty > 0 /\ px \in Nat
  BY QuantitiesAssumption, OrderPricesAssumption
<1>3. /\ y \in BookEntry /\ y.state = "Sent" /\ y.symbol = sym /\ y.side = side
      /\ y.limit = px /\ y.qty = qty /\ y.filled = book[oid].filled
      /\ y.value = book[oid].value /\ y.slack = book[oid].slack
  BY <1>1, <1>2 DEF BookEntry, ExchangeStates
<1>4. book' = [book EXCEPT ![oid] = y]
  BY <1>1 DEF Submit
<1> HIDE DEF y
<1>5. /\ book' \in [OrderIds -> BookEntry]
      /\ book'[oid] = y
      /\ \A z \in OrderIds \ {oid} : book'[z] = book[z]
  BY <1>1, <1>3, <1>4
<1>6. \A j \in 1..Len(orders) : orders[j] \in Order
  BY <1>1
<1>7. \A o \in Order : o.order_id \in OrderIds /\ Advances(o, o)
  <2> SUFFICES ASSUME NEW o \in Order PROVE o.order_id \in OrderIds /\ Advances(o, o)
    OBVIOUS
  <2>1. o.state \in OrderStates /\ o.filled_qty \in Int /\ o.order_id \in OrderIds
    BY DEF Order
  <2>2. <<o.state, o.state>> \in Forward
    BY <2>1 DEF Forward, OrderStates
  <2> QED BY <2>1, <2>2 DEF Advances
<1>8. \A j \in 1..Len(orders) : orders[j].order_id \in OrderIds \ {oid}
  <2> SUFFICES ASSUME NEW j \in 1..Len(orders) PROVE orders[j].order_id # oid
    BY <1>6, <1>7
  <2>1. SlotFollows(orders[j], book[orders[j].order_id])
    BY DEF IndInv
  <2> QED BY <1>1, <2>1 DEF SlotFollows
<1>9. \A j \in 1..Len(orders) : SlotFollows(orders[j], book'[orders[j].order_id])
  BY <1>5, <1>8 DEF IndInv
<1>10. /\ n \in Order /\ n.order_id = oid /\ n.symbol = sym /\ n.side = side
       /\ n.limit_price = px /\ n.original_qty = qty /\ n.filled_qty = 0
       /\ n.avg_fill_price = 0 /\ n.state = "Pending"
  BY <1>2 DEF NewOrder, MakeNewOrder, Order, OrderStates
<1>11. orders' = IF Len(orders) >= MaxOrders THEN orders ELSE Append(orders, n)
  <2>1. e.type = "NewOrder" /\ e.order_id = oid
    BY DEF MakeNewOrder
  <2>2. FindOrder(orders, oid) = 0
    BY <1>1, <1>8, FindOrderProps
  <2>3. orders' = BookOrder(orders, e)
    BY DEF Submit
  <2> HIDE DEF e
  <2> QED BY <2>1, <2>2, <2>3 DEF BookOrder, HandleNew
<1> HIDE DEF n
<1>12. CASE Len(orders) >= MaxOrders
  <2>1. orders' = orders
    BY <1>11, <1>12
  <2>2. LostOnlyWhenFull'
    BY <1>1, <1>12, <2>1, MaxOrdersAssumption DEF LostOnlyWhenFull
  <2>3. IndInv'
    BY <1>1, <1>3, <1>5, <1>9, <2>1, <2>2 DEF IndInv, TypeOK, UniqueOrders, UnsentUntraded
  <2> QED BY <1>1, <1>6, <1>7, <2>1, <2>3 DEF SlotsAdvance
<1>13. CASE Len(orders) < MaxOrders
  <2>1. orders' = Append(orders, n)
    BY <1>1, <1>11, <1>13, MaxOrdersAssumption
  <2>2. /\ orders' \in Seq(Order) /\ Len(orders') = Len(orders) + 1
        /\ orders'[Len(orders) + 1] = n
        /\ \A j \in 1..Len(orders) : orders'[j] = orders[j]
    BY <1>1, <1>10, <2>1
  <2>3. SlotFollows(n, y)
    <3>1. book[oid].filled = 0 /\ book[oid].value = 0 /\ book[oid].slack \in Nat
      BY <1>1 DEF IndInv, UnsentUntraded, BookEntry
    <3> QED BY <1>2, <1>3, <1>10, <3>1 DEF SlotFollows, KeptState
  <2>4. \A j \in 1..Len(orders') : SlotFollows(orders'[j], book'[orders'[j].order_id])
    <3> SUFFICES ASSUME NEW j \in 1..Len(orders')
                 PROVE  SlotFollows(orders'[j], book'[orders'[j].order_id])
      OBVIOUS
    <3>1. CASE j = Len(orders) + 1
      BY <1>5, <1>10, <2>2, <2>3, <3>1
    <3>2. CASE j \in 1..Len(orders)
      BY <1>9, <2>2, <3>2
    <3> QED BY <1>1, <2>2, <3>1, <3>2
  <2>5. UniqueOrders'
    <3> SUFFICES ASSUME NEW i \in 1..Len(orders'), NEW j \in 1..Len(orders'),
                        orders'[i].order_id = orders'[j].order_id
                 PROVE  i = j
      BY DEF UniqueOrders
    <3>1. CASE i \in 1..Len(orders) /\ j \in 1..Len(orders)
      BY <2>2, <3>1 DEF IndInv, UniqueOrders
    <3>2. CASE i = Len(orders) + 1 \/ j = Len(orders) + 1
      BY <1>1, <1>8, <1>10, <2>2, <3>2
    <3> QED BY <1>1, <2>2, <3>1, <3>2
  <2>6. LostOnlyWhenFull'
    <3> SUFFICES ASSUME NEW z \in OrderIds, book'[z].state # "None"
                 PROVE  \E j \in 1..Len(orders') : orders'[j].order_id = z
      BY DEF LostOnlyWhenFull, OrderTracked
    <3>1. CASE z = oid
      <4>1. Len(orders) + 1 \in 1..Len(orders')
        BY <1>1, <2>2
      <4> QED BY <1>10, <2>2, <3>1, <4>1
    <3>2. CASE z # oid
      <4>1. \E j \in 1..Len(orders) : orders[j].order_id = z
        BY <1>5, <1>13, <3>2 DEF IndInv, LostOnlyWhenFull, OrderTracked
      <4> QED BY <1>1, <2>2, <4>1
    <3> QED BY <3>1, <3>2
  <2>7. IndInv'
    BY <1>1, <1>3, <1>5, <1>13, <2>2, <2>4, <2>5, <2>6, MaxOrdersAssumption DEF IndInv, TypeOK, UnsentUntraded
  <2>8. SlotsAdvance
    BY <1>1, <1>6, <1>7, <2>2 DEF SlotsAdvance
  <2> QED BY <2>7, <2>8
<1> QED BY <1>1, <1>12, <1>13, MaxOrdersAssumption

(* An acknowledgement is no event: the order was pending and stays so. *)
LEMMA AcknowledgeStep ==
  ASSUME IndInv, NEW oid \in OrderIds, Acknowledge(oid)
  PROVE  IndInv' /\ SlotsAdvance
<1> DEFINE x == book[oid]   y == [x EXCEPT !.state = "Live"]
           r == Report("New", oid, 0, 0)
<1>1. x \in BookEntry /\ book \in [OrderIds -> BookEntry] /\ x.state = "Sent"
  BY DEF IndInv, TypeOK, Acknowledge
<1>2. /\ y \in BookEntry /\ y.state = "Live" /\ book' = [book EXCEPT ![oid] = y]
      /\ y.symbol = x.symbol /\ y.side = x.side /\ y.limit = x.limit /\ y.qty = x.qty
      /\ y.filled = x.filled /\ y.value = x.value /\ y.slack = x.slack /\ y.traded = x.traded
  BY <1>1 DEF BookEntry, ExchangeStates, Acknowledge
<1>3. orders' = orders
  <2>1. r.exec_type = "New"
    BY DEF Report
  <2>2. BookReport(r)
    BY DEF Acknowledge
  <2> HIDE DEF r
  <2> QED BY <2>1, <2>2, TranslatedNone DEF BookReport
<1> HIDE DEF y
<1>4. ASSUME NEW o \in Order, SlotFollows(o, x)
      PROVE  SlotFollows(o, y)
  BY <1>1, <1>2, <1>4 DEF SlotFollows, KeptState
<1> QED BY <1>1, <1>2, <1>3, <1>4, SilentStep

(* handle_reject() follows a refusal. *)
LEMMA RefuseStep ==
  ASSUME IndInv, NEW oid \in OrderIds, Refuse(oid)
  PROVE  IndInv' /\ SlotsAdvance
<1> DEFINE x == book[oid]   y == [x EXCEPT !.state = "Rejected"]
           r == Report("Rejected", oid, 0, 0)
<1>1. x \in BookEntry /\ book \in [OrderIds -> BookEntry] /\ x.state = "Sent"
  BY DEF IndInv, TypeOK, Refuse
<1>2. /\ y \in BookEntry /\ y.state = "Rejected" /\ book' = [book EXCEPT ![oid] = y]
      /\ y.symbol = x.symbol /\ y.side = x.side /\ y.limit = x.limit /\ y.qty = x.qty
      /\ y.filled = x.filled /\ y.value = x.value /\ y.slack = x.slack /\ y.traded = x.traded
  BY <1>1 DEF BookEntry, ExchangeStates, Refuse
<1>3. PICK e : /\ e.type = "Reject" /\ e.order_id = oid /\ e.sequence = 0
               /\ orders' = BookOrder(orders, e)
  <2>1. r.exec_type = "Rejected" /\ r.cl_ord_id = oid
    BY DEF Report
  <2>2. BookReport(r)
    BY DEF Refuse
  <2> HIDE DEF r
  <2> QED BY <2>1, <2>2, TranslatedEvents, EventTypeValues DEF BookReport
<1> HIDE DEF y
<1>4. ASSUME NEW o \in Order, SlotFollows(o, x)
      PROVE  /\ HandleKnown(o, e) \in Order
             /\ SlotFollows(HandleKnown(o, e), y)
             /\ Advances(o, HandleKnown(o, e))
  <2> DEFINE h == HandleReject(o, e)
  <2>1. HandleKnown(o, e) = h
    BY <1>3 DEF HandleKnown, IsFill
  <2>2. /\ h \in Order /\ h.state = "Rejected" /\ h.order_id = o.order_id
        /\ h.symbol = o.symbol /\ h.side = o.side /\ h.limit_price = o.limit_price
        /\ h.original_qty = o.original_qty /\ h.filled_qty = o.filled_qty
        /\ h.avg_fill_price = o.avg_fill_price
    <3>1. h = [o EXCEPT !.state = "Rejected", !.last_seq = 0]
      BY <1>3 DEF HandleReject
    <3>2. "Rejected" \in OrderStates
      BY DEF OrderStates
    <3> HIDE DEF h
    <3> QED BY <3>1, <3>2 DEF Order
  <2> HIDE DEF h
  <2>3. SlotFollows(h, y)
    BY <1>1, <1>2, <1>4, <2>2 DEF SlotFollows, KeptState
  <2>4. o.state = "Pending" /\ o.filled_qty \in Int
    BY <1>1, <1>4 DEF SlotFollows, KeptState, Order
  <2>5. Advances(o, h)
    BY <2>2, <2>4 DEF Advances, Forward, OrderStates, IsOpen
  <2> QED BY <2>1, <2>2, <2>3, <2>5
<1> QED BY <1>1, <1>2, <1>3, <1>4, KnownStep

(* handle_cancel() follows a cancellation; the fills it had stay. *)
LEMMA CancelStep ==
  ASSUME IndInv, NEW oid \in OrderIds, CancelOrder(oid)
  PROVE  IndInv' /\ SlotsAdvance
<1> DEFINE x == book[oid]   y == [x EXCEPT !.state = "Cancelled"]
           r == Report("Canceled", oid, 0, 0)
<1>1. x \in BookEntry /\ book \in [OrderIds -> BookEntry] /\ x.state = "Live"
  BY DEF IndInv, TypeOK, CancelOrder
<1>2. /\ y \in BookEntry /\ y.state = "Cancelled" /\ book' = [book EXCEPT ![oid] = y]
      /\ y.symbol = x.symbol /\ y.side = x.side /\ y.limit = x.limit /\ y.qty = x.qty
      /\ y.filled = x.filled /\ y.value = x.value /\ y.slack = x.slack /\ y.traded = x.traded
  BY <1>1 DEF BookEntry, ExchangeStates, CancelOrder
<1>3. PICK e : /\ e.type = "Cancel" /\ e.order_id = oid /\ e.sequence = 0
               /\ orders' = BookOrder(orders, e)
  <2>1. r.exec_type = "Canceled" /\ r.cl_ord_id = oid
    BY DEF Report
  <2>2. BookReport(r)
    BY DEF CancelOrder
  <2> HIDE DEF r
  <2> QED BY <2>1, <2>2, TranslatedEvents, EventTypeValues DEF BookReport
<1> HIDE DEF y
<1>4. ASSUME NEW o \in Order, SlotFollows(o, x)
      PROVE  /\ HandleKnown(o, e) \in Order
             /\ SlotFollows(HandleKnown(o, e), y)
             /\ Advances(o, HandleKnown(o, e))
  <2> DEFINE h == HandleCancel(o, e)
  <2>1. HandleKnown(o, e) = h
    BY <1>3 DEF HandleKnown, IsFill
  <2>2. /\ h \in Order /\ h.state = "Cancelled" /\ h.order_id = o.order_id
        /\ h.symbol = o.symbol /\ h.side = o.side /\ h.limit_price = o.limit_price
        /\ h.original_qty = o.original_qty /\ h.filled_qty = o.filled_qty
        /\ h.avg_fill_price = o.avg_fill_price
    <3>1. h = [o EXCEPT !.state = "Cancelled", !.last_seq = 0]
      BY <1>3 DEF HandleCancel
    <3>2. "Cancelled" \in OrderStates
      BY DEF OrderStates
    <3> HIDE DEF h
    <3> QED BY <3>1, <3>2 DEF Order
  <2> HIDE DEF h
  <2>3. SlotFollows(h, y)
    BY <1>1, <1>2, <1>4, <2>2 DEF SlotFollows, KeptState
  <2>4. o.state \in {"Pending", "PartiallyFilled"} /\ o.filled_qty \in Int
    BY <1>1, <1>4 DEF SlotFollows, KeptState, Order
  <2>5. Advances(o, h)
    BY <2>2, <2>4 DEF Advances, Forward, OrderStates, IsOpen
  <2> QED BY <2>1, <2>2, <2>3, <2>5
<1> QED BY <1>1, <1>2, <1>3, <1>4, KnownStep

(* An expiry is no event: the slot stays as open as it was. *)
LEMMA ExpireStep ==
  ASSUME IndInv, NEW oid \in OrderIds, ExpireOrder(oid)
  PROVE  IndInv' /\ SlotsAdvance
<1> DEFINE x == book[oid]   y == [x EXCEPT !.state = "Expired"]
           r == Report("Expired", oid, 0, 0)
<1>1. x \in BookEntry /\ book \in [OrderIds -> BookEntry] /\ x.state = "Live"
  BY DEF IndInv, TypeOK, ExpireOrder
<1>2. /\ y \in BookEntry /\ y.state = "Expired" /\ book' = [book EXCEPT ![oid] = y]
      /\ y.symbol = x.symbol /\ y.side = x.side /\ y.limit = x.limit /\ y.qty = x.qty
      /\ y.filled = x.filled /\ y.value = x.value /\ y.slack = x.slack /\ y.traded = x.traded
  BY <1>1 DEF BookEntry, ExchangeStates, ExpireOrder
<1>3. orders' = orders
  <2>1. r.exec_type = "Expired"
    BY DEF Report
  <2>2. BookReport(r)
    BY DEF ExpireOrder
  <2> HIDE DEF r
  <2> QED BY <2>1, <2>2, TranslatedNone DEF BookReport
<1> HIDE DEF y
<1>4. ASSUME NEW o \in Order, SlotFollows(o, x)
      PROVE  SlotFollows(o, y)
  BY <1>1, <1>2, <1>4 DEF SlotFollows, KeptState
<1> QED BY <1>1, <1>2, <1>3, <1>4, SilentStep

(* handle_fill() follows a trade. *)
LEMMA TradeStep ==
  ASSUME IndInv, NEW oid \in OrderIds, NEW qty \in Quantities \ {0}, NEW px \in Prices,
         Trade(oid, qty, px)
  PROVE  IndInv' /\ SlotsAdvance
<1> DEFINE x == book[oid]
           y == [ x EXCEPT !.state  = IF x.filled + qty = x.qty THEN "Filled" ELSE "Live",
                           !.filled = x.filled + qty,
                           !.value  = x.value + qty * px,
                           !.slack  = x.slack + qty + ((x.filled + qty) - 1),
                           !.traded = x.traded \cup {px} ]
           t == IF x.filled + qty = x.qty THEN "Fill" ELSE "PartialFill"
           r == Report(t, oid, qty, px)
<1>1. /\ x \in BookEntry /\ book \in [OrderIds -> BookEntry] /\ x.state = "Live"
      /\ x.filled + qty <= x.qty
  BY DEF IndInv, TypeOK, Trade
<1>2. qty \in Nat \ {0} /\ px \in Nat
  BY QuantitiesAssumption, OrderPricesAssumption
<1>3. /\ x.filled + qty \in Nat /\ x.value + qty * px \in Nat
      /\ x.slack + qty + ((x.filled + qty) - 1) \in Nat
      /\ x.traded \cup {px} \in SUBSET Prices
  <2>1. x.filled \in Nat /\ x.value \in Nat /\ x.slack \in Nat /\ x.traded \in SUBSET Prices
    BY <1>1 DEF BookEntry
  <2>2. qty * px \in Nat
    BY <1>2
  <2> QED BY <1>2, <2>1, <2>2
<1>4. y \in BookEntry
  BY <1>1, <1>3 DEF BookEntry, ExchangeStates
<1>5. y.state # "None"
  BY <1>1, <1>3 DEF BookEntry
<1>6. book' = [book EXCEPT ![oid] = y]
  BY <1>1 DEF Trade
<1>7. PICK e : /\ e.type \in {"PartialFill", "FullFill"}
               /\ e.order_id = oid /\ e.sequence = 0
               /\ e.fill_qty = qty /\ e.fill_price \in ToFixed(px)
               /\ orders' = BookOrder(orders, e)
  <2>1. /\ r.exec_type = t /\ r.cl_ord_id = oid /\ r.last_shares = qty /\ r.last_px = px
        /\ r.has_last
    <3>1. qty > 0
      BY <1>2
    <3> HIDE DEF t
    <3>2. r.has_last = (qty > 0)
      BY Zenon DEF Report
    <3> QED BY <3>1, <3>2 DEF Report
  <2>2. BookReport(r)
    BY DEF Trade
  <2>3. t \in {"Fill", "PartialFill"}
    OBVIOUS
  <2> HIDE DEF r, t
  <2>4. PICK e \in FromExecutionReport(r) : orders' = BookOrder(orders, e)
    BY <2>1, <2>2, <2>3, TranslatedEvents DEF BookReport
  <2>5. e.type \in {"PartialFill", "FullFill"}
    BY <2>1, <2>3, <2>4, TranslatedEvents, EventTypeValues
  <2> QED BY <2>1, <2>3, <2>4, <2>5, TranslatedEvents DEF IsFill
<1>8. ASSUME NEW o \in Order, SlotFollows(o, x)
      PROVE  /\ HandleKnown(o, e) \in Order
             /\ SlotFollows(HandleKnown(o, e), y)
             /\ Advances(o, HandleKnown(o, e))
  <2>1. HandleKnown(o, e) = HandleFill(o, e)
    BY <1>7 DEF HandleKnown, IsFill
  <2>2. /\ HandleFill(o, e) \in Order
        /\ SlotFollows(HandleFill(o, e), y)
        /\ Advances(o, HandleFill(o, e))
    <3> DEFINE p == e.fill_price
    <3>1. p \in ToFixed(px) /\ e.fill_price = p /\ e.sequence \in Nat
      BY <1>7
    <3>2. y = [ x EXCEPT !.state  = IF x.filled + qty = x.qty THEN "Filled" ELSE "Live",
                         !.filled = x.filled + qty,
                         !.value  = x.value + qty * px,
                         !.slack  = x.slack + qty + ((x.filled + qty) - 1),
                         !.traded = x.traded \cup {px} ]
      OBVIOUS
    <3> HIDE DEF p, x, y
    <3> QED BY <1>1, <1>2, <1>4, <1>7, <1>8, <3>1, <3>2, FillFollows
  <2> QED BY <2>1, <2>2
<1> HIDE DEF y
<1> QED BY <1>1, <1>4, <1>5, <1>6, <1>7, <1>8, KnownStep

(* handle_amend() follows a replace that leaves something to trade. *)
LEMMA ReplaceStep ==
  ASSUME IndInv, NEW oid \in OrderIds, NEW qty \in Quantities \cup {0},
         NEW px \in {0} \cup { p + 1 : p \in Prices }, Replace(oid, qty, px)
  PROVE  IndInv' /\ SlotsAdvance
<1> DEFINE x == book[oid]
           q == IF qty = 0 THEN x.qty ELSE qty
           l == IF px = 0 THEN x.limit ELSE px
           y == [x EXCEPT !.qty = q, !.limit = l]
           e == [ MakeNewOrder(x.symbol, x.side, qty, px, oid) EXCEPT !.type = "Amend" ]
<1>1. /\ x \in BookEntry /\ book \in [OrderIds -> BookEntry] /\ x.state = "Live"
      /\ qty = 0 \/ qty > x.filled
      /\ x.qty \in Nat /\ x.limit \in Nat
  BY DEF IndInv, TypeOK, Replace, BookEntry
<1>2. qty \in Nat /\ px \in Nat
  <2>1. qty \in Nat
    BY QuantitiesAssumption
  <2>2. px = 0 \/ \E p \in Prices : px = p + 1
    OBVIOUS
  <2>3. px \in Nat
    BY <2>2, OrderPricesAssumption
  <2> QED BY <2>1, <2>3
<1>3. q \in Nat /\ l \in Nat
  BY <1>1, <1>2
<1>4. book' = [book EXCEPT ![oid] = y]
  BY <1>1 DEF Replace
<1>5. /\ e.type = "Amend" /\ e.order_id = oid /\ e.sequence = 0 /\ e.qty = qty /\ e.price = px
      /\ orders' = BookOrder(orders, e)
  BY DEF Replace, MakeNewOrder
<1> HIDE DEF e
<1>6. /\ y \in BookEntry /\ y.state = "Live" /\ y.symbol = x.symbol /\ y.side = x.side
      /\ y.limit = l /\ y.qty = q /\ y.filled = x.filled /\ y.value = x.value
      /\ y.slack = x.slack /\ y.traded = x.traded
  <2> HIDE DEF q, l
  <2> QED BY <1>1, <1>3 DEF BookEntry
<1> HIDE DEF y
<1>7. ASSUME NEW o \in Order, SlotFollows(o, x)
      PROVE  /\ HandleKnown(o, e) \in Order
             /\ SlotFollows(HandleKnown(o, e), y)
             /\ Advances(o, HandleKnown(o, e))
  <2> DEFINE h == HandleAmend(o, e)
  <2>1. HandleKnown(o, e) = h
    BY <1>5 DEF HandleKnown, IsFill
  <2>2. o.original_qty = x.qty /\ o.limit_price = x.limit
    BY <1>7 DEF SlotFollows
  <2>3. h = [o EXCEPT !.original_qty = q, !.limit_price = l, !.last_seq = 0]
    <3>1. /\ q = IF e.qty > 0 THEN e.qty ELSE o.original_qty
          /\ l = IF e.price > 0 THEN e.price ELSE o.limit_price
      BY <1>2, <1>5, <2>2
    <3> HIDE DEF q, l
    <3> QED BY <1>5, <3>1, Zenon DEF HandleAmend
  <2>4. /\ h \in Order /\ h.state = o.state /\ h.order_id = o.order_id
        /\ h.symbol = o.symbol /\ h.side = o.side /\ h.limit_price = l
        /\ h.original_qty = q /\ h.filled_qty = o.filled_qty
        /\ h.avg_fill_price = o.avg_fill_price
    <3>1. q \in Int /\ l \in Int
      BY <1>3
    <3> HIDE DEF h, q, l
    <3> QED BY <2>3, <3>1 DEF Order
  <2>5. x.filled \in Nat /\ x.filled < q
    BY <1>1, <1>2, <1>7 DEF SlotFollows, BookEntry
  <2> HIDE DEF h, q, l
  <2>6. SlotFollows(h, y)
    BY <1>1, <1>6, <1>7, <2>4, <2>5 DEF SlotFollows, KeptState
  <2>7. o.state \in {"Pending", "PartiallyFilled"} /\ o.filled_qty \in Int
    BY <1>1, <1>7 DEF SlotFollows, KeptState, Order
  <2>8. Advances(o, h)
    BY <2>4, <2>7 DEF Advances, Forward, OrderStates, IsOpen
  <2> QED BY <2>1, <2>4, <2>6, <2>8
<1> QED BY <1>1, <1>4, <1>5, <1>6, <1>7, KnownStep

-----------------------------------------------------------------------------
(* Before the first order there are no slots to disagree. *)
LEMMA InitIndInv == Init => IndInv
<1> SUFFICES ASSUME Init PROVE IndInv
  OBVIOUS
<1>1. PICK sym \in Symbols :
        book = [ oid \in OrderIds |->
                  [ state |-> "None", symbol |-> sym, side |-> "Buy", limit |-> 0,
                    qty |-> 0, filled |-> 0, value |-> 0, slack |-> 0, traded |-> {} ] ]
  BY DEF Init
<1>2. book \in [OrderIds -> BookEntry]
  BY <1>1 DEF BookEntry, ExchangeStates, Sides
<1>3. orders = << >> /\ orders \in Seq(Order) /\ Len(orders) = 0
  BY DEF Init, InitOrders
<1>4. \A oid \in OrderIds : /\ book[oid].state = "None"
                            /\ book[oid].filled = 0 /\ book[oid].value = 0
  BY <1>1
<1> QED BY <1>2, <1>3, <1>4, MaxOrdersAssumption
        DEF IndInv, TypeOK, UniqueOrders, LostOnlyWhenFull, UnsentUntraded

(* Every step keeps the table in step with the book and moves slots        *)
(* forward only.                                                           *)
LEMMA NextIndInv ==
  ASSUME IndInv, [Next]_vars
  PROVE  IndInv' /\ (SlotsAdvance \/ UNCHANGED vars)
<1>1. CASE Next
  <2> PICK oid \in OrderIds :
        \/ \E sym \in Symbols, side \in Sides, qty \in Quantities \ {0}, px \in Prices :
             Submit(oid, sym, side, qty, px)
        \/ Acknowledge(oid)
        \/ Refuse(oid)
        \/ \E qty \in Quantities \ {0}, px \in Prices : Trade(oid, qty, px)
        \/ CancelOrder(oid)
        \/ ExpireOrder(oid)
        \/ \E qty \in Quantities \cup {0}, px \in {0} \cup { p + 1 : p \in Prices } :
             Replace(oid, qty, px)
    BY <1>1 DEF Next
  <2> QED BY SubmitStep, AcknowledgeStep, RefuseStep, TradeStep, CancelStep, ExpireStep,
             ReplaceStep, Zenon
<1>2. CASE UNCHANGED vars
  BY <1>2 DEF vars, IndInv, TypeOK, UniqueOrders, LostOnlyWhenFull, OrderTracked, UnsentUntraded
<1> QED BY <1>1, <1>2

(* The invariant is inductive. *)
THEOREM LifecycleInductive == Spec => []IndInv
<1>1. IndInv /\ [Next]_vars => IndInv'
  BY NextIndInv
<1> QED BY <1>1, InitIndInv, PTL DEF Spec

(* The table never outgrows its capacity and holds well-formed orders. *)
THEOREM LifecycleTypeOK == Spec => []TypeOK
<1>1. IndInv => TypeOK
  BY DEF IndInv
<1> QED BY <1>1, LifecycleInductive, PTL

(* apply_event() keeps every slot equal to the exchange's record of its    *)
(* order, whatever reports come and in whatever order of the orders; what  *)
(* became of the order is left open if it expired.                         *)
THEOREM LifecycleMirrorsExchange == Spec => []MirrorsExchange
<1>1. IndInv => MirrorsExchange
  <2> SUFFICES ASSUME IndInv PROVE MirrorsExchange
    OBVIOUS
  <2>1. \A x : x.state # "Expired" => KeptState(x) = ShownState(x) \/ x.state = "Sent"
    BY DEF KeptState, ShownState
  <2>2. \A x : x.state = "Sent" /\ x.filled = 0 => KeptState(x) = ShownState(x)
    BY DEF KeptState, ShownState
  <2>3. ASSUME NEW i \in 1..Len(orders)
        PROVE  LET o == orders[i]
                   x == book[o.order_id]
               IN  /\ x.state # "None"
                   /\ x.state # "Expired" => o.state = ShownState(x)
                   /\ <<o.symbol, o.side, o.limit_price, o.original_qty, o.filled_qty>>
                        = <<x.symbol, x.side, x.limit, x.qty, x.filled>>
    BY <2>1, <2>2 DEF IndInv, SlotFollows
  <2> QED BY <2>3 DEF IndInv, MirrorsExchange, UniqueOrders, LostOnlyWhenFull
<1> QED BY <1>1, LifecycleInductive, PTL

(* handle_fill()'s running average never overstates what was paid, loses   *)
(* no more than its roundings and stays between traded prices.             *)
THEOREM LifecycleAvgFillFaithful == Spec => []AvgFillFaithful
<1>1. ASSUME NEW o, NEW x, SlotFollows(o, x)
      PROVE  /\ x.filled > 0 => \E lo, hi \in x.traded : lo - 1 <= o.avg_fill_price
                                                         /\ o.avg_fill_price <= hi
             /\ o.avg_fill_price * o.filled_qty <= x.value
             /\ x.value - o.avg_fill_price * o.filled_qty <= x.slack
  <2>1. o.filled_qty = x.filled
    BY <1>1 DEF SlotFollows
  <2> QED BY <1>1, <2>1, Zenon DEF SlotFollows
<1>2. IndInv => AvgFillFaithful
  BY <1>1, Zenon DEF IndInv, AvgFillFaithful
<1> QED BY <1>2, LifecycleInductive, PTL

(* OrderManager.h: is_open() and remaining_qty().  No slot is open with a  *)
(* remainder of zero or less.                                              *)
THEOREM LifecycleOpenHasRemainder == Spec => []OpenHasRemainder
<1>1. ASSUME NEW o, NEW x \in BookEntry, SlotFollows(o, x), IsOpen(o)
      PROVE  RemainingQty(o) > 0
  <2>1. o.original_qty = x.qty /\ o.filled_qty = x.filled /\ x.qty \in Nat /\ x.filled \in Nat
    BY <1>1 DEF SlotFollows, BookEntry
  <2>2. x.state \in {"Sent", "Live", "Expired"}
    BY <1>1 DEF SlotFollows, KeptState, IsOpen, BookEntry, ExchangeStates
  <2>3. x.filled < x.qty
    BY <1>1, <2>2 DEF SlotFollows
  <2> QED BY <2>1, <2>3 DEF RemainingQty
<1>2. ASSUME IndInv, NEW i \in 1..Len(orders)
      PROVE  book[orders[i].order_id] \in BookEntry
  <2>1. orders[i] \in Order /\ book \in [OrderIds -> BookEntry]
    BY <1>2 DEF IndInv, TypeOK
  <2>2. orders[i].order_id \in OrderIds
    BY <2>1 DEF Order
  <2> QED BY <2>1, <2>2
<1>3. IndInv => OpenHasRemainder
  BY <1>1, <1>2 DEF IndInv, OpenHasRemainder
<1> QED BY <1>3, LifecycleInductive, PTL

(* Transitions are strictly forward: no event reopens an order, moves a    *)
(* slot to another order, loses a fill or touches an order that is done.   *)
THEOREM LifecycleForwardOnly == Spec => ForwardOnly
<1>1. IndInv /\ [Next]_vars =>
        [ /\ Len(orders') >= Len(orders)
          /\ \A i \in 1..Len(orders) :
               /\ orders'[i].order_id = orders[i].order_id
               /\ <<orders[i].state, orders'[i].state>> \in Forward
               /\ orders'[i].filled_qty >= orders[i].filled_qty
               /\ ~IsOpen(orders[i]) => orders'[i] = orders[i] ]_vars
  BY NextIndInv DEF SlotsAdvance, Advances
<1> QED BY <1>1, LifecycleInductive, PTL DEF ForwardOnly, Spec

(* What an order can still trade by the exchange's record. *)
Leaves == [oid \in OrderIds |-> Signed(book[oid].side, book[oid].qty - book[oid].filled)]

LeavesOf(sym) ==
  { oid \in OrderIds : /\ OrderTracked(oid)
                       /\ book[oid].symbol = sym
                       /\ book[oid].state \in {"Sent", "Live", "Expired"} }

(* The sum over the book that open_exposure() is, with the expired orders. *)
LEMMA LeavesSum ==
  ASSUME TypeOK, NEW sym, IsFiniteSet(LeavesOf(sym))
  PROVE  /\ \A oid \in LeavesOf(sym) : Leaves[oid] \in Int
         /\ MapThenSumSet(LAMBDA oid : Signed(book[oid].side, book[oid].qty - book[oid].filled),
                          LeavesOf(sym)) = SetSum(Leaves, LeavesOf(sym))
<1> DEFINE S == LeavesOf(sym)
           Of(oid) == Signed(book[oid].side, book[oid].qty - book[oid].filled)
           It == CHOOSE g : g = [s \in SUBSET S |->
                   IF s = {} THEN 0
                   ELSE Of(CHOOSE x \in s : TRUE) + g[s \ {CHOOSE x \in s : TRUE}]]
<1>1. \A oid \in S : Leaves[oid] = Of(oid) /\ Leaves[oid] \in Int
  <2> SUFFICES ASSUME NEW oid \in S PROVE Leaves[oid] = Of(oid) /\ Leaves[oid] \in Int
    OBVIOUS
  <2>1. oid \in OrderIds
    BY DEF LeavesOf
  <2>2. book[oid] \in BookEntry
    BY <2>1 DEF TypeOK
  <2>3. book[oid].qty \in Nat /\ book[oid].filled \in Nat
    BY <2>2 DEF BookEntry
  <2>4. Of(oid) \in Int
    BY <2>3 DEF Signed
  <2>5. Leaves[oid] = Of(oid)
    BY <2>1 DEF Leaves
  <2> QED BY <2>4, <2>5
<1>2. MapThenSumSet(LAMBDA oid : Signed(book[oid].side, book[oid].qty - book[oid].filled), S)
        = It[S]
  BY DEF MapThenSumSet, MapThenFoldSet
<1>3. PICK h : IsSetSums(h, S, Leaves)
  <2> HIDE DEF S, Of
  <2> QED BY <1>1, SetSumsExist DEF S
<1> HIDE DEF Of
<1>4. h = [s \in SUBSET S |->
             IF s = {} THEN 0
             ELSE Of(CHOOSE x \in s : TRUE) + h[s \ {CHOOSE x \in s : TRUE}]]
  <2>1. \A s \in SUBSET S : s # {} => PickOf(s) \in S
    BY PickOfMember
  <2> HIDE DEF S
  <2>2. h \in [SUBSET S -> Int]
    BY <1>3 DEF IsSetSums
  <2>3. \A s \in SUBSET S : h[s] = IF s = {} THEN 0 ELSE Of(PickOf(s)) + h[s \ {PickOf(s)}]
    BY <1>1, <1>3, <2>1 DEF IsSetSums
  <2> QED BY <2>2, <2>3 DEF PickOf
<1>5. It = [s \in SUBSET S |->
             IF s = {} THEN 0
             ELSE Of(CHOOSE x \in s : TRUE) + It[s \ {CHOOSE x \in s : TRUE}]]
  BY <1>4
<1> HIDE DEF It
<1>6. SolvesSetSums(It, S, Leaves)
  <2>1. \A s \in SUBSET S : s # {} => PickOf(s) \in S
    BY PickOfMember
  <2> HIDE DEF S
  <2> QED BY <1>1, <1>5, <2>1 DEF SolvesSetSums, PickOf
<1>7. IsSetSums(It, S, Leaves)
  <2> HIDE DEF S
  <2> QED BY <1>1, <1>6, SetSumsTyped DEF S
<1>8. PICK e : IsSetSums(e, S, Leaves) /\ SetSum(Leaves, S) = e[S]
  <2> HIDE DEF S
  <2> QED BY <1>1, SetSumBy DEF S
<1>9. It[S] = e[S]
  <2>1. S \in SUBSET S /\ IsFiniteSet(S)
    OBVIOUS
  <2> HIDE DEF S
  <2> QED BY <1>7, <1>8, <2>1, SetSumsAgree
<1> QED BY <1>1, <1>2, <1>8, <1>9

(* The ids of the first k slots that count for a symbol. *)
CountedIds(sym, k) ==
  { orders[i].order_id : i \in { j \in 1..k : IsOpen(orders[j]) /\ orders[j].symbol = sym } }

(* A slot counts for a symbol as long as its order may trade, and then for *)
(* what the exchange has left of it.                                       *)
LEMMA CountedSlots ==
  ASSUME IndInv, NEW sym, NEW i \in 1..Len(orders)
  PROVE  LET o == orders[i]
         IN  /\ o.order_id \in OrderIds
             /\ (IsOpen(o) /\ o.symbol = sym) <=> o.order_id \in LeavesOf(sym)
             /\ o.order_id \in LeavesOf(sym) => SignedRemaining(o) = Leaves[o.order_id]
<1> DEFINE o == orders[i]
           x == book[o.order_id]
<1>1. o \in Order /\ SlotFollows(o, x)
  BY DEF IndInv, TypeOK
<1>2. o.order_id \in OrderIds
  BY <1>1 DEF Order
<1>3. x \in BookEntry
  BY <1>2 DEF IndInv, TypeOK
<1>4. OrderTracked(o.order_id)
  BY DEF OrderTracked
<1> HIDE DEF o, x
<1>5. /\ o.symbol = x.symbol /\ o.side = x.side /\ o.original_qty = x.qty
      /\ o.filled_qty = x.filled /\ o.state = KeptState(x) /\ x.state # "None"
  BY <1>1 DEF SlotFollows
<1>6. IsOpen(o) <=> x.state \in {"Sent", "Live", "Expired"}
  BY <1>3, <1>5 DEF IsOpen, KeptState, BookEntry, ExchangeStates
<1>7. SignedRemaining(o) = Signed(x.side, x.qty - x.filled)
  BY <1>5 DEF SignedRemaining, RemainingQty
<1>8. Leaves[o.order_id] = Signed(x.side, x.qty - x.filled)
  BY <1>2 DEF Leaves, x
<1>9. o.order_id \in LeavesOf(sym) <=> IsOpen(o) /\ o.symbol = sym
  BY <1>2, <1>4, <1>5, <1>6 DEF LeavesOf, x
<1> QED BY <1>2, <1>7, <1>8, <1>9 DEF o

(* Slot by slot, open_exposure() adds up the leaves of other orders. *)
LEMMA ExposureByIds ==
  ASSUME IndInv, NEW sym
  PROVE  /\ IsFiniteSet(LeavesOf(sym))
         /\ OpenExposure(orders, sym) = SetSum(Leaves, LeavesOf(sym))
<1> DEFINE n == Len(orders)
           v == Exposures(orders, sym)
           C(k) == CountedIds(sym, k)
<1>1. orders \in Seq(Order) /\ n \in Nat /\ TypeOK
  BY DEF IndInv, TypeOK
<1>2. /\ v \in Seq(Int) /\ Len(v) = n /\ OpenExposure(orders, sym) = SumOf(v)
      /\ \A k \in 1..n : v[k] = ExposureOf(orders[k], sym)
  <2>1. v \in Seq(Int) /\ OpenExposure(orders, sym) = SumOf(v)
    BY <1>1, ExposureIsSum
  <2> QED BY <1>1, <2>1 DEF Exposures
<1> HIDE DEF n, v
<1>3. PICK F : IsSums(F, v)
  BY <1>2, SumsExist
<1>4. /\ F[0] = 0 /\ F[n] = SumOf(v)
      /\ \A k \in 1..n : F[k] = F[k - 1] + v[k] /\ F[k - 1] \in Int
  <2>1. F[n] = SumOf(v)
    BY <1>2, <1>3, SumBy
  <2>2. \A k \in 1..n : k - 1 \in 0..n
    BY <1>1
  <2> QED BY <1>2, <1>3, <2>1, <2>2 DEF IsSums
<1>5. \A k \in 0..n : C(k) \subseteq LeavesOf(sym)
  BY <1>1, CountedSlots DEF CountedIds, n
<1>6. C(n) = LeavesOf(sym)
  <2>1. ASSUME NEW oid \in LeavesOf(sym) PROVE oid \in C(n)
    <3>1. PICK i \in 1..n : orders[i].order_id = oid
      BY DEF LeavesOf, OrderTracked, n
    <3>2. IsOpen(orders[i]) /\ orders[i].symbol = sym
      BY <2>1, <3>1, CountedSlots DEF n
    <3> QED BY <3>1, <3>2 DEF CountedIds
  <2>2. n \in 0..n
    BY <1>1
  <2> QED BY <1>5, <2>1, <2>2
<1>7. \A oid \in LeavesOf(sym) : Leaves[oid] \in Int
  <2> SUFFICES ASSUME NEW oid \in LeavesOf(sym) PROVE Leaves[oid] \in Int
    OBVIOUS
  <2>1. oid \in OrderIds
    BY DEF LeavesOf
  <2>2. book[oid] \in BookEntry
    BY <1>1, <2>1 DEF TypeOK
  <2>3. book[oid].qty \in Nat /\ book[oid].filled \in Nat
    BY <2>2 DEF BookEntry
  <2> QED BY <2>1, <2>3 DEF Signed, Leaves
<1> DEFINE T == { k \in 0..n : IsFiniteSet(C(k)) /\ SetSum(Leaves, C(k)) = F[k] }
<1>8. 0 \in T
  <2>1. C(0) = {}
    BY DEF CountedIds
  <2>2. IsFiniteSet({}) /\ SetSum(Leaves, {}) = 0
    BY FS_EmptySet, SetSumEmpty
  <2>3. 0 \in 0..n
    BY <1>1
  <2>4. IsFiniteSet(C(0)) /\ SetSum(Leaves, C(0)) = F[0]
    <3> HIDE DEF C
    <3> QED BY <1>4, <2>1, <2>2, Zenon
  <2> QED BY <2>3, <2>4, Zenon
<1>9. ASSUME NEW k \in 1..n, k - 1 \in T PROVE k \in T
  <2> DEFINE o == orders[k]
             oid == o.order_id
  <2>1. IsFiniteSet(C(k - 1)) /\ SetSum(Leaves, C(k - 1)) = F[k - 1]
    BY <1>9
  <2>2. k \in Nat /\ k \in 0..n /\ \A j : j \in 1..k <=> j \in 1..(k - 1) \/ j = k
    BY <1>1
  <2>3. CASE IsOpen(o) /\ o.symbol = sym
    <3>1. C(k) = C(k - 1) \cup {oid}
      BY <2>2, <2>3 DEF CountedIds
    <3>2. oid \notin C(k - 1)
      <4>1. ASSUME NEW i \in 1..(k - 1), orders[i].order_id = oid PROVE FALSE
        <5>1. i \in 1..n /\ i # k
          BY <1>1, <2>2
        <5> QED BY <4>1, <5>1 DEF IndInv, UniqueOrders, n
      <4> QED BY <4>1 DEF CountedIds
    <3>3. oid \in LeavesOf(sym) /\ v[k] = Leaves[oid]
      <4>1. oid \in LeavesOf(sym) /\ SignedRemaining(o) = Leaves[oid]
        BY <2>3, CountedSlots DEF n
      <4>2. v[k] = SignedRemaining(o)
        BY <1>2, <2>3 DEF ExposureOf
      <4> QED BY <4>1, <4>2
    <3> HIDE DEF oid
    <3>4. IsFiniteSet(C(k)) /\ oid \in C(k) /\ C(k) \ {oid} = C(k - 1)
      BY <2>1, <3>1, <3>2, FS_AddElement
    <3>5. \A x \in C(k) : Leaves[x] \in Int
      BY <1>5, <1>7, <2>2
    <3> HIDE DEF C, T
    <3>6. SetSum(Leaves, C(k)) = Leaves[oid] + F[k - 1]
      BY <2>1, <3>4, <3>5, SetSumRemove
    <3>7. Leaves[oid] + F[k - 1] = F[k]
      BY <1>4, <1>7, <3>3
    <3> QED BY <2>2, <3>4, <3>6, <3>7 DEF T
  <2>4. CASE ~(IsOpen(o) /\ o.symbol = sym)
    <3>1. C(k) = C(k - 1)
      BY <2>2, <2>4 DEF CountedIds
    <3>2. v[k] = 0
      BY <1>2, <2>4 DEF ExposureOf
    <3>3. F[k] = F[k - 1]
      BY <1>4, <3>2
    <3> QED BY <2>1, <2>2, <3>1, <3>3
  <2> QED BY <2>3, <2>4
<1>10. n \in T
  <2> HIDE DEF T
  <2>1. 0..n \subseteq T
    BY <1>1, <1>8, <1>9, UpTo
  <2> QED BY <1>1, <2>1
<1> QED BY <1>2, <1>4, <1>6, <1>10

(* The risk check's view of what is pending is, in every reachable state,  *)
(* the exchange's leaves of the orders that have a slot, for every symbol  *)
(* none of whose orders has expired.                                       *)
THEOREM LifecycleExposureIsLeaves == Spec => []ExposureIsLeaves
<1>1. IndInv => ExposureIsLeaves
  <2> SUFFICES ASSUME IndInv, NEW sym \in Symbols,
                      \A oid \in OrderIds : book[oid].symbol = sym => book[oid].state # "Expired"
               PROVE  OpenExposure(orders, sym) = LiveLeaves(sym)
    BY DEF ExposureIsLeaves
  <2>1. TypeOK
    BY DEF IndInv
  <2>2. LeavesOf(sym) = { oid \in OrderIds : /\ OrderTracked(oid)
                                             /\ book[oid].symbol = sym
                                             /\ book[oid].state \in {"Sent", "Live"} }
    BY DEF LeavesOf
  <2>3. OpenExposure(orders, sym) =
          MapThenSumSet(LAMBDA oid : Signed(book[oid].side, book[oid].qty - book[oid].filled),
                        LeavesOf(sym))
    BY <2>1, ExposureByIds, LeavesSum
  <2> QED BY <2>2, <2>3 DEF LiveLeaves
<1> QED BY <1>1, LifecycleInductive, PTL
=============================================================================
