--------------------------- MODULE OrderLifecycle ---------------------------
(***************************************************************************)
(* The OrderManager fed by the execution reports of an exchange, through   *)
(* the MessageTranslator.  book is the exchange's own record of every      *)
(* order, an external component: it accepts, trades, replaces, cancels,    *)
(* rejects and expires orders as FIX 4.2 lets it, and tells the gateway    *)
(* of each.  What the manager believes must follow the book.               *)
(***************************************************************************)
EXTENDS OrderManager, MessageTranslator, FiniteSetsExt

VARIABLE book

vars == <<orders, book>>

ASSUME OrderPricesAssumption == Prices \subseteq Nat \ {0}

ExchangeStates ==
  {"None", "Sent", "Live", "Filled", "Cancelled", "Rejected", "Expired"}

(* slack is the rounding allowance of the average fill price: a fill of q  *)
(* that brings the total to n may lose q ticks in to_fixed() and n-1 in    *)
(* the division.                                                           *)
BookEntry ==
  [ state : ExchangeStates, symbol : Symbols, side : Sides, limit : Nat,
    qty : Nat, filled : Nat, value : Nat, slack : Nat, traded : SUBSET Prices ]

Report(exec_type, oid, last_shares, last_px) ==
  [ msg_type    |-> "ExecutionReport",
    exec_type   |-> exec_type,
    cl_ord_id   |-> oid,
    symbol      |-> book[oid].symbol,
    side        |-> book[oid].side,
    has_last    |-> last_shares > 0,
    last_shares |-> last_shares,
    last_px     |-> last_px ]

(* What onMessage() does to orders_: nothing for a nullopt, else           *)
(* apply_event().  Its two other calls, append() and the tracker's         *)
(* apply_event(), are the subject of EventLog and PositionLedger.          *)
BookReport(r) ==
  LET evts == FromExecutionReport(r)
  IN  \/ evts = {} /\ orders' = orders
      \/ \E e \in evts : orders' = BookOrder(orders, e)

-----------------------------------------------------------------------------
Init ==
  /\ InitOrders
  /\ \E sym \in Symbols :
       book = [ oid \in OrderIds |->
                  [ state |-> "None", symbol |-> sym, side |-> "Buy", limit |-> 0,
                    qty |-> 0, filled |-> 0, value |-> 0, slack |-> 0, traded |-> {} ] ]

(* What send_order() does to orders_ once the risk check has passed: a     *)
(* fresh id, then apply_event() of the NewOrder; the order goes out.       *)
Submit(oid, sym, side, qty, px) ==
  /\ book[oid].state = "None"
  /\ orders' = BookOrder(orders, MakeNewOrder(sym, side, qty, px, oid))
  /\ book' = [book EXCEPT ![oid].state = "Sent", ![oid].symbol = sym, ![oid].side = side,
                          ![oid].limit = px, ![oid].qty = qty]

Acknowledge(oid) ==
  /\ book[oid].state = "Sent"
  /\ book' = [book EXCEPT ![oid].state = "Live"]
  /\ BookReport(Report("New", oid, 0, 0))

Refuse(oid) ==
  /\ book[oid].state = "Sent"
  /\ book' = [book EXCEPT ![oid].state = "Rejected"]
  /\ BookReport(Report("Rejected", oid, 0, 0))

Trade(oid, qty, px) ==
  LET filled == book[oid].filled + qty
      done   == filled = book[oid].qty
  IN  /\ book[oid].state = "Live"
      /\ filled <= book[oid].qty
      /\ book' = [book EXCEPT ![oid].state  = IF done THEN "Filled" ELSE "Live",
                              ![oid].filled = filled,
                              ![oid].value  = @ + qty * px,
                              ![oid].slack  = @ + qty + (filled - 1),
                              ![oid].traded = @ \cup {px}]
      /\ BookReport(Report(IF done THEN "Fill" ELSE "PartialFill", oid, qty, px))

(* Cancelled by the exchange, unasked: the report carries the order's id. *)
CancelOrder(oid) ==
  /\ book[oid].state = "Live"
  /\ book' = [book EXCEPT ![oid].state = "Cancelled"]
  /\ BookReport(Report("Canceled", oid, 0, 0))

(* Every order is sent with TimeInForce DAY: what is left expires. *)
ExpireOrder(oid) ==
  /\ book[oid].state = "Live"
  /\ book' = [book EXCEPT ![oid].state = "Expired"]
  /\ BookReport(Report("Expired", oid, 0, 0))

(* A replace the exchange accepted, booked as an Amend event.  The caller  *)
(* books it: no execution report becomes an Amend.  A field of 0 is kept.  *)
Replace(oid, qty, px) ==
  /\ book[oid].state = "Live"
  /\ qty = 0 \/ qty > book[oid].filled
  /\ book' = [book EXCEPT ![oid].qty   = IF qty = 0 THEN @ ELSE qty,
                          ![oid].limit = IF px  = 0 THEN @ ELSE px]
  /\ orders' = BookOrder(orders,
                 [MakeNewOrder(book[oid].symbol, book[oid].side, qty, px, oid)
                    EXCEPT !.type = "Amend"])

Next ==
  \E oid \in OrderIds :
    \/ \E sym \in Symbols, side \in Sides, qty \in Quantities \ {0}, px \in Prices :
         Submit(oid, sym, side, qty, px)
    \/ Acknowledge(oid)
    \/ Refuse(oid)
    \/ \E qty \in Quantities \ {0}, px \in Prices : Trade(oid, qty, px)
    \/ CancelOrder(oid)
    \/ ExpireOrder(oid)
    \/ \E qty \in Quantities \cup {0}, px \in {0} \cup { p + 1 : p \in Prices } :
         Replace(oid, qty, px)

Spec == Init /\ [][Next]_vars

-----------------------------------------------------------------------------
TypeOK ==
  /\ orders \in Seq(Order)
  /\ Len(orders) <= MaxOrders
  /\ book \in [OrderIds -> BookEntry]

OrderTracked(oid) == \E i \in 1..Len(orders) : orders[i].order_id = oid

(* The state the manager shows for an order of the book.  It does not tell *)
(* an acknowledged order from a sent one.                                  *)
ShownState(x) ==
  IF x.state \in {"Sent", "Live"}
  THEN IF x.filled = 0 THEN "Pending" ELSE "PartiallyFilled"
  ELSE x.state

(* Every slot agrees with the exchange's book on what the order is and how *)
(* much of it is done, and on what became of it unless it expired, which   *)
(* the manager is never told; an order has one slot; an order without a    *)
(* slot is one that found the table full.                                  *)
MirrorsExchange ==
  /\ \A i \in 1..Len(orders) :
       LET o == orders[i]
           x == book[o.order_id]
       IN  /\ x.state # "None"
           /\ x.state # "Expired" => o.state = ShownState(x)
           /\ <<o.symbol, o.side, o.limit_price, o.original_qty, o.filled_qty>>
                = <<x.symbol, x.side, x.limit, x.qty, x.filled>>
  /\ \A i, j \in 1..Len(orders) : orders[i].order_id = orders[j].order_id => i = j
  /\ \A oid \in OrderIds :
       book[oid].state # "None" /\ Len(orders) < MaxOrders => OrderTracked(oid)

(* The average fill price of an order lies between prices it traded at,    *)
(* one tick of to_fixed() below the lowest at worst, and never overstates  *)
(* what was paid; the loss is bounded by the roundings that took place.    *)
AvgFillFaithful ==
  \A i \in 1..Len(orders) :
    LET o == orders[i]
        x == book[o.order_id]
    IN  /\ x.filled > 0 => \E lo, hi \in x.traded : lo - 1 <= o.avg_fill_price
                                                    /\ o.avg_fill_price <= hi
        /\ o.avg_fill_price * o.filled_qty <= x.value
        /\ x.value - o.avg_fill_price * o.filled_qty <= x.slack

(* An order that is open in the manager has a positive remainder there,    *)
(* through every sequence of fills, and of replaces above what is filled:  *)
(* no exposure sum and no cancel loop meets an exhausted order.  That the  *)
(* remainder can still trade is not said: an expired order is open too.    *)
OpenHasRemainder ==
  \A i \in 1..Len(orders) : IsOpen(orders[i]) => RemainingQty(orders[i]) > 0

(* What the orders of the symbol that have a slot can still trade. *)
LiveLeaves(sym) ==
  MapThenSumSet(LAMBDA oid : Signed(book[oid].side, book[oid].qty - book[oid].filled),
                { oid \in OrderIds : /\ OrderTracked(oid)
                                     /\ book[oid].symbol = sym
                                     /\ book[oid].state \in {"Sent", "Live"} })

(* open_exposure() of a symbol none of whose orders has expired is what    *)
(* the exchange has left of them, buys and sells netted, through partial   *)
(* fills, replaces, cancels and refusals.                                  *)
ExposureIsLeaves ==
  \A sym \in Symbols :
    (\A oid \in OrderIds : book[oid].symbol = sym => book[oid].state # "Expired")
      => OpenExposure(orders, sym) = LiveLeaves(sym)

(* OrderManager.h: "Net open exposure for a symbol across all live         *)
(* orders".  An order that is done at the exchange, in whatever way, is    *)
(* not counted.                                                            *)
ExposureOfLiveOrders ==
  \A sym \in Symbols : OpenExposure(orders, sym) = LiveLeaves(sym)

Forward ==
  { <<"Pending", s>> : s \in OrderStates } \cup
  { <<"PartiallyFilled", s>> : s \in {"PartiallyFilled", "Filled", "Cancelled"} } \cup
  { <<s, s>> : s \in {"Filled", "Cancelled", "Rejected"} }

(* OrderManager.h: "Transitions are strictly forward".  A slot keeps its   *)
(* order for ever, takes only transitions of the diagram, never loses a    *)
(* fill and does not change at all once its order is done.                 *)
ForwardOnly ==
  [][ /\ Len(orders') >= Len(orders)
      /\ \A i \in 1..Len(orders) :
           /\ orders'[i].order_id = orders[i].order_id
           /\ <<orders[i].state, orders'[i].state>> \in Forward
           /\ orders'[i].filled_qty >= orders[i].filled_qty
           /\ ~IsOpen(orders[i]) => orders'[i] = orders[i] ]_vars
=============================================================================
