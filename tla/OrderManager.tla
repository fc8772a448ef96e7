---------------------------- MODULE OrderManager ----------------------------
(***************************************************************************)
(* The live view of every order (include/OrderManager.h).  orders is       *)
(* slots_[0 .. count_-1]: a slot is taken by the first NewOrder of an id   *)
(* and never given back, whatever becomes of the order.                    *)
(***************************************************************************)
EXTENDS OrderEvent, SequencesExt

CONSTANT MaxOrders     \* MAX_ORDERS, the capacity of slots_

ASSUME MaxOrdersAssumption == MaxOrders \in Nat

VARIABLE orders

OrderStates == {"Pending", "PartiallyFilled", "Filled", "Cancelled", "Rejected"}

Order ==
  [ order_id       : OrderIds,
    symbol         : Symbols,
    side           : Sides,
    limit_price    : Int,
    avg_fill_price : Int,
    original_qty   : Int,
    filled_qty     : Int,
    state          : OrderStates,
    opened_seq     : Nat,
    last_seq       : Nat ]

RemainingQty(o) == o.original_qty - o.filled_qty

IsOpen(o) == o.state \in {"Pending", "PartiallyFilled"}

(* Index of the slot of the order, 0 for the nullptr of find() and get(). *)
FindOrder(os, oid) == SelectInSeq(os, LAMBDA o : o.order_id = oid)

-----------------------------------------------------------------------------
(* What handle_new() leaves in the slot: nothing of an earlier order. *)
NewOrder(e) ==
  [ order_id       |-> e.order_id,
    symbol         |-> e.symbol,
    side           |-> e.side,
    limit_price    |-> e.price,
    avg_fill_price |-> 0,
    original_qty   |-> e.qty,
    filled_qty     |-> 0,
    state          |-> "Pending",
    opened_seq     |-> e.sequence,
    last_seq       |-> e.sequence ]

(* Mutant of HandleNew: the capacity test is off by one. *)
HandleNewOverrun(os, e) ==
  LET i == FindOrder(os, e.order_id)
  IN  IF i # 0 THEN [os EXCEPT ![i] = NewOrder(e)]
      ELSE IF Len(os) > MaxOrders THEN os
      ELSE Append(os, NewOrder(e))

HandleNew(os, e) ==
  LET i == FindOrder(os, e.order_id)
  IN  IF i # 0 THEN [os EXCEPT ![i] = NewOrder(e)]
      ELSE IF Len(os) >= MaxOrders THEN os
      ELSE Append(os, NewOrder(e))

(* Mutant of HandleFill: the cost of the earlier fills is forgotten. *)
HandleFillForgets(o, e) ==
  LET filled == o.filled_qty + e.fill_qty
      cost   == e.fill_price * e.fill_qty
  IN  [ o EXCEPT !.avg_fill_price = IF filled > 0 THEN CDiv(cost, filled) ELSE 0,
                 !.filled_qty     = filled,
                 !.last_seq       = e.sequence,
                 !.state          = IF o.original_qty - filled <= 0
                                    THEN "Filled" ELSE "PartiallyFilled" ]

(* Mutant of HandleFill: an order whose remainder is 0 is still partial. *)
HandleFillStaysOpen(o, e) ==
  LET filled == o.filled_qty + e.fill_qty
      cost   == o.avg_fill_price * o.filled_qty + e.fill_price * e.fill_qty
  IN  [ o EXCEPT !.avg_fill_price = IF filled > 0 THEN CDiv(cost, filled) ELSE 0,
                 !.filled_qty     = filled,
                 !.last_seq       = e.sequence,
                 !.state          = IF o.original_qty - filled < 0
                                    THEN "Filled" ELSE "PartiallyFilled" ]

HandleFill(o, e) ==
  LET filled == o.filled_qty + e.fill_qty
      cost   == o.avg_fill_price * o.filled_qty + e.fill_price * e.fill_qty
  IN  [ o EXCEPT !.avg_fill_price = IF filled > 0 THEN CDiv(cost, filled) ELSE 0,
                 !.filled_qty     = filled,
                 !.last_seq       = e.sequence,
                 !.state          = IF o.original_qty - filled <= 0
                                    THEN "Filled" ELSE "PartiallyFilled" ]

HandleCancel(o, e) == [o EXCEPT !.state = "Cancelled", !.last_seq = e.sequence]

HandleReject(o, e) == [o EXCEPT !.state = "Rejected", !.last_seq = e.sequence]

(* Mutant of HandleAmend: a quantity of 0 is taken as the new quantity. *)
HandleAmendUnguarded(o, e) ==
  [ o EXCEPT !.original_qty = e.qty,
             !.limit_price  = IF e.price > 0 THEN e.price ELSE @,
             !.last_seq     = e.sequence ]

(* Mutant of HandleAmend: an amended order starts over as pending. *)
HandleAmendReopens(o, e) ==
  [ o EXCEPT !.original_qty = IF e.qty   > 0 THEN e.qty   ELSE @,
             !.limit_price  = IF e.price > 0 THEN e.price ELSE @,
             !.last_seq     = e.sequence,
             !.state        = "Pending" ]

(* Only positive fields are taken; the state is left as it is. *)
HandleAmend(o, e) ==
  [ o EXCEPT !.original_qty = IF e.qty   > 0 THEN e.qty   ELSE @,
             !.limit_price  = IF e.price > 0 THEN e.price ELSE @,
             !.last_seq     = e.sequence ]

HandleKnown(o, e) ==
  CASE IsFill(e)         -> HandleFill(o, e)
    [] e.type = "Cancel" -> HandleCancel(o, e)
    [] e.type = "Reject" -> HandleReject(o, e)
    [] e.type = "Amend"  -> HandleAmend(o, e)

(* apply_event() as a function of the slots: an event of an order without  *)
(* a slot changes nothing.                                                 *)
BookOrder(os, e) ==
  LET i == FindOrder(os, e.order_id)
  IN  IF e.type = "NewOrder" THEN HandleNew(os, e)
      ELSE IF i = 0 THEN os
      ELSE [os EXCEPT ![i] = HandleKnown(@, e)]

(* replay_from(): clear the slots, then apply every event of the log. *)
ReplayOrders(log) == FoldLeft(BookOrder, << >>, log)

(* The signed quantity an order may still add to the position. *)
SignedRemaining(o) == Signed(o.side, RemainingQty(o))

(* Mutant of OpenExposure: counts the whole quantity of a part-filled order. *)
OpenExposureOriginal(os, sym) ==
  FoldLeft(LAMBDA sum, o : IF IsOpen(o) /\ o.symbol = sym
                           THEN sum + Signed(o.side, o.original_qty) ELSE sum, 0, os)

OpenExposure(os, sym) ==
  FoldLeft(LAMBDA sum, o : IF IsOpen(o) /\ o.symbol = sym
                           THEN sum + SignedRemaining(o) ELSE sum, 0, os)

InitOrders == orders = << >>
=============================================================================
