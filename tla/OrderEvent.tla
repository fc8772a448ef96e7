----------------------------- MODULE OrderEvent -----------------------------
(***************************************************************************)
(* The event record every component exchanges (include/OrderEvent.h).      *)
(*                                                                         *)
(* Prices and quantities are integers: prices are already fixed-point in   *)
(* the code.  Symbols and order ids are opaque values; the timestamp and   *)
(* the padding carry no behaviour and are left out.                        *)
(***************************************************************************)
EXTENDS Integers

CONSTANTS
  Symbols,     \* the symbols that are traded
  OrderIds,    \* the values the 8-byte order_id field takes
  Prices,      \* the prices of orders, fills and market data
  Quantities   \* the quantities of orders and fills; 0 is a fill report
               \* that carries no LastShares / LastPx

ASSUME PricesAssumption     == Prices \subseteq Int
ASSUME QuantitiesAssumption == Quantities \subseteq Nat

Sides == {"Buy", "Sell"}

EventTypes == {"NewOrder", "PartialFill", "FullFill", "Cancel", "Reject", "Amend"}

Events ==
  [ type       : EventTypes,
    side       : Sides,
    symbol     : Symbols,
    order_id   : OrderIds,
    qty        : Int,
    price      : Int,
    fill_qty   : Int,
    fill_price : Int,
    sequence   : Nat ]

IsFill(e) == e.type \in {"PartialFill", "FullFill"}

(* sequence stays 0 until EventLog::append stores its own copy. *)
MakeFill(sym, side, fqty, fprice, oid, partial) ==
  [ type       |-> IF partial THEN "PartialFill" ELSE "FullFill",
    side       |-> side,
    symbol     |-> sym,
    order_id   |-> oid,
    qty        |-> fqty,
    price      |-> 0,
    fill_qty   |-> fqty,
    fill_price |-> fprice,
    sequence   |-> 0 ]

MakeNewOrder(sym, side, qty, price, oid) ==
  [ type       |-> "NewOrder",
    side       |-> side,
    symbol     |-> sym,
    order_id   |-> oid,
    qty        |-> qty,
    price      |-> price,
    fill_qty   |-> 0,
    fill_price |-> 0,
    sequence   |-> 0 ]

(* +qty for a buy, -qty for a sell: the sign every exposure sum uses. *)
Signed(side, qty) == IF side = "Buy" THEN qty ELSE -qty

(* The integer division of C++, which truncates towards zero; b > 0. *)
CDiv(a, b) == IF a >= 0 THEN a \div b ELSE -((-a) \div b)
=============================================================================
