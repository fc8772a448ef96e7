-------------------------- MODULE MessageTranslator --------------------------
(***************************************************************************)
(* From FIX execution reports to OrderEvents (gateway/MessageTranslator.h).*)
(*                                                                         *)
(* A report is a record of the tags the translator reads.  has_last says   *)
(* whether LastShares and LastPx are both set.  LastPx is in ticks of      *)
(* 1/PRICE_SCALE, the value its decimal text denotes.                      *)
(***************************************************************************)
EXTENDS OrderEvent

ExecTypes ==
  {"New", "PartialFill", "Fill", "Canceled", "Rejected", "Expired", "Replaced"}

(* An OrderCancelReject, which the gateway does not handle, has the tags of *)
(* a report too.                                                            *)
ExecutionReports ==
  [ msg_type    : {"ExecutionReport", "OrderCancelReject"},
    exec_type   : ExecTypes,
    cl_ord_id   : OrderIds,
    symbol      : Symbols,
    side        : Sides,
    has_last    : BOOLEAN,
    last_shares : Nat,
    last_px     : Nat ]

(* The switch over ExecType; a type outside this domain yields nullopt. *)
EventTypeOf ==
  [ x \in {"PartialFill", "Fill", "Canceled", "Rejected"} |->
      CASE x = "PartialFill" -> "PartialFill"
        [] x = "Fill"        -> "FullFill"
        [] x = "Canceled"    -> "Cancel"
        [] x = "Rejected"    -> "Reject" ]

(* to_fixed() multiplies a double by PRICE_SCALE and truncates.  The double *)
(* nearest to a decimal price is up to half an ulp away on either side, so  *)
(* the product truncates to the tick or to the one below it.                *)
ToFixed(ticks) == IF ticks = 0 THEN {0} ELSE {ticks - 1, ticks}

(* to_new_order_single(): a limit order for the day.  from_fixed() gives    *)
(* the double nearest to the price, whose decimal text is the price again.  *)
ToNewOrderSingle(e) ==
  [ msg_type  |-> "NewOrderSingle",
    ord_type  |-> "Limit",
    cl_ord_id |-> e.order_id,
    symbol    |-> e.symbol,
    side      |-> e.side,
    order_qty |-> e.qty,
    price     |-> e.price ]

(* to_cancel_request(): the request has an id of its own and names the      *)
(* order by its OrigClOrdID.                                                *)
ToCancelRequest(original, new_cl_ord_id) ==
  [ msg_type       |-> "OrderCancelRequest",
    orig_cl_ord_id |-> original.order_id,
    cl_ord_id      |-> new_cl_ord_id,
    symbol         |-> original.symbol,
    side           |-> original.side ]

(* from_execution_report(): the events the report may become, none for      *)
(* nullopt.  qty and price stay 0; a fill without LastShares and LastPx is  *)
(* a fill of 0 at 0.                                                        *)
FromExecutionReport(r) ==
  IF r.exec_type \notin DOMAIN EventTypeOf THEN {}
  ELSE LET type  == EventTypeOf[r.exec_type]
           fills == type \in {"PartialFill", "FullFill"} /\ r.has_last
       IN  { [ type       |-> type,
               side       |-> r.side,
               symbol     |-> r.symbol,
               order_id   |-> r.cl_ord_id,
               qty        |-> 0,
               price      |-> 0,
               fill_qty   |-> IF fills THEN r.last_shares ELSE 0,
               fill_price |-> px,
               sequence   |-> 0 ] : px \in IF fills THEN ToFixed(r.last_px) ELSE {0} }
=============================================================================
