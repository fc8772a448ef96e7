----------------------------- MODULE Killswitch -----------------------------
(***************************************************************************)
(* The emergency path (gateway/Killswitch.h): cancel_all() walks the       *)
(* slots of the order manager and flatten() those of the tracker, one at a *)
(* time, while the other threads of Gateway go on.  Who calls them, and on *)
(* which thread, is the subject of Shutdown.                               *)
(*                                                                         *)
(* SessionNotFound is caught slot by slot.  main() registers the handler   *)
(* before the initiator creates the session, so a signal can meet it; in   *)
(* the life Shutdown models the tables are empty then and nothing is sent. *)
(* From the first order on the session exists.  arm() sets a flag that     *)
(* nothing in the repository reads, and is left out.                       *)
(***************************************************************************)
EXTENDS Gateway

VARIABLES
  kpc,       \* progress of the killswitch
  kthread,   \* the thread it runs on
  slot,      \* the slot the loop is at
  count      \* the messages of this call so far; numbers their ids

kvars == <<kpc, kthread, slot, count>>

Threads == {"main", "io"}

(* The ids start at 1 in every call. *)
CancelId(n) == <<"KS", n>>
FlatId(n)   == <<"FL", n>>

InitKillswitch ==
  kpc = "idle" /\ kthread = "main" /\ slot = 1 /\ count = 0

(* The thread is inside the killswitch and does nothing else. *)
Busy(th) == kpc \in {"cancelling", "flattening", "hung"} /\ kthread = th

(* execute() and with it cancel_all() begin on thread th. *)
BeginCancelAll(th) ==
  kpc' = "cancelling" /\ kthread' = th /\ slot' = 1 /\ count' = 0

BeginFlatten(th) ==
  kpc' = "flattening" /\ kthread' = th /\ slot' = 1 /\ count' = 0

NextSlot(msgs) ==
  /\ slot' = slot + 1
  /\ count' = count + Len(msgs)
  /\ outbound' = outbound \o msgs
  /\ UNCHANGED <<kpc, kthread>>
  /\ UNCHANGED <<positions, orders, log, up, connected, order_counter, strategy, io, inbound, book, crashes>>

(* Mutant of CancelSlot: a part-filled order is taken for done. *)
CancelSlotPendingOnly ==
  /\ kpc = "cancelling" /\ slot <= Len(orders)
  /\ NextSlot(IF orders[slot].state = "Pending"
              THEN << ToCancelRequest(orders[slot], CancelId(count + 1)) >> ELSE << >>)

(* One turn of for_each_open(): the request of an open order. *)
CancelSlot ==
  /\ kpc = "cancelling" /\ slot <= Len(orders)
  /\ NextSlot(IF IsOpen(orders[slot])
              THEN << ToCancelRequest(orders[slot], CancelId(count + 1)) >> ELSE << >>)

(* Mutant of ClosingOrder: what open orders may still buy is sold as well. *)
ClosingOrderOfExposed(pos, n) ==
  LET qty == pos.net_qty + OpenExposure(orders, pos.symbol)
  IN  [ ToNewOrderSingle(MakeNewOrder(pos.symbol, "Sell", qty, 0, FlatId(n)))
          EXCEPT !.ord_type = "Market" ]

(* The order that closes a position, sent as a market order without price. *)
ClosingOrder(pos, n) ==
  LET side == IF pos.net_qty > 0 THEN "Sell" ELSE "Buy"
      qty  == IF pos.net_qty > 0 THEN pos.net_qty ELSE -pos.net_qty
  IN  [ ToNewOrderSingle(MakeNewOrder(pos.symbol, side, qty, 0, FlatId(n)))
          EXCEPT !.ord_type = "Market" ]

(* One turn of flatten()'s for_each().  Nothing is logged and the order    *)
(* manager is not told.                                                    *)
FlattenSlot ==
  /\ kpc = "flattening" /\ slot <= Len(positions)
  /\ NextSlot(IF IsFlat(positions[slot]) THEN << >>
              ELSE << ClosingOrder(positions[slot], count + 1) >>)

EndLoop ==
  /\ \/ kpc = "cancelling" /\ slot > Len(orders)    /\ kpc' = "cancelled"
     \/ kpc = "flattening" /\ slot > Len(positions) /\ kpc' = "flattened"
  /\ UNCHANGED <<kthread, slot, count>>
  /\ UNCHANGED <<positions, orders, log, up, connected, order_counter, strategy, io, exchange, crashes>>

KillStep == CancelSlot \/ FlattenSlot \/ EndLoop
=============================================================================
