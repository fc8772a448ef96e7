--------------------------- MODULE ShutdownProofs ---------------------------
(***************************************************************************)
(* Proofs about Shutdown: what cancel_all() covers, what flatten() does to *)
(* the account and which orders stay open in the manager, for every size   *)
(* of the tables, every set of ids, symbols and prices, and any            *)
(* interleaving of the two threads, the exchange and the signal.  What     *)
(* holds of Gateway's own steps is taken from GatewayProofs; here are the  *)
(* steps that are the killswitch's.                                        *)
(***************************************************************************)
EXTENDS Shutdown, GatewayProofs

(* The process has issued no more ids than it has slots for and than fit   *)
(* the field of an event.                                                  *)
CounterFits == order_counter <= 100000 /\ order_counter <= MaxOrders

(* The ids of the killswitch, as many as it can send messages. *)
KillIds ==
  /\ \A n \in 1..MaxOrders : CancelId(n) \in OrderIds
  /\ \A n \in 1..MaxSymbols : FlatId(n) \in OrderIds

-----------------------------------------------------------------------------
(* The control state of main() and the killswitch. *)
Control ==
  /\ kpc \in {"idle", "cancelling", "cancelled", "flattening", "flattened", "hung"}
  /\ slot \in Nat /\ count \in Nat /\ count < slot
  /\ targets \in SUBSET OrderIds
  /\ up <=> mpc \in {"loop", "stopping"}
  /\ ~g_shutdown => kpc = "idle"

(* Nobody has seen the id. *)
Fresh(x) ==
  /\ book[x].state = "None" /\ Unreported(inbound, x)
  /\ \A k \in 1..Len(outbound) : outbound[k].cl_ord_id # x

(* The ids the killswitch has still to give out. *)
ToCome(x) ==
  \E n \in Nat :
    \/ x = CancelId(n) /\ (kpc = "idle" \/ (kpc = "cancelling" /\ n > count))
    \/ x = FlatId(n) /\ (kpc \notin {"flattening", "flattened"} \/ (kpc = "flattening" /\ n > count))

KillIdsFresh == up => \A x \in OrderIds : ToCome(x) => Fresh(x)

(* The orders cancel_all() has to reach are ahead of it or dealt with. *)
TargetsKnown ==
  /\ \A oid \in targets : oid[1] = "ORD" /\ (up => Issued(oid, Used))
  /\ up /\ kpc = "cancelling" =>
       \A oid \in targets : LeftOpen(oid) => FindOrder(orders, oid) >= slot
  /\ kpc \in {"cancelled", "flattening", "flattened"} => \A oid \in targets : ~LeftOpen(oid)

(* As long as flatten() has not begun, every order is of send_order(). *)
NoFlattenOrder == up /\ kpc \notin {"flattening", "flattened"} => OrdOnly

ShutInv ==
  /\ IndInv /\ Control
  /\ up => IdsIssued /\ OrdersKnown
  /\ KillIdsFresh /\ NoFlattenOrder /\ TargetsKnown

-----------------------------------------------------------------------------
(* What the steps of Shutdown are to Gateway. *)

(* A message of the killswitch joins the ones on their way. *)
LEMMA SentIndInv ==
  ASSUME IndInv, NEW m \in Messages, outbound' = Append(outbound, m),
         UNCHANGED <<positions, orders, log, up, connected, order_counter, strategy, io, inbound,
                     book, crashes>>
  PROVE  IndInv'
<1>1. outbound' \in Seq(Messages)
  BY DEF IndInv
<1>2. TypeOK'
  BY DEF IndInv, TypeOK, strategy, io
<1>3. RequestOK'
  BY RequestStays
<1>4. ReportAtHand'
  BY DEF IndInv, ReportAtHand, io
<1> QED BY <1>1, <1>2, <1>3, <1>4 DEF IndInv

(* One turn of cancel_all(): a request for an open order, or nothing. *)
LEMMA CancelSlotSends ==
  ASSUME KillIds, IndInv, Control, CancelSlot
  PROVE  LET m == ToCancelRequest(orders[slot], CancelId(count + 1))
         IN  /\ kpc = "cancelling" /\ slot \in 1..Len(orders) /\ slot' = slot + 1
             /\ m \in CancelRequests /\ m.cl_ord_id = CancelId(count + 1)
             /\ m.orig_cl_ord_id = orders[slot].order_id /\ m.msg_type = "OrderCancelRequest"
             /\ IsOpen(orders[slot]) => outbound' = Append(outbound, m) /\ count' = count + 1
             /\ ~IsOpen(orders[slot]) => outbound' = outbound /\ count' = count
             /\ UNCHANGED <<kpc, kthread>>
             /\ UNCHANGED <<positions, orders, log, up, connected, order_counter, strategy, io,
                            inbound, book, crashes>>
<1> DEFINE m == ToCancelRequest(orders[slot], CancelId(count + 1))
           ms == IF IsOpen(orders[slot]) THEN <<m>> ELSE << >>
<1>1. kpc = "cancelling" /\ slot <= Len(orders) /\ NextSlot(ms)
  BY DEF CancelSlot
<1>2. slot \in 1..Len(orders) /\ count + 1 \in 1..MaxOrders
  <2>1. /\ slot \in Nat /\ count \in Nat /\ count < slot /\ slot <= Len(orders)
        /\ Len(orders) \in Nat /\ Len(orders) <= MaxOrders
    BY <1>1 DEF IndInv, TypeOK, Control
  <2> QED BY <2>1, MaxOrdersAssumption
<1>3. orders[slot] \in Order /\ CancelId(count + 1) \in OrderIds
  BY <1>2 DEF IndInv, TypeOK, KillIds
<1>4. m \in CancelRequests
  BY <1>3 DEF ToCancelRequest, CancelRequests, Order
<1>5. /\ m.cl_ord_id = CancelId(count + 1) /\ m.msg_type = "OrderCancelRequest"
      /\ m.orig_cl_ord_id = orders[slot].order_id
  BY DEF ToCancelRequest
<1> HIDE DEF m
<1>6. outbound \in Seq(Messages) /\ m \in Messages /\ count \in Nat
  BY <1>4 DEF IndInv, Messages, Control
<1>7. /\ slot' = slot + 1 /\ count' = count + Len(ms) /\ outbound' = outbound \o ms
      /\ UNCHANGED <<kpc, kthread>>
      /\ UNCHANGED <<positions, orders, log, up, connected, order_counter, strategy, io, inbound,
                     book, crashes>>
  BY <1>1 DEF NextSlot
<1>8. CASE IsOpen(orders[slot])
  <2>1. ms = <<m>>
    BY <1>8
  <2>2. outbound \o <<m>> = Append(outbound, m) /\ Len(<<m>>) = 1
    BY <1>6
  <2>3. outbound' = Append(outbound, m) /\ count' = count + 1
    BY <1>7, <2>1, <2>2
  <2> QED BY <1>1, <1>2, <1>4, <1>5, <1>7, <1>8, <2>3 DEF m
<1>9. CASE ~IsOpen(orders[slot])
  <2>1. ms = << >>
    BY <1>9
  <2>2. outbound \o << >> = outbound /\ count + Len(<< >>) = count
    BY <1>6
  <2>3. outbound' = outbound /\ count' = count
    BY <1>7, <2>1, <2>2
  <2> QED BY <1>1, <1>2, <1>4, <1>5, <1>7, <1>9, <2>3 DEF m
<1> QED BY <1>8, <1>9

(* One turn of flatten(): an order that closes the position, or nothing. *)
LEMMA FlattenSlotSends ==
  ASSUME KillIds, IndInv, Control, FlattenSlot
  PROVE  LET pos == positions[slot]
             m   == ClosingOrder(pos, count + 1)
         IN  /\ kpc = "flattening" /\ slot \in 1..Len(positions) /\ slot' = slot + 1
             /\ pos \in Position
             /\ m \in Singles /\ m.cl_ord_id = FlatId(count + 1) /\ m.symbol = pos.symbol
             /\ m.side = (IF pos.net_qty > 0 THEN "Sell" ELSE "Buy")
             /\ m.order_qty = (IF pos.net_qty > 0 THEN pos.net_qty ELSE -pos.net_qty)
             /\ m.msg_type = "NewOrderSingle"
             /\ ~IsFlat(pos) => /\ outbound' = Append(outbound, m) /\ count' = count + 1
                                /\ m.order_qty # 0
             /\ IsFlat(pos) => outbound' = outbound /\ count' = count
             /\ UNCHANGED <<kpc, kthread>>
             /\ UNCHANGED <<positions, orders, log, up, connected, order_counter, strategy, io,
                            inbound, book, crashes>>
<1> DEFINE pos == positions[slot]
           m == ClosingOrder(pos, count + 1)
           side == IF pos.net_qty > 0 THEN "Sell" ELSE "Buy"
           qty == IF pos.net_qty > 0 THEN pos.net_qty ELSE -pos.net_qty
           ms == IF IsFlat(pos) THEN << >> ELSE <<m>>
<1>1. kpc = "flattening" /\ slot <= Len(positions) /\ NextSlot(ms)
  BY DEF FlattenSlot
<1>2. slot \in 1..Len(positions) /\ count + 1 \in 1..MaxSymbols
  <2>1. /\ slot \in Nat /\ count \in Nat /\ count < slot /\ slot <= Len(positions)
        /\ Len(positions) \in Nat /\ Len(positions) <= MaxSymbols
    BY <1>1 DEF IndInv, TypeOK, Control
  <2> QED BY <2>1, MaxSymbolsAssumption
<1>3. pos \in Position /\ FlatId(count + 1) \in OrderIds
  BY <1>2 DEF IndInv, TypeOK, KillIds
<1>4. pos.net_qty \in Int /\ pos.symbol \in Symbols
  BY <1>3 DEF Position
<1>5. side \in Sides /\ qty \in Nat /\ (~IsFlat(pos) => qty # 0)
  <2> HIDE DEF pos
  <2> QED BY <1>4 DEF Sides, IsFlat
<1>6. m = [ msg_type |-> "NewOrderSingle", ord_type |-> "Market", cl_ord_id |-> FlatId(count + 1),
            symbol |-> pos.symbol, side |-> side, order_qty |-> qty, price |-> 0 ]
  <2> HIDE DEF pos
  <2> QED BY DEF ClosingOrder, ToNewOrderSingle, MakeNewOrder
<1> HIDE DEF side, qty, pos
<1>7. m \in Singles
  BY <1>3, <1>4, <1>5, <1>6 DEF Singles
<1>8. /\ m.cl_ord_id = FlatId(count + 1) /\ m.msg_type = "NewOrderSingle" /\ m.symbol = pos.symbol
      /\ m.side = side /\ m.order_qty = qty
  BY <1>6
<1> HIDE DEF m
<1>9. outbound \in Seq(Messages) /\ m \in Messages /\ count \in Nat
  BY <1>7 DEF IndInv, Messages, Control
<1>10. /\ slot' = slot + 1 /\ count' = count + Len(ms) /\ outbound' = outbound \o ms
       /\ UNCHANGED <<kpc, kthread>>
       /\ UNCHANGED <<positions, orders, log, up, connected, order_counter, strategy, io, inbound,
                      book, crashes>>
  BY <1>1 DEF NextSlot
<1>11. CASE ~IsFlat(pos)
  <2>1. ms = <<m>>
    BY <1>11
  <2>2. outbound \o <<m>> = Append(outbound, m) /\ Len(<<m>>) = 1
    BY <1>9
  <2>3. outbound' = Append(outbound, m) /\ count' = count + 1
    BY <1>10, <2>1, <2>2
  <2> QED BY <1>1, <1>2, <1>3, <1>5, <1>7, <1>8, <1>10, <1>11, <2>3 DEF m, side, qty, pos
<1>12. CASE IsFlat(pos)
  <2>1. ms = << >>
    BY <1>12
  <2>2. outbound \o << >> = outbound /\ count + Len(<< >>) = count
    BY <1>9
  <2>3. outbound' = outbound /\ count' = count
    BY <1>10, <2>1, <2>2
  <2> QED BY <1>1, <1>2, <1>3, <1>5, <1>7, <1>8, <1>10, <1>12, <2>3 DEF m, side, qty, pos
<1> QED BY <1>11, <1>12

(* A step of Shutdown is one of Gateway that leaves the process up, the    *)
(* end of the process, a turn of the killswitch or an answer to a cancel   *)
(* request.                                                                *)
LEMMA StepKinds ==
  ASSUME [ShutdownNext]_allvars
  PROVE  \/ [Next]_vars /\ up' = up
         \/ Down /\ crashes' = crashes
         \/ up /\ (CancelSlot \/ FlattenSlot)
         \/ AcceptCancel \/ RefuseCancel
<1>1. CASE Strategy
  <2>1. up' = up
    BY <1>1 DEF Strategy, SendOrder, CheckRisk, RecordOrder, ProjectOrder, TransmitOrder
  <2> QED BY <1>1, <2>1 DEF Next
<1>2. CASE IOThread
  <2>1. up' = up
    BY <1>2 DEF IOThread, Logon, Logout, DropReport, TakeReport, LogReport, TrackReport, ProjectReport
  <2> QED BY <1>2, <2>1 DEF Next
<1>3. CASE Exchange
  <2>1. up' = up
    BY <1>3 DEF Exchange, AcceptOrder, RefuseOrder, Trade, CancelOrder, ExpireOrder
  <2> QED BY <1>3, <2>1 DEF Next
<1>4. CASE UNCHANGED vars
  BY <1>4 DEF vars
<1>5. CASE Exit \/ Fatal \/ Terminate
  BY <1>5 DEF Exit, Fatal, Terminate, TerminateLogFull
<1>6. CASE RunKillswitch
  <2>1. EndLoop => UNCHANGED vars
    BY DEF EndLoop, vars
  <2> QED BY <1>4, <1>6, <2>1 DEF RunKillswitch, KillStep
<1>7. CASE (\E th \in Threads : SignalCancels(th)) \/ CallFlatten \/ LeaveLoop
  BY <1>4, <1>7 DEF SignalCancels, CallFlatten, LeaveLoop
<1> QED BY <1>1, <1>2, <1>3, <1>4, <1>5, <1>6, <1>7
        DEF ShutdownNext, RunStrategy, RunIO, RunExchange, allvars

(* The exchange answers a cancel request.  The order of the request is not *)
(* live afterwards, and nothing else changes in the book.                  *)
LEMMA CancelAnswered ==
  ASSUME IndInv, AcceptCancel \/ RefuseCancel
  PROVE  LET o == Head(outbound)
             x == o.orig_cl_ord_id
         IN  \E r \in ExecutionReports :
               /\ outbound # << >> /\ o = outbound[1] /\ 1 \in 1..Len(outbound)
               /\ o \in CancelRequests /\ o.msg_type = "OrderCancelRequest"
               /\ outbound' = Tail(outbound) /\ outbound' \in Seq(Messages)
               /\ \A k \in 1..Len(outbound') : k + 1 \in 1..Len(outbound) /\ outbound'[k] = outbound[k + 1]
               /\ r.cl_ord_id = o.cl_ord_id /\ r.last_shares = 0 /\ ReportOK(r)
               /\ r.exec_type \in {"Canceled", "Rejected"} /\ r.symbol = o.symbol /\ r.side = o.side
               /\ AcceptCancel => /\ r.msg_type = "ExecutionReport" /\ r.exec_type = "Canceled"
                                  /\ book[x].state = "Live" /\ book'[x].state = "Cancelled"
               /\ ~AcceptCancel => r.msg_type = "OrderCancelReject" /\ book' = book
               /\ inbound' = Append(inbound, r)
               /\ book' \in [OrderIds -> BookEntry]
               /\ x \in OrderIds /\ book'[x].state # "Live"
               /\ \A id \in OrderIds : /\ id # x => book'[id] = book[id]
                                       /\ book'[id] = [book[id] EXCEPT !.state = book'[id].state]
               /\ UNCHANGED <<positions, orders, log, up, connected, order_counter, strategy, io,
                              crashes>>
<1> DEFINE o == Head(outbound)
           x == o.orig_cl_ord_id
           r1 == Report("Canceled", o.cl_ord_id, o.symbol, o.side, 0, 0)
           r2 == [ Report("Rejected", o.cl_ord_id, o.symbol, o.side, 0, 0)
                     EXCEPT !.msg_type = "OrderCancelReject" ]
<1>1. /\ outbound # << >> /\ o.msg_type = "OrderCancelRequest" /\ outbound' = Tail(outbound)
      /\ UNCHANGED <<positions, orders, log, up, connected, order_counter, strategy, io, crashes>>
  BY DEF AcceptCancel, RefuseCancel
<1>2. /\ o \in Messages /\ o = outbound[1] /\ 1 \in 1..Len(outbound) /\ outbound' \in Seq(Messages)
      /\ o.cl_ord_id \in OrderIds /\ o.symbol \in Symbols /\ o.side \in Sides
      /\ \A k \in 1..Len(outbound') : k + 1 \in 1..Len(outbound) /\ outbound'[k] = outbound[k + 1]
  BY <1>1, OrdersTail
<1>3. o \in CancelRequests /\ x \in OrderIds
  <2>1. ASSUME NEW m \in Messages, m.msg_type = "OrderCancelRequest"
        PROVE  m \in CancelRequests /\ m.orig_cl_ord_id \in OrderIds
    BY <2>1 DEF Messages, Singles, CancelRequests
  <2> QED BY <1>1, <1>2, <2>1
<1>4. book \in [OrderIds -> BookEntry] /\ book[x] \in BookEntry
  BY <1>3 DEF IndInv, TypeOK, BookEntry
<1> HIDE DEF o
<1>5. /\ r1 \in ExecutionReports /\ r1.cl_ord_id = o.cl_ord_id /\ r1.last_shares = 0 /\ ReportOK(r1)
      /\ r1.msg_type = "ExecutionReport" /\ r1.exec_type = "Canceled" /\ r1.symbol = o.symbol /\ r1.side = o.side
  <2>1. r1 = [ msg_type |-> "ExecutionReport", exec_type |-> "Canceled", cl_ord_id |-> o.cl_ord_id,
               symbol |-> o.symbol, side |-> o.side, has_last |-> 0 > 0, last_shares |-> 0,
               last_px |-> 0 ]
    BY DEF Report
  <2>2. (0 > 0) = FALSE /\ "Canceled" \in ExecTypes
    BY DEF ExecTypes
  <2> HIDE DEF r1
  <2> QED BY <1>2, <2>1, <2>2 DEF ExecutionReports, ReportOK
<1>6. /\ r2 \in ExecutionReports /\ r2.cl_ord_id = o.cl_ord_id /\ r2.last_shares = 0 /\ ReportOK(r2)
      /\ r2.msg_type = "OrderCancelReject" /\ r2.exec_type = "Rejected" /\ r2.symbol = o.symbol /\ r2.side = o.side
  <2>1. r2 = [ msg_type |-> "OrderCancelReject", exec_type |-> "Rejected", cl_ord_id |-> o.cl_ord_id,
               symbol |-> o.symbol, side |-> o.side, has_last |-> 0 > 0, last_shares |-> 0,
               last_px |-> 0 ]
    BY DEF Report
  <2>2. (0 > 0) = FALSE /\ "Rejected" \in ExecTypes
    BY DEF ExecTypes
  <2> HIDE DEF r2
  <2> QED BY <1>2, <2>1, <2>2 DEF ExecutionReports, ReportOK
<1>7. CASE AcceptCancel
  <2>1. /\ book[x].state = "Live" /\ inbound' = Append(inbound, r1)
        /\ book' = [book EXCEPT ![x].state = "Cancelled"]
    BY <1>7 DEF AcceptCancel, o
  <2> HIDE DEF x, r1
  <2>2. /\ book' \in [OrderIds -> BookEntry] /\ book'[x].state = "Cancelled"
        /\ book'[x] = [book[x] EXCEPT !.state = "Cancelled"]
        /\ \A id \in OrderIds : id # x => book'[id] = book[id]
    BY <1>3, <1>4, <2>1 DEF BookEntry
  <2>3. \A id \in OrderIds : book'[id] = [book[id] EXCEPT !.state = book'[id].state]
    BY <1>4, <2>2 DEF BookEntry
  <2> QED BY <1>1, <1>2, <1>3, <1>5, <1>7, <2>1, <2>2, <2>3 DEF x, o
<1>8. CASE ~AcceptCancel
  <2>1. book[x].state # "Live" /\ inbound' = Append(inbound, r2) /\ book' = book
    BY <1>8 DEF RefuseCancel, o
  <2> HIDE DEF x, r2
  <2>2. \A id \in OrderIds : book'[id] = [book[id] EXCEPT !.state = book'[id].state]
    BY <1>4, <2>1 DEF BookEntry
  <2> QED BY <1>1, <1>2, <1>3, <1>4, <1>6, <1>8, <2>1, <2>2 DEF x, o
<1> QED BY <1>7, <1>8

(* Gateway's invariant holds with the killswitch's messages too. *)
LEMMA ShutdownIndInv ==
  ASSUME KillIds, IndInv, Control, [ShutdownNext]_allvars
  PROVE  IndInv'
<1>1. CASE [Next]_vars
  BY <1>1, NextIndInv
<1>2. CASE Down /\ crashes' = crashes
  <2>1. crashes' \in 0..MaxCrashes
    BY <1>2 DEF IndInv, TypeOK
  <2> QED BY <1>2, <2>1, DownStep
<1>3. CASE CancelSlot
  <2> DEFINE m == ToCancelRequest(orders[slot], CancelId(count + 1))
  <2>1. /\ m \in Messages /\ outbound' \in {outbound, Append(outbound, m)}
        /\ UNCHANGED <<positions, orders, log, up, connected, order_counter, strategy, io, inbound,
                       book, crashes>>
    BY <1>3, CancelSlotSends DEF Messages
  <2> HIDE DEF m
  <2>2. outbound' = outbound => UNCHANGED vars
    BY <2>1 DEF vars, exchange
  <2> QED BY <2>1, <2>2, SentIndInv, NextIndInv
<1>4. CASE FlattenSlot
  <2> DEFINE m == ClosingOrder(positions[slot], count + 1)
  <2>1. /\ m \in Messages /\ outbound' \in {outbound, Append(outbound, m)}
        /\ UNCHANGED <<positions, orders, log, up, connected, order_counter, strategy, io, inbound,
                       book, crashes>>
    BY <1>4, FlattenSlotSends DEF Messages
  <2> HIDE DEF m
  <2>2. outbound' = outbound => UNCHANGED vars
    BY <2>1 DEF vars, exchange
  <2> QED BY <2>1, <2>2, SentIndInv, NextIndInv
<1>5. CASE AcceptCancel \/ RefuseCancel
  <2>1. PICK r \in ExecutionReports :
          /\ ReportOK(r) /\ inbound' = Append(inbound, r) /\ outbound' \in Seq(Messages)
          /\ book' \in [OrderIds -> BookEntry]
          /\ UNCHANGED <<positions, orders, log, up, connected, order_counter, strategy, io, crashes>>
    BY <1>5, CancelAnswered
  <2>2. inbound \in Seq(ExecutionReports) /\ \A k \in 1..Len(inbound) : ReportOK(inbound[k])
    BY DEF IndInv, TypeOK
  <2>3. /\ inbound' \in Seq(ExecutionReports) /\ inbound' # << >>
        /\ inbound # << >> => Head(inbound') = Head(inbound)
        /\ \A k \in 1..Len(inbound') : inbound'[k] = r \/ (k \in 1..Len(inbound) /\ inbound'[k] = inbound[k])
    BY <2>1, <2>2
  <2>4. \A k \in 1..Len(inbound') : ReportOK(inbound'[k])
    BY <2>1, <2>2, <2>3
  <2> QED BY <2>1, <2>3, <2>4, ExchangeStep
<1> QED BY <1>1, <1>2, <1>3, <1>4, <1>5, StepKinds

(* A message with an id nobody has seen joins the ones on their way. *)
LEMMA SentKnown ==
  ASSUME IndInv, IdsIssued, OrdersKnown, NEW m \in Messages, outbound' = Append(outbound, m),
         UNCHANGED <<positions, orders, log, up, connected, order_counter, strategy, io, inbound,
                     book, crashes>>,
         Fresh(m.cl_ord_id), m.cl_ord_id[1] # "ORD",
         m.msg_type = "NewOrderSingle" => m.order_qty # 0
  PROVE  IdsIssued' /\ OrdersKnown'
<1>1. UNCHANGED <<spc, req>>
  BY DEF strategy
<1>2. outbound \in Seq(Messages) /\ Len(outbound) \in Nat
  BY DEF IndInv
<1>3. /\ Len(outbound') = Len(outbound) + 1 /\ outbound'[Len(outbound) + 1] = m
      /\ \A k \in 1..Len(outbound) : outbound'[k] = outbound[k]
      /\ \A k \in 1..Len(outbound') : k \in 1..Len(outbound) \/ k = Len(outbound) + 1
  BY <1>2
<1>4. IdsIssued'
  <2>1. Used' = Used /\ Used \in Int /\ Used <= Used'
    BY <1>1 DEF Used, IndInv, TypeOK
  <2>2. Issued(m.cl_ord_id, Used')
    BY DEF Issued
  <2>3. ASSUME NEW k \in 1..Len(outbound')
        PROVE  (\E j \in 1..Len(outbound) : outbound'[k] = outbound[j]) \/ Issued(outbound'[k].cl_ord_id, Used')
    BY <1>3, <2>2
  <2>4. spc' \in {"logged", "booked"} => order_counter' > 0 /\ req'.order_id = OrdId(order_counter' - 1)
    BY <1>1 DEF IdsIssued
  <2> QED BY <2>1, <2>3, <2>4, IdsKept
<1>5. OnTheWay(book, inbound, orders, m)
  <2>1. m.msg_type = "NewOrderSingle" => m.order_qty \in Nat \ {0}
    BY DEF Messages, Singles, CancelRequests
  <2> QED BY <2>1 DEF OnTheWay, Awaited, Fresh, KnownSlot
<1>6. ASSUME NEW k \in 1..Len(outbound') PROVE OnTheWay(book, inbound, orders, outbound'[k])
  BY <1>3, <1>5 DEF OrdersKnown
<1>7. ASSUME NEW j \in 1..Len(outbound'), NEW k \in 1..Len(outbound'),
             outbound'[j].cl_ord_id = outbound'[k].cl_ord_id
      PROVE  j = k
  <2>1. CASE j \in 1..Len(outbound) /\ k \in 1..Len(outbound)
    BY <1>3, <1>7, <2>1 DEF OrdersKnown
  <2>2. CASE ~(j \in 1..Len(outbound) /\ k \in 1..Len(outbound))
    BY <1>3, <1>7, <2>2 DEF Fresh
  <2> QED BY <2>1, <2>2
<1>8. Placed' = Placed
  BY <1>1 DEF Placed
<1>9. (spc = "booked" => Awaited(book, inbound, orders, req.order_id, req.symbol, req.side, req.qty))'
  BY <1>1 DEF OrdersKnown
<1> QED BY <1>4, <1>6, <1>7, <1>8, <1>9 DEF OrdersKnown

(* The answer to a cancel request carries the id of the request. *)
LEMMA AnswerKnown ==
  ASSUME IndInv, IdsIssued, OneLife, OrdersKnown, AcceptCancel \/ RefuseCancel
  PROVE  IdsIssued' /\ OrdersKnown'
<1> DEFINE o == Head(outbound)
           y == o.cl_ord_id
<1>1. PICK r \in ExecutionReports :
        /\ outbound # << >> /\ o = outbound[1] /\ 1 \in 1..Len(outbound) /\ o \in CancelRequests
        /\ outbound' = Tail(outbound)
        /\ \A k \in 1..Len(outbound') : k + 1 \in 1..Len(outbound) /\ outbound'[k] = outbound[k + 1]
        /\ r.cl_ord_id = y /\ inbound' = Append(inbound, r)
        /\ \A id \in OrderIds : \/ book'[id] = book[id]
                                \/ book[id].state = "Live" /\ book'[id].state = "Cancelled"
        /\ UNCHANGED <<orders, order_counter, strategy>>
  BY CancelAnswered, Zenon
<1>2. UNCHANGED <<spc, req>> /\ y \in OrderIds
  BY <1>1 DEF strategy, CancelRequests
<1> HIDE DEF o, y
<1>3. /\ Issued(y, Used) /\ book[y].state = "None" /\ outbound[1].cl_ord_id = y
  BY <1>1 DEF IdsIssued, OrdersKnown, OnTheWay, y
<1>4. inbound \in Seq(ExecutionReports)
  BY DEF IndInv, TypeOK
<1>5. \A k \in 1..Len(inbound') : inbound'[k] = r \/ (k \in 1..Len(inbound) /\ inbound'[k] = inbound[k])
  BY <1>1, <1>4
<1>6. IdsIssued'
  <2>1. Used' = Used /\ Used \in Int /\ Used <= Used'
    BY <1>1, <1>2 DEF Used, IndInv, TypeOK
  <2>2. ASSUME NEW k \in 1..Len(outbound') PROVE \E j \in 1..Len(outbound) : outbound'[k] = outbound[j]
    BY <1>1
  <2>3. ASSUME NEW k \in 1..Len(inbound')
        PROVE  (\E j \in 1..Len(inbound) : inbound'[k] = inbound[j]) \/ Issued(inbound'[k].cl_ord_id, Used)
    BY <1>1, <1>3, <1>5
  <2>4. spc' \in {"logged", "booked"} => order_counter' > 0 /\ req'.order_id = OrdId(order_counter' - 1)
    BY <1>1, <1>2 DEF IdsIssued
  <2>5. \A id \in OrderIds : book'[id].state # "None" => book[id].state # "None"
    BY <1>1
  <2> QED BY <2>1, <2>2, <2>3, <2>4, <2>5, IdsKept
<1>7. \A k \in 1..Len(outbound') : outbound'[k].cl_ord_id # y
  <2> SUFFICES ASSUME NEW k \in 1..Len(outbound'), outbound'[k].cl_ord_id = y PROVE FALSE
    OBVIOUS
  <2>1. k + 1 \in 1..Len(outbound) /\ outbound[k + 1].cl_ord_id = outbound[1].cl_ord_id /\ k \in Nat /\ k > 0
    BY <1>1, <1>3
  <2>2. k + 1 = 1
    BY <1>1, <2>1 DEF OrdersKnown
  <2> QED BY <2>1, <2>2
<1>8. spc = "booked" => req.order_id # y
  BY <1>1, <1>3, RequestIsOther
<1>9. Covered(book', Append(inbound, r), orders, y)
  BY <1>1, <1>2, <1>3 DEF Covered
<1> QED BY <1>1, <1>2, <1>6, <1>7, <1>8, <1>9, ReportKnown

-----------------------------------------------------------------------------
(* What a step does to the messages and to the exchange's book. *)

(* Nothing, or the first report is done with. *)
Delivers ==
  /\ UNCHANGED <<outbound, book>>
  /\ inbound' = inbound \/ (inbound # << >> /\ inbound' = Tail(inbound))

(* m is sent to the exchange: by send_order(), cancel_all() or flatten(). *)
Sends(m) == outbound' = Append(outbound, m) /\ UNCHANGED <<inbound, book>>

OrderSent(m) ==
  /\ RunStrategy /\ TransmitOrder /\ m = ToNewOrderSingle(req) /\ m.msg_type = "NewOrderSingle"
  /\ m.cl_ord_id = req.order_id /\ m.cl_ord_id[1] = "ORD"

CancelSent(m) ==
  /\ CancelSlot /\ IsOpen(orders[slot]) /\ m.msg_type = "OrderCancelRequest"
  /\ m = ToCancelRequest(orders[slot], CancelId(count + 1))

ClosingSent(m) ==
  /\ FlattenSlot /\ ~IsFlat(positions[slot]) /\ m.msg_type = "NewOrderSingle"
  /\ m = ClosingOrder(positions[slot], count + 1) /\ m.order_qty # 0

(* What becomes of an order the exchange has. *)
GoesOn(b, c) ==
  /\ c.symbol = b.symbol /\ c.side = b.side /\ c.qty = b.qty
  /\ c.filled >= b.filled /\ (c.filled = b.filled \/ c.filled <= b.qty)

(* The exchange takes a message and answers with r. *)
Answers(r) ==
  /\ outbound # << >> /\ outbound' = Tail(outbound) /\ inbound' = Append(inbound, r)
  /\ r.cl_ord_id = Head(outbound).cl_ord_id

TakesOrder(r) ==
  /\ Answers(r) /\ (AcceptOrder \/ RefuseOrder)
  /\ Head(outbound).msg_type = "NewOrderSingle"
  /\ \A id \in OrderIds : id # r.cl_ord_id => book'[id] = book[id]

TakesCancel(r) ==
  /\ Answers(r) /\ (AcceptCancel \/ RefuseCancel)
  /\ Head(outbound).msg_type = "OrderCancelRequest"
  /\ book'[Head(outbound).orig_cl_ord_id].state # "Live"
  /\ \A id \in OrderIds : \/ book'[id] = book[id]
                          \/ /\ book[id].state = "Live" /\ book'[id].state = "Cancelled"
                             /\ id = Head(outbound).orig_cl_ord_id /\ GoesOn(book[id], book'[id])

(* The exchange tells of an order it has. *)
Tells(r) ==
  /\ outbound' = outbound /\ inbound' = Append(inbound, r)
  /\ book[r.cl_ord_id].state = "Live" /\ book'[r.cl_ord_id].state # "None"
  /\ GoesOn(book[r.cl_ord_id], book'[r.cl_ord_id])
  /\ \A id \in OrderIds : id # r.cl_ord_id => book'[id] = book[id]

(* Those are all, as long as no logon resets the session. *)
LEMMA Traffic ==
  ASSUME ~ResetOnLogon, KillIds, IndInv, Control, up => IdsIssued, [ShutdownNext]_allvars
  PROVE  \/ Delivers
         \/ \E m \in Messages : Sends(m) /\ up /\ up' /\ (OrderSent(m) \/ CancelSent(m) \/ ClosingSent(m))
         \/ \E r \in ExecutionReports : TakesOrder(r) \/ TakesCancel(r) \/ Tells(r)
<1>0. book \in [OrderIds -> BookEntry]
  BY DEF IndInv, TypeOK, BookEntry
<1>1. CASE UNCHANGED <<outbound, inbound, book>>
  BY <1>1 DEF Delivers
<1>2. CASE RunStrategy
  <2>1. up
    BY <1>2 DEF RunStrategy, Control
  <2>2. CASE TransmitOrder
    <3> DEFINE m == ToNewOrderSingle(req)
    <3>1. spc = "booked" /\ Sends(m) /\ up'
      BY <2>1, <2>2 DEF TransmitOrder, Sends
    <3>2. m.msg_type = "NewOrderSingle" /\ m.cl_ord_id = req.order_id
      BY DEF ToNewOrderSingle
    <3>3. req.order_id[1] = "ORD"
      BY <2>1, <3>1 DEF IdsIssued, OrdId
    <3>4. m \in Messages
      <4>1. /\ req.order_id \in OrderIds /\ req.symbol \in Symbols /\ req.side \in Sides
            /\ req.qty \in Nat /\ req.price \in Nat
        BY <3>1, RequestEvent DEF IndInv, RequestOK
      <4> QED BY <4>1 DEF ToNewOrderSingle, Singles, Messages
    <3> QED BY <1>2, <2>1, <2>2, <3>1, <3>2, <3>3, <3>4 DEF OrderSent
  <2> QED BY <1>1, <1>2, <2>2 DEF RunStrategy, Strategy, SendOrder, CheckRisk, RecordOrder, ProjectOrder,
                                  exchange
<1>3. CASE IOThread
  <2>1. UNCHANGED <<outbound, book>>
    BY <1>3 DEF IOThread, Logon, Logout, DropReport, TakeReport, LogReport, TrackReport,
                ProjectReport, exchange
  <2>2. inbound' = inbound \/ (inbound # << >> /\ inbound' = Tail(inbound))
    BY <1>3 DEF IOThread, Logon, Logout, DropReport, TakeReport, LogReport, TrackReport,
                ProjectReport, exchange, Deliverable, IndInv, ReportAtHand
  <2> QED BY <2>1, <2>2 DEF Delivers
<1>4. CASE AcceptOrder \/ RefuseOrder
  <2> DEFINE o == Head(outbound)
             type == IF AcceptOrder THEN "New" ELSE "Rejected"
             r == Report(type, o.cl_ord_id, o.symbol, o.side, 0, 0)
  <2>1. /\ outbound # << >> /\ outbound' = Tail(outbound) /\ o.msg_type = "NewOrderSingle"
        /\ inbound' = Append(inbound, r)
        /\ book' = book \/ \E b : book' = [book EXCEPT ![o.cl_ord_id] = b]
    BY <1>4 DEF AcceptOrder, RefuseOrder
  <2>2. o.cl_ord_id \in OrderIds /\ o.symbol \in Symbols /\ o.side \in Sides /\ type \in ExecTypes
    BY <2>1, OrdersTail DEF ExecTypes
  <2> HIDE DEF o, type
  <2>3. r \in ExecutionReports /\ r.cl_ord_id = o.cl_ord_id
    BY <2>2 DEF Report, ExecutionReports
  <2> HIDE DEF r
  <2>4. \A id \in OrderIds : id # r.cl_ord_id => book'[id] = book[id]
    BY <1>0, <2>1, <2>3
  <2> QED BY <1>4, <2>1, <2>3, <2>4 DEF TakesOrder, Answers, o
<1>5. ASSUME NEW oid \in OrderIds, NEW qty \in Quantities \ {0}, NEW px \in Prices, Trade(oid, qty, px)
      PROVE  \E r \in ExecutionReports : Tells(r)
  <2> DEFINE done == book[oid].filled + qty = book[oid].qty
             type == IF done THEN "Fill" ELSE "PartialFill"
             st == IF done THEN "Filled" ELSE "Live"
             n == book[oid].filled + qty
             r == Report(type, oid, book[oid].symbol, book[oid].side, qty, px)
  <2>1. /\ book[oid].state = "Live" /\ inbound' = Append(inbound, r) /\ outbound' = outbound
        /\ book' = [book EXCEPT ![oid].state = st, ![oid].filled = n]
    BY <1>5 DEF Trade, Tell
  <2>2. type \in ExecTypes /\ st # "None" /\ book[oid] \in BookEntry
    BY <1>0 DEF ExecTypes
  <2>3. px \in Nat /\ qty \in Nat
    <3>1. Prices \subseteq Nat
      BY GatewayAssumption
    <3> QED BY <3>1, QuantitiesAssumption
  <2>6. n >= book[oid].filled /\ n <= book[oid].qty
    <3>1. n <= book[oid].qty
      BY <1>5 DEF Trade
    <3> QED BY <2>2, <2>3, <3>1 DEF BookEntry
  <2> HIDE DEF type, st, n
  <2>4. r \in ExecutionReports /\ r.cl_ord_id = oid
    <3>1. (qty > 0) \in BOOLEAN
      OBVIOUS
    <3> QED BY <2>2, <2>3, <3>1, Zenon DEF Report, ExecutionReports, BookEntry
  <2>5. /\ book'[oid].state = st /\ book'[oid].filled = n /\ book'[oid].symbol = book[oid].symbol
        /\ book'[oid].side = book[oid].side /\ book'[oid].qty = book[oid].qty
        /\ \A id \in OrderIds : id # oid => book'[id] = book[id]
    BY <1>0, <2>1, <2>2 DEF BookEntry
  <2> HIDE DEF r
  <2> QED BY <2>1, <2>2, <2>4, <2>5, <2>6 DEF Tells, GoesOn
<1>6. ASSUME NEW oid \in OrderIds, CancelOrder(oid) \/ ExpireOrder(oid)
      PROVE  \E r \in ExecutionReports : Tells(r)
  <2>0. PICK st, xt : Ends(oid, st, xt)
    BY <1>6, OrderEnds
  <2> DEFINE r == Report(xt, oid, book[oid].symbol, book[oid].side, 0, 0)
  <2>1. /\ book[oid].state = "Live" /\ inbound' = Append(inbound, r) /\ outbound' = outbound
        /\ book' = [book EXCEPT ![oid].state = st]
    BY <2>0 DEF Ends
  <2>2. book[oid] \in BookEntry /\ xt \in ExecTypes /\ st # "None"
    BY <1>0, <2>0 DEF ExecTypes, Ends
  <2>3. r \in ExecutionReports /\ r.cl_ord_id = oid
    BY <2>2 DEF Report, ExecutionReports, BookEntry
  <2>4. /\ book'[oid].state = st /\ book'[oid].filled = book[oid].filled
        /\ book'[oid].symbol = book[oid].symbol /\ book'[oid].side = book[oid].side
        /\ book'[oid].qty = book[oid].qty /\ book[oid].filled \in Nat
        /\ \A id \in OrderIds : id # oid => book'[id] = book[id]
    BY <1>0, <2>1, <2>2 DEF BookEntry
  <2>5. book'[oid].filled >= book[oid].filled
    BY <2>4
  <2> HIDE DEF r
  <2> QED BY <2>1, <2>2, <2>3, <2>4, <2>5 DEF Tells, GoesOn
<1>7. CASE RunExchange
  BY <1>4, <1>5, <1>6, <1>7 DEF RunExchange, Exchange
<1>8. CASE RunKillswitch
  <2>1. up /\ (EndLoop => UNCHANGED <<outbound, inbound, book>>)
    BY <1>8 DEF RunKillswitch, EndLoop, exchange
  <2>2. CASE CancelSlot
    <3> DEFINE m == ToCancelRequest(orders[slot], CancelId(count + 1))
    <3>1. /\ m \in Messages /\ m.msg_type = "OrderCancelRequest"
          /\ IsOpen(orders[slot]) => outbound' = Append(outbound, m)
          /\ ~IsOpen(orders[slot]) => outbound' = outbound
          /\ UNCHANGED <<up, inbound, book>>
      BY <2>2, CancelSlotSends DEF Messages
    <3> HIDE DEF m
    <3>2. IsOpen(orders[slot]) => Sends(m) /\ CancelSent(m)
      BY <2>2, <3>1 DEF CancelSent, Sends, m
    <3> QED BY <1>1, <2>1, <3>1, <3>2
  <2>3. CASE FlattenSlot
    <3> DEFINE m == ClosingOrder(positions[slot], count + 1)
    <3>1. /\ m \in Messages /\ m.msg_type = "NewOrderSingle"
          /\ ~IsFlat(positions[slot]) => outbound' = Append(outbound, m) /\ m.order_qty # 0
          /\ IsFlat(positions[slot]) => outbound' = outbound
          /\ UNCHANGED <<up, inbound, book>>
      BY <2>3, FlattenSlotSends DEF Messages
    <3> HIDE DEF m
    <3>2. ~IsFlat(positions[slot]) => Sends(m) /\ ClosingSent(m)
      BY <2>3, <3>1 DEF ClosingSent, Sends, m
    <3> QED BY <1>1, <2>1, <3>1, <3>2
  <2> QED BY <1>1, <1>8, <2>1, <2>2, <2>3 DEF RunKillswitch, KillStep
<1>9. CASE AcceptCancel \/ RefuseCancel
  <2>1. PICK r \in ExecutionReports :
          /\ outbound # << >> /\ Head(outbound).msg_type = "OrderCancelRequest"
          /\ outbound' = Tail(outbound) /\ r.cl_ord_id = Head(outbound).cl_ord_id
          /\ inbound' = Append(inbound, r) /\ book'[Head(outbound).orig_cl_ord_id].state # "Live"
          /\ \A id \in OrderIds : \/ book'[id] = book[id]
                                  \/ /\ book[id].state = "Live" /\ book'[id].state = "Cancelled"
                                     /\ id = Head(outbound).orig_cl_ord_id
          /\ \A id \in OrderIds : book'[id] = [book[id] EXCEPT !.state = book'[id].state]
    BY <1>9, CancelAnswered, Zenon
  <2>2. ASSUME NEW id \in OrderIds PROVE GoesOn(book[id], book'[id])
    <3>1. /\ book'[id].symbol = book[id].symbol /\ book'[id].side = book[id].side
          /\ book'[id].qty = book[id].qty /\ book'[id].filled = book[id].filled
          /\ book[id].filled \in Nat
      BY <1>0, <2>1 DEF BookEntry
    <3>2. book'[id].filled >= book[id].filled
      BY <3>1
    <3> QED BY <3>1, <3>2 DEF GoesOn
  <2> QED BY <1>9, <2>1, <2>2 DEF TakesCancel, Answers
<1>10. CASE Exit \/ Fatal \/ Terminate \/ LeaveLoop \/ CallFlatten
            \/ \E th \in Threads : SignalCancels(th)
  BY <1>1, <1>10 DEF Exit, Fatal, Terminate, TerminateLogFull, Down, LeaveLoop, CallFlatten,
                     SignalCancels, vars, exchange
<1>11. CASE UNCHANGED allvars
  BY <1>1, <1>11 DEF allvars, vars, exchange
<1> QED BY <1>2, <1>3, <1>7, <1>8, <1>9, <1>10, <1>11 DEF ShutdownNext, RunIO

-----------------------------------------------------------------------------
(* The control state. *)
LEMMA ControlStep ==
  ASSUME KillIds, IndInv, Control, [ShutdownNext]_allvars
  PROVE  Control'
<1>1. CASE RunStrategy \/ RunIO \/ RunExchange \/ AcceptCancel \/ RefuseCancel \/ UNCHANGED allvars
  <2>1. UNCHANGED <<kvars, mvars>>
    BY <1>1 DEF RunStrategy, RunIO, RunExchange, AcceptCancel, RefuseCancel, allvars
  <2>2. up' = up
    BY <1>1 DEF RunStrategy, Strategy, SendOrder, CheckRisk, RecordOrder, ProjectOrder, TransmitOrder,
                RunIO, IOThread, Logon, Logout, DropReport, TakeReport, LogReport, TrackReport,
                ProjectReport, RunExchange, Exchange, AcceptOrder, RefuseOrder, Trade, CancelOrder, ExpireOrder,
                AcceptCancel, RefuseCancel, allvars, vars
  <2> QED BY <2>1, <2>2 DEF Control, kvars, mvars
<1>2. CASE \E th \in Threads : SignalCancels(th)
  <2>1. /\ g_shutdown' /\ UNCHANGED <<vars, mpc>>
        /\ kpc' \in {"cancelling", "hung"}
        /\ (slot' = 1 /\ count' = 0) \/ (slot' = slot /\ count' = count)
        /\ targets' = Reached
    BY <1>2 DEF SignalCancels, BeginCancelAll
  <2>2. up' = up /\ Reached \in SUBSET OrderIds
    BY <2>1 DEF vars, Reached
  <2> QED BY <2>1, <2>2 DEF Control
<1>5. CASE CallFlatten
  BY <1>5 DEF CallFlatten, AtLoopHead, BeginFlatten, Control, vars, mvars
<1>6. CASE LeaveLoop
  BY <1>6 DEF LeaveLoop, AtLoopHead, Control, vars, kvars
<1>7. CASE Exit \/ Fatal \/ Terminate
  <2>1. /\ ~up' /\ UNCHANGED <<kpc, slot, count, g_shutdown, targets>>
        /\ mpc' \in {"failed", "terminated"} \/ (mpc = "stopping" /\ mpc' = "exited")
    BY <1>7 DEF Exit, Fatal, Terminate, TerminateLogFull, Down, kvars
  <2> QED BY <2>1 DEF Control
<1>8. CASE RunKillswitch
  <2>1. UNCHANGED mvars
    BY <1>8 DEF RunKillswitch
  <2>2. CASE CancelSlot
    <3>1. slot' = slot + 1 /\ count' \in {count, count + 1} /\ UNCHANGED <<kpc, up>>
      BY <2>2, CancelSlotSends
    <3> QED BY <2>1, <3>1 DEF Control, mvars
  <2>3. CASE FlattenSlot
    <3>1. slot' = slot + 1 /\ count' \in {count, count + 1} /\ UNCHANGED <<kpc, up>>
      BY <2>3, FlattenSlotSends
    <3> QED BY <2>1, <3>1 DEF Control, mvars
  <2>4. CASE EndLoop
    BY <2>1, <2>4 DEF EndLoop, Control, mvars
  <2> QED BY <1>8, <2>2, <2>3, <2>4 DEF RunKillswitch, KillStep
<1> QED BY <1>1, <1>2, <1>5, <1>6, <1>7, <1>8 DEF ShutdownNext

(* An id that is to come was to come, and is not the one being sent. *)
LEMMA ToComeBefore ==
  ASSUME KillIds, IndInv, Control, [ShutdownNext]_allvars, NEW x, ToCome(x)'
  PROVE  /\ ToCome(x) /\ x[1] # "ORD"
         /\ \A m : CancelSent(m) \/ ClosingSent(m) => m.cl_ord_id # x
<1>0. PICK n \in Nat :
        \/ x = CancelId(n) /\ (kpc' = "idle" \/ (kpc' = "cancelling" /\ n > count'))
        \/ x = FlatId(n) /\ (kpc' \notin {"flattening", "flattened"} \/ (kpc' = "flattening" /\ n > count'))
  BY DEF ToCome
<1>1. /\ slot \in Nat /\ count \in Nat /\ x[1] # "ORD"
      /\ ~g_shutdown => kpc = "idle"
  BY <1>0 DEF Control, CancelId, FlatId
<1>2. CASE CancelSlot
  <2>1. /\ kpc = "cancelling" /\ kpc' = kpc
        /\ IsOpen(orders[slot]) => count' = count + 1
        /\ ~IsOpen(orders[slot]) => count' = count
    BY <1>2, CancelSlotSends
  <2>2. ToCome(x)
    BY <1>0, <1>1, <2>1 DEF ToCome
  <2>3. ASSUME NEW m, CancelSent(m) \/ ClosingSent(m) PROVE m.cl_ord_id # x
    <3>1. IsOpen(orders[slot]) /\ m = ToCancelRequest(orders[slot], CancelId(count + 1))
      BY <2>1, <2>3 DEF CancelSent, ClosingSent, FlattenSlot
    <3>2. m.cl_ord_id = CancelId(count + 1)
      BY <3>1 DEF ToCancelRequest
    <3> QED BY <1>0, <1>1, <2>1, <3>1, <3>2 DEF CancelId, FlatId
  <2> QED BY <1>1, <2>2, <2>3
<1>3. CASE FlattenSlot
  <2>1. /\ kpc = "flattening" /\ kpc' = kpc
        /\ ~IsFlat(positions[slot]) => count' = count + 1
        /\ IsFlat(positions[slot]) => count' = count
        /\ ClosingOrder(positions[slot], count + 1).cl_ord_id = FlatId(count + 1)
    BY <1>3, FlattenSlotSends
  <2>2. ToCome(x)
    BY <1>0, <1>1, <2>1 DEF ToCome
  <2>3. ASSUME NEW m, CancelSent(m) \/ ClosingSent(m) PROVE m.cl_ord_id # x
    <3>1. ~IsFlat(positions[slot]) /\ m = ClosingOrder(positions[slot], count + 1)
      BY <2>1, <2>3 DEF CancelSent, ClosingSent, CancelSlot
    <3> QED BY <1>0, <1>1, <2>1, <3>1 DEF CancelId, FlatId
  <2> QED BY <1>1, <2>2, <2>3
<1>4. CASE ~CancelSlot /\ ~FlattenSlot
  <2>1. \A m : ~(CancelSent(m) \/ ClosingSent(m))
    BY <1>4 DEF CancelSent, ClosingSent
  <2>2. CASE UNCHANGED <<kpc, count>>
    BY <1>1, <2>1, <2>2 DEF ToCome
  <2>3. CASE kpc = "idle" /\ kpc' \in {"cancelling", "hung"}
    BY <1>0, <1>1, <2>1, <2>3 DEF ToCome
  <2>4. CASE kpc = "cancelling" /\ kpc' = "cancelled"
    BY <1>0, <1>1, <2>1, <2>4 DEF ToCome
  <2>5. CASE kpc = "cancelled" /\ kpc' = "flattening"
    BY <1>0, <1>1, <2>1, <2>5 DEF ToCome
  <2>6. CASE kpc = "flattening" /\ kpc' = "flattened"
    BY <1>0, <1>1, <2>1, <2>6 DEF ToCome
  <2>7. CASE \E th \in Threads : SignalCancels(th)
    BY <1>1, <2>3, <2>7 DEF SignalCancels, BeginCancelAll
  <2>8. CASE RunKillswitch
    BY <1>4, <2>4, <2>6, <2>8 DEF RunKillswitch, KillStep, EndLoop
  <2>9. CASE CallFlatten
    BY <2>5, <2>9 DEF CallFlatten, BeginFlatten
  <2>10. CASE ~(RunKillswitch \/ CallFlatten \/ \E th \in Threads : SignalCancels(th))
    <3>1. UNCHANGED <<kpc, count>>
      BY <2>10 DEF ShutdownNext, RunStrategy, RunIO, RunExchange, LeaveLoop, Exit, Fatal,
                   Terminate, AcceptCancel, RefuseCancel, allvars, kvars
    <3> QED BY <2>2, <3>1
  <2> QED BY <2>7, <2>8, <2>9, <2>10
<1> QED BY <1>2, <1>3, <1>4

(* No other message makes an id known. *)
LEMMA FreshStays ==
  ASSUME ~ResetOnLogon, KillIds, IndInv, Control, up => IdsIssued, [ShutdownNext]_allvars,
         NEW x \in OrderIds, x[1] # "ORD", Fresh(x),
         \A m : CancelSent(m) \/ ClosingSent(m) => m.cl_ord_id # x
  PROVE  Fresh(x)'
<1>1. inbound \in Seq(ExecutionReports) /\ outbound \in Seq(Messages)
  BY DEF IndInv, TypeOK
<1>2. CASE Delivers
  <2>1. \A k \in 1..Len(inbound') : \E j \in 1..Len(inbound) : inbound'[k] = inbound[j]
    <3>1. inbound # << >> => \A k \in 1..Len(Tail(inbound)) : k + 1 \in 1..Len(inbound) /\ Tail(inbound)[k] = inbound[k + 1]
      BY <1>1
    <3> QED BY <1>2, <3>1 DEF Delivers
  <2> QED BY <1>2, <2>1 DEF Delivers, Fresh, Unreported
<1>3. ASSUME NEW m \in Messages, Sends(m), OrderSent(m) \/ CancelSent(m) \/ ClosingSent(m)
      PROVE  Fresh(x)'
  <2>1. m.cl_ord_id # x
    BY <1>3 DEF OrderSent
  <2>2. \A k \in 1..Len(outbound') : \/ outbound'[k] = m
                                     \/ k \in 1..Len(outbound) /\ outbound'[k] = outbound[k]
    BY <1>1, <1>3 DEF Sends
  <2> QED BY <1>3, <2>1, <2>2 DEF Fresh, Unreported, Sends
<1>4. ASSUME NEW r \in ExecutionReports, TakesOrder(r) \/ TakesCancel(r) \/ Tells(r)
      PROVE  Fresh(x)'
  <2>1. \A k \in 1..Len(inbound') : \/ inbound'[k] = r
                                    \/ k \in 1..Len(inbound) /\ inbound'[k] = inbound[k]
    <3>1. inbound' = Append(inbound, r)
      BY <1>4 DEF TakesOrder, TakesCancel, Tells, Answers
    <3> QED BY <1>1, <3>1
  <2>2. r.cl_ord_id # x /\ book'[x].state = "None"
    <3>1. CASE TakesOrder(r) \/ TakesCancel(r)
      <4>1. outbound # << >> /\ r.cl_ord_id = Head(outbound).cl_ord_id
        BY <3>1 DEF TakesOrder, TakesCancel, Answers
      <4>2. Head(outbound) = outbound[1] /\ 1 \in 1..Len(outbound)
        BY <4>1, OrdersTail
      <4> QED BY <3>1, <4>1, <4>2 DEF Fresh, TakesOrder, TakesCancel
    <3>2. CASE Tells(r)
      BY <3>2 DEF Tells, Fresh
    <3> QED BY <1>4, <3>1, <3>2
  <2>3. \A k \in 1..Len(outbound') : \E j \in 1..Len(outbound) : outbound'[k] = outbound[j]
    <3>1. CASE outbound' = outbound
      BY <3>1
    <3>2. CASE outbound # << >> /\ outbound' = Tail(outbound)
      <4>1. \A k \in 1..Len(outbound') : k + 1 \in 1..Len(outbound) /\ outbound'[k] = outbound[k + 1]
        BY <3>2, OrdersTail
      <4> QED BY <4>1
    <3> QED BY <1>4, <3>1, <3>2 DEF TakesOrder, TakesCancel, Tells, Answers
  <2> QED BY <2>1, <2>2, <2>3 DEF Fresh, Unreported
<1> QED BY <1>2, <1>3, <1>4, Traffic

-----------------------------------------------------------------------------
(* The orders without a cancel behind them. *)

(* An order that has one keeps it until it is done. *)
LEMMA LeftOpenStays ==
  ASSUME ~ResetOnLogon, KillIds, IndInv, Control, up => IdsIssued, [ShutdownNext]_allvars,
         NEW oid \in OrderIds, oid[1] = "ORD", LeftOpen(oid)', \A m : OrderSent(m) => m.cl_ord_id # oid
  PROVE  LeftOpen(oid)
<1>1. outbound \in Seq(Messages) /\ Len(outbound) \in Nat
  BY DEF IndInv
<1>2. CASE Delivers
  BY <1>2 DEF Delivers, LeftOpen, CancelAfter
<1>3. ASSUME NEW m \in Messages, Sends(m), OrderSent(m) \/ CancelSent(m) \/ ClosingSent(m)
      PROVE  LeftOpen(oid)
  <2>1. ~(m.msg_type = "NewOrderSingle" /\ m.cl_ord_id = oid)
    <3>1. CASE ClosingSent(m)
      <4>1. m.cl_ord_id = FlatId(count + 1)
        BY <3>1, FlattenSlotSends DEF ClosingSent
      <4> QED BY <4>1 DEF FlatId
    <3> QED BY <1>3, <3>1 DEF CancelSent
  <2>2. /\ Len(outbound') = Len(outbound) + 1 /\ outbound'[Len(outbound) + 1] = m
        /\ \A k \in 1..Len(outbound) : k \in 1..Len(outbound') /\ outbound'[k] = outbound[k]
        /\ \A k \in 1..Len(outbound') : k \in 1..Len(outbound) \/ k = Len(outbound) + 1
    BY <1>1, <1>3 DEF Sends
  <2>3. ASSUME NEW k \in 0..Len(outbound), CancelAfter(oid, k) PROVE CancelAfter(oid, k)'
    <3>1. PICK j \in (k + 1)..Len(outbound) : /\ outbound[j].msg_type = "OrderCancelRequest"
                                              /\ outbound[j].orig_cl_ord_id = oid
      BY <2>3 DEF CancelAfter
    <3>2. j \in (k + 1)..Len(outbound') /\ outbound'[j] = outbound[j]
      BY <1>1, <2>2, <3>1
    <3> QED BY <3>1, <3>2 DEF CancelAfter
  <2>4. CASE book'[oid].state = "Live" /\ ~CancelAfter(oid, 0)'
    <3>1. 0 \in 0..Len(outbound)
      BY <1>1
    <3> QED BY <1>3, <2>3, <2>4, <3>1 DEF LeftOpen, Sends
  <2>5. ASSUME NEW k \in 1..Len(outbound'), outbound'[k].msg_type = "NewOrderSingle",
               outbound'[k].cl_ord_id = oid, ~CancelAfter(oid, k)'
        PROVE  LeftOpen(oid)
    <3>1. k \in 1..Len(outbound) /\ k \in 0..Len(outbound) /\ outbound'[k] = outbound[k]
      BY <1>1, <2>1, <2>2, <2>5
    <3> QED BY <2>3, <2>5, <3>1 DEF LeftOpen
  <2> QED BY <2>4, <2>5 DEF LeftOpen
<1>4. ASSUME NEW r \in ExecutionReports, TakesOrder(r) \/ TakesCancel(r)
      PROVE  LeftOpen(oid)
  <2> DEFINE o == Head(outbound)
  <2>1. outbound # << >> /\ outbound' = Tail(outbound) /\ r.cl_ord_id = o.cl_ord_id
    BY <1>4 DEF TakesOrder, TakesCancel, Answers
  <2>2. /\ o = outbound[1] /\ 1 \in 1..Len(outbound) /\ Len(outbound') = Len(outbound) - 1
        /\ \A k \in 1..Len(outbound') : k + 1 \in 1..Len(outbound) /\ outbound'[k] = outbound[k + 1]
    BY <2>1, OrdersTail
  <2>3. ASSUME NEW k \in 0..Len(outbound'), CancelAfter(oid, k + 1) PROVE CancelAfter(oid, k)'
    <3>1. PICK j \in ((k + 1) + 1)..Len(outbound) : /\ outbound[j].msg_type = "OrderCancelRequest"
                                                    /\ outbound[j].orig_cl_ord_id = oid
      BY <2>3 DEF CancelAfter
    <3>2. j - 1 \in (k + 1)..Len(outbound') /\ (j - 1) + 1 = j /\ j - 1 \in 1..Len(outbound')
      BY <1>1, <2>2, <3>1
    <3>3. outbound'[j - 1] = outbound[j]
      BY <2>2, <3>2
    <3> QED BY <3>1, <3>2, <3>3 DEF CancelAfter
  <2>4. CASE book'[oid].state = "Live" /\ ~CancelAfter(oid, 0)'
    <3>1. 0 \in 0..Len(outbound') /\ 0 + 1 = 1
      BY <1>1, <2>2
    <3>2. ~CancelAfter(oid, 1)
      <4>1. CancelAfter(oid, 0 + 1) => CancelAfter(oid, 0)'
        BY <2>3, <3>1
      <4> QED BY <2>4, <3>1, <4>1
    <3>3. CASE book[oid].state = "Live"
      <4>1. ~(o.msg_type = "OrderCancelRequest" /\ o.orig_cl_ord_id = oid)
        BY <1>4, <2>4 DEF TakesOrder, TakesCancel
      <4>2. ~CancelAfter(oid, 0)
        <5> SUFFICES ASSUME NEW j \in (0 + 1)..Len(outbound), outbound[j].msg_type = "OrderCancelRequest",
                            outbound[j].orig_cl_ord_id = oid
                     PROVE  FALSE
          BY DEF CancelAfter
        <5>1. j # 1
          BY <2>2, <4>1
        <5>2. j \in (1 + 1)..Len(outbound)
          BY <1>1, <5>1
        <5> QED BY <3>2, <5>2 DEF CancelAfter
      <4> QED BY <3>3, <4>2 DEF LeftOpen
    <3>4. CASE book[oid].state # "Live"
      <4>1. TakesOrder(r) /\ oid = o.cl_ord_id
        BY <1>4, <2>1, <2>4, <3>4 DEF TakesOrder, TakesCancel
      <4>2. o.msg_type = "NewOrderSingle"
        BY <4>1 DEF TakesOrder
      <4> QED BY <2>2, <3>2, <4>1, <4>2 DEF LeftOpen
    <3> QED BY <3>3, <3>4
  <2>5. ASSUME NEW k \in 1..Len(outbound'), outbound'[k].msg_type = "NewOrderSingle",
               outbound'[k].cl_ord_id = oid, ~CancelAfter(oid, k)'
        PROVE  LeftOpen(oid)
    <3>1. k \in 0..Len(outbound') /\ k + 1 \in 1..Len(outbound) /\ outbound'[k] = outbound[k + 1]
      BY <1>1, <2>2
    <3> QED BY <2>3, <2>5, <3>1 DEF LeftOpen
  <2> QED BY <2>4, <2>5 DEF LeftOpen
<1>5. ASSUME NEW r \in ExecutionReports, Tells(r)
      PROVE  LeftOpen(oid)
  <2>1. outbound' = outbound /\ (book'[oid].state = "Live" => book[oid].state = "Live")
    BY <1>5 DEF Tells
  <2> QED BY <2>1 DEF LeftOpen, CancelAfter
<1> QED BY <1>2, <1>3, <1>4, <1>5, Traffic

(* An order that is left open has an open slot. *)
LEMMA LeftOpenSlot ==
  ASSUME IndInv, OrdersKnown, NEW oid \in OrderIds, oid[1] = "ORD",
         book[oid].state = "Live" \/ OnItsWay(oid)
  PROVE  LET i == FindOrder(orders, oid)
         IN  i \in 1..Len(orders) /\ orders[i].order_id = oid /\ IsOpen(orders[i])
<1> DEFINE i == FindOrder(orders, oid)
<1>1. orders \in Seq(Order)
  BY DEF IndInv, TypeOK
<1>2. i \in 0..Len(orders) /\ (i # 0 => orders[i].order_id = oid)
  BY <1>1, FindOrderProps
<1>3. i # 0 /\ IsOpen(orders[i])
  BY DEF OrdersKnown, Covered, OnTheWay, Awaited, KnownSlot, OpenSlot, OnItsWay
<1> QED BY <1>1, <1>2, <1>3

(* cancel_all() puts a cancel behind the order of the slot it is at. *)
LEMMA CancelSlotCovers ==
  ASSUME KillIds, IndInv, Control, OrdersKnown, CancelSlot,
         NEW oid \in OrderIds, oid[1] = "ORD", FindOrder(orders, oid) = slot
  PROVE  ~LeftOpen(oid)'
<1> DEFINE m == ToCancelRequest(orders[slot], CancelId(count + 1))
<1>1. /\ m.msg_type = "OrderCancelRequest" /\ m.orig_cl_ord_id = orders[slot].order_id
      /\ IsOpen(orders[slot]) => outbound' = Append(outbound, m)
      /\ ~IsOpen(orders[slot]) => outbound' = outbound
      /\ book' = book
  BY CancelSlotSends
<1>2. outbound \in Seq(Messages) /\ Len(outbound) \in Nat
  BY DEF IndInv
<1> HIDE DEF m
<1>3. CASE ~(book[oid].state = "Live" \/ OnItsWay(oid))
  <2>1. \A k \in 1..Len(outbound') : \/ outbound'[k].msg_type # "NewOrderSingle"
                                     \/ k \in 1..Len(outbound) /\ outbound'[k] = outbound[k]
    BY <1>1, <1>2
  <2> QED BY <1>1, <1>3, <2>1 DEF LeftOpen, OnItsWay
<1>4. CASE book[oid].state = "Live" \/ OnItsWay(oid)
  <2>1. orders[slot].order_id = oid /\ IsOpen(orders[slot])
    BY <1>4, LeftOpenSlot
  <2>2. /\ Len(outbound') = Len(outbound) + 1 /\ outbound'[Len(outbound) + 1] = m
        /\ m.orig_cl_ord_id = oid
    BY <1>1, <1>2, <2>1
  <2>3. ASSUME NEW k \in 0..Len(outbound) PROVE CancelAfter(oid, k)'
    <3>1. Len(outbound) + 1 \in (k + 1)..Len(outbound')
      BY <1>2, <2>2
    <3> QED BY <1>1, <2>2, <3>1 DEF CancelAfter
  <2>4. ASSUME NEW k \in 1..Len(outbound'), outbound'[k].msg_type = "NewOrderSingle"
        PROVE  k \in 0..Len(outbound)
    BY <1>1, <1>2, <2>2, <2>4
  <2>5. 0 \in 0..Len(outbound)
    BY <1>2
  <2> QED BY <2>3, <2>4, <2>5 DEF LeftOpen
<1> QED BY <1>3, <1>4

-----------------------------------------------------------------------------
(* The invariant, part by part. *)

(* A process that is up was up. *)
LEMMA UpBefore ==
  ASSUME [ShutdownNext]_allvars, up'
  PROVE  up /\ ([Next]_vars \/ CancelSlot \/ FlattenSlot \/ AcceptCancel \/ RefuseCancel)
BY StepKinds DEF Down, AcceptCancel, RefuseCancel

(* No id that has left send_order() is taken back. *)
LEMMA UsedGrows ==
  ASSUME IndInv, IndInv', up', [ShutdownNext]_allvars
  PROVE  Used \in Int /\ Used' \in Int /\ Used <= Used'
<1>1. order_counter \in Nat /\ order_counter' \in Nat
  BY DEF IndInv, TypeOK
<1>2. CASE UNCHANGED <<spc, order_counter>>
  BY <1>1, <1>2 DEF Used
<1>3. CASE Strategy
  <2>1. CASE RecordOrder
    <3>1. spc = "passed" /\ spc' \in {"logged", "idle"} /\ order_counter' = order_counter + 1
      BY <2>1 DEF RecordOrder
    <3> QED BY <1>1, <3>1 DEF Used
  <2>2. CASE ProjectOrder
    <3>1. spc = "logged" /\ spc' = "booked" /\ order_counter' = order_counter
      BY <2>2 DEF ProjectOrder
    <3> QED BY <1>1, <3>1 DEF Used
  <2>3. CASE TransmitOrder
    <3>1. spc = "booked" /\ spc' = "idle" /\ order_counter' = order_counter
      BY <2>3 DEF TransmitOrder
    <3> QED BY <1>1, <3>1 DEF Used
  <2>4. CASE ~(RecordOrder \/ ProjectOrder \/ TransmitOrder)
    <3>1. /\ order_counter' = order_counter
          /\ spc \notin {"logged", "booked"} /\ spc' \notin {"logged", "booked"}
      BY <1>3, <2>4 DEF Strategy, SendOrder, CheckRisk
    <3> QED BY <1>1, <3>1 DEF Used
  <2> QED BY <2>1, <2>2, <2>3, <2>4
<1>4. CASE IOThread \/ Exchange \/ UNCHANGED vars
  BY <1>2, <1>4 DEF IOThread, Logon, Logout, DropReport, TakeReport, LogReport, TrackReport,
                    ProjectReport, Exchange, AcceptOrder, RefuseOrder, Trade, CancelOrder, ExpireOrder, vars,
                    strategy
<1>5. CASE Process
  BY <1>5, UpBefore DEF Process, Crash, TerminateLogFull, Restart, Down
<1>6. CASE CancelSlot \/ FlattenSlot \/ AcceptCancel \/ RefuseCancel
  BY <1>2, <1>6 DEF CancelSlot, FlattenSlot, NextSlot, AcceptCancel, RefuseCancel, strategy
<1> QED BY <1>3, <1>4, <1>5, <1>6, UpBefore DEF Next

(* The ids and the orders of a life of the process. *)
LEMMA LifeStep ==
  ASSUME KillIds, IndInv, IndInv', Control, IdsIssued, OrdersKnown, KillIdsFresh, CounterFits,
         CounterFits', up', [ShutdownNext]_allvars
  PROVE  IdsIssued' /\ OrdersKnown'
<1>1. up /\ OneLife /\ SlotForAll /\ SlotForAll'
  BY UpBefore DEF CounterFits, OneLife, SlotForAll
<1>2. CASE [Next]_vars
  BY <1>1, <1>2, NextIdsIssued, NextOrdersKnown
<1>3. CASE CancelSlot
  <2> DEFINE m == ToCancelRequest(orders[slot], CancelId(count + 1))
  <2>1. /\ m \in Messages /\ m.cl_ord_id = CancelId(count + 1) /\ m.msg_type = "OrderCancelRequest"
        /\ m.cl_ord_id \in OrderIds /\ kpc = "cancelling"
        /\ outbound' \in {outbound, Append(outbound, m)}
        /\ UNCHANGED <<positions, orders, log, up, connected, order_counter, strategy, io, inbound,
                       book, crashes>>
    BY <1>3, CancelSlotSends DEF Messages, CancelRequests
  <2> HIDE DEF m
  <2>2. CASE outbound' = outbound
    <3>1. UNCHANGED vars
      BY <2>1, <2>2 DEF vars, exchange
    <3> QED BY <1>2, <3>1
  <2>3. CASE outbound' = Append(outbound, m)
    <3>1. Fresh(m.cl_ord_id)
      <4>1. count + 1 \in Nat /\ count + 1 > count
        BY DEF Control
      <4> QED BY <1>1, <2>1, <4>1 DEF KillIdsFresh, ToCome
    <3>2. m.cl_ord_id[1] # "ORD"
      BY <2>1 DEF CancelId
    <3> QED BY <2>1, <2>3, <3>1, <3>2, SentKnown
  <2> QED BY <2>1, <2>2, <2>3
<1>4. CASE FlattenSlot
  <2> DEFINE m == ClosingOrder(positions[slot], count + 1)
  <2>1. /\ m \in Messages /\ m.cl_ord_id = FlatId(count + 1) /\ m.cl_ord_id \in OrderIds
        /\ kpc = "flattening" /\ \/ outbound' = outbound
                                 \/ outbound' = Append(outbound, m) /\ m.order_qty # 0
        /\ UNCHANGED <<positions, orders, log, up, connected, order_counter, strategy, io, inbound,
                       book, crashes>>
    BY <1>4, FlattenSlotSends DEF Messages, Singles
  <2> HIDE DEF m
  <2>2. CASE outbound' = outbound
    <3>1. UNCHANGED vars
      BY <2>1, <2>2 DEF vars, exchange
    <3> QED BY <1>2, <3>1
  <2>3. CASE outbound' = Append(outbound, m) /\ m.order_qty # 0
    <3>1. Fresh(m.cl_ord_id)
      <4>1. count + 1 \in Nat /\ count + 1 > count
        BY DEF Control
      <4> QED BY <1>1, <2>1, <4>1 DEF KillIdsFresh, ToCome
    <3>2. m.cl_ord_id[1] # "ORD"
      BY <2>1 DEF FlatId
    <3> QED BY <2>1, <2>3, <3>1, <3>2, SentKnown
  <2> QED BY <2>1, <2>2, <2>3
<1>5. CASE AcceptCancel \/ RefuseCancel
  BY <1>1, <1>5, AnswerKnown
<1> QED BY <1>2, <1>3, <1>4, <1>5, UpBefore

(* The ids the killswitch has still to give out stay unknown. *)
LEMMA FreshStep ==
  ASSUME ~ResetOnLogon, KillIds, IndInv, Control, up => IdsIssued, KillIdsFresh, [ShutdownNext]_allvars
  PROVE  KillIdsFresh'
<1> SUFFICES ASSUME up', NEW x \in OrderIds, ToCome(x)' PROVE Fresh(x)'
  BY DEF KillIdsFresh
<1>1. up
  BY UpBefore
<1>2. /\ ToCome(x) /\ x[1] # "ORD"
      /\ \A m : CancelSent(m) \/ ClosingSent(m) => m.cl_ord_id # x
  BY ToComeBefore
<1>3. Fresh(x)
  BY <1>1, <1>2 DEF KillIdsFresh
<1> QED BY <1>2, <1>3, FreshStays

(* Until flatten() begins, only send_order() makes orders. *)
LEMMA OrdOnlyStep ==
  ASSUME KillIds, IndInv, Control, up => IdsIssued, NoFlattenOrder, [ShutdownNext]_allvars
  PROVE  NoFlattenOrder'
<1> SUFFICES ASSUME up', kpc' \notin {"flattening", "flattened"} PROVE OrdOnly'
  BY DEF NoFlattenOrder
<1>1. up
  BY UpBefore
<1>2. kpc \notin {"flattening", "flattened"}
  BY DEF ShutdownNext, RunStrategy, RunIO, RunExchange, SignalCancels, CallFlatten,
         BeginCancelAll, BeginFlatten, RunKillswitch, KillStep, CancelSlot, FlattenSlot,
         NextSlot, EndLoop, LeaveLoop, Exit, Fatal, Terminate, AcceptCancel, RefuseCancel, allvars,
         kvars, Control
<1>3. OrdOnly
  BY <1>1, <1>2 DEF NoFlattenOrder
<1>4. CASE [Next]_vars
  BY <1>1, <1>3, <1>4, NextOrdOnly
<1>5. CASE CancelSlot
  <2> DEFINE m == ToCancelRequest(orders[slot], CancelId(count + 1))
  <2>1. /\ m.msg_type = "OrderCancelRequest" /\ book' = book
        /\ outbound' \in {outbound, Append(outbound, m)}
    BY <1>5, CancelSlotSends
  <2> HIDE DEF m
  <2>2. outbound \in Seq(Messages)
    BY DEF IndInv
  <2>3. \A k \in 1..Len(outbound') : \/ outbound'[k] = m
                                     \/ k \in 1..Len(outbound) /\ outbound'[k] = outbound[k]
    BY <2>1, <2>2
  <2> QED BY <1>3, <2>1, <2>3 DEF OrdOnly
<1>6. CASE FlattenSlot
  BY <1>2, <1>6 DEF FlattenSlot
<1>7. CASE AcceptCancel \/ RefuseCancel
  <2>1. /\ \A k \in 1..Len(outbound') : k + 1 \in 1..Len(outbound) /\ outbound'[k] = outbound[k + 1]
        /\ \A id \in OrderIds : \/ book'[id] = book[id]
                                \/ book[id].state = "Live" /\ book'[id].state = "Cancelled"
    BY <1>7, CancelAnswered, Zenon
  <2> QED BY <1>3, <2>1 DEF OrdOnly
<1> QED BY <1>4, <1>5, <1>6, <1>7, UpBefore

(* The slot of an order stays where it is. *)
LEMMA SlotStays ==
  ASSUME IndInv, IdsIssued, OneLife, up', [ShutdownNext]_allvars, NEW oid, Issued(oid, Used),
         FindOrder(orders, oid) # 0
  PROVE  FindOrder(orders', oid) = FindOrder(orders, oid)
<1>1. orders \in OrderTable
  BY DEF IndInv, TypeOK, OrderTable
<1>2. CASE orders' = orders
  BY <1>2
<1>3. CASE ProjectOrder
  <2>1. spc = "logged" /\ orders' = BookOrder(orders, req)
    BY <1>3 DEF ProjectOrder
  <2>2. oid # req.order_id /\ req \in Events
    BY <2>1, RequestIsOther, RequestAtHand
  <2> QED BY <1>1, <2>1, <2>2, BookOrderOther
<1>4. CASE ProjectReport
  <2>1. ipc = "tracked" /\ orders' = BookOrder(orders, ievt)
    BY <1>4 DEF ProjectReport
  <2>2. ievt \in Events /\ ievt.type # "NewOrder"
    BY <2>1, ReportInHand
  <2>3. CASE oid = ievt.order_id
    BY <1>1, <2>1, <2>2, <2>3, BookOrderKnown
  <2>4. CASE oid # ievt.order_id
    BY <1>1, <2>1, <2>2, <2>4, BookOrderOther
  <2> QED BY <2>3, <2>4
<1>5. CASE Next
  BY <1>2, <1>3, <1>4, <1>5, UpBefore
     DEF Next, Strategy, SendOrder, CheckRisk, RecordOrder, TransmitOrder, IOThread, Logon, Logout,
         DropReport, TakeReport, LogReport, TrackReport, Process, Crash, TerminateLogFull, Restart,
         Down, Exchange, AcceptOrder, RefuseOrder, Trade, CancelOrder, ExpireOrder
<1>6. CASE UNCHANGED vars \/ CancelSlot \/ FlattenSlot \/ AcceptCancel \/ RefuseCancel
  BY <1>2, <1>6 DEF vars, CancelSlot, FlattenSlot, NextSlot, AcceptCancel, RefuseCancel
<1> QED BY <1>5, <1>6, UpBefore

(* What a step does to the killswitch: nothing, the begin of cancel_all(), *)
(* of flatten(), a turn of either, or its end.                             *)
LEMMA KillKinds ==
  ASSUME Control, [ShutdownNext]_allvars
  PROVE  \/ UNCHANGED <<kpc, slot, targets>>
         \/ up /\ kpc = "idle" /\ kpc' = "cancelling" /\ slot' = 1 /\ targets' = Reached /\ UNCHANGED vars
         \/ up /\ kpc = "idle" /\ kpc' = "hung" /\ targets' = Reached /\ UNCHANGED vars
         \/ kpc = "cancelled" /\ kpc' = "flattening" /\ targets' = targets /\ UNCHANGED vars
         \/ kpc = "cancelling" /\ kpc' = kpc /\ targets' = targets /\ CancelSlot
         \/ kpc = "flattening" /\ kpc' = kpc /\ targets' = targets /\ FlattenSlot
         \/ kpc = "cancelling" /\ kpc' = "cancelled" /\ slot > Len(orders) /\ targets' = targets
         \/ kpc = "flattening" /\ kpc' = "flattened" /\ targets' = targets
<1>1. CASE \E th \in Threads : SignalCancels(th)
  BY <1>1 DEF SignalCancels, BeginCancelAll, Control
<1>3. CASE CallFlatten
  BY <1>3 DEF CallFlatten, BeginFlatten, mvars
<1>4. CASE RunKillswitch
  BY <1>4 DEF RunKillswitch, KillStep, CancelSlot, FlattenSlot, NextSlot, EndLoop, mvars
<1>5. CASE ~(RunKillswitch \/ CallFlatten \/ \E th \in Threads : SignalCancels(th))
  BY <1>5 DEF ShutdownNext, RunStrategy, RunIO, RunExchange, LeaveLoop, Exit, Fatal,
              Terminate, AcceptCancel, RefuseCancel, allvars, kvars, mvars
<1> QED BY <1>1, <1>3, <1>4, <1>5

(* The orders cancel_all() has to reach stay known to it. *)
LEMMA TargetsStep ==
  ASSUME ~ResetOnLogon, KillIds, CounterFits, ShutInv, IndInv', [ShutdownNext]_allvars
  PROVE  TargetsKnown'
<1>0. /\ IndInv /\ Control /\ (up => IdsIssued /\ OrdersKnown /\ OneLife) /\ TargetsKnown
      /\ targets \in SUBSET OrderIds
  BY DEF ShutInv, CounterFits, OneLife, Control
<1>1. ASSUME NEW oid, oid \in OrderIds, up' => Issued(oid, Used), NEW m, OrderSent(m), up'
      PROVE  m.cl_ord_id # oid
  <2>1. spc = "booked" /\ m.cl_ord_id = req.order_id
    BY <1>1 DEF OrderSent, TransmitOrder
  <2>2. up /\ Issued(oid, Used)
    BY <1>1, UpBefore
  <2> QED BY <1>0, <2>1, <2>2, RequestIsOther
<1>2. ASSUME NEW oid \in targets PROVE oid[1] = "ORD" /\ oid \in OrderIds /\ (up => Issued(oid, Used))
  BY <1>0 DEF TargetsKnown
<1>3. ASSUME NEW oid \in targets, LeftOpen(oid)' PROVE LeftOpen(oid)
  <2>1. ASSUME NEW m, OrderSent(m) PROVE m.cl_ord_id # oid
    <3>1. up /\ up'
      BY <1>0, <2>1 DEF OrderSent, RunStrategy, TransmitOrder, Control
    <3> QED BY <1>1, <1>2, <2>1, <3>1
  <2> QED BY <1>0, <1>2, <1>3, <2>1, LeftOpenStays
<1>4. \A oid \in targets' : oid[1] = "ORD" /\ (up' => Issued(oid, Used'))
  <2>1. CASE targets' = targets
    <3> SUFFICES ASSUME NEW oid \in targets, up' PROVE Issued(oid, Used')
      BY <1>2, <2>1
    <3>1. up /\ Used \in Int /\ Used' \in Int /\ Used <= Used'
      BY <1>0, UpBefore, UsedGrows
    <3> QED BY <1>2, <3>1, IssuedStays
  <2>2. CASE up /\ kpc = "idle" /\ targets' = Reached /\ UNCHANGED vars
    <3>1. OrdOnly /\ IdsIssued /\ Used' = Used
      BY <1>0, <2>2 DEF ShutInv, NoFlattenOrder, vars, strategy, Used
    <3>2. ASSUME NEW oid \in Reached PROVE oid[1] = "ORD" /\ Issued(oid, Used)
      BY <3>1 DEF Reached, OnItsWay, OrdOnly, IdsIssued
    <3> QED BY <2>2, <3>1, <3>2
  <2> QED BY <1>0, <2>1, <2>2, KillKinds
<1>5. ASSUME up', kpc' = "cancelling", NEW oid \in targets', LeftOpen(oid)'
      PROVE  FindOrder(orders', oid) >= slot'
  <2>0. up /\ orders \in Seq(Order)
    BY <1>0, <1>5, UpBefore DEF IndInv, TypeOK
  <2>1. CASE kpc = "idle" /\ slot' = 1 /\ targets' = Reached /\ UNCHANGED vars
    <3>1. oid \in OrderIds /\ oid[1] = "ORD" /\ (book[oid].state = "Live" \/ OnItsWay(oid))
      BY <1>4, <1>5, <2>1 DEF Reached
    <3>2. FindOrder(orders, oid) \in 1..Len(orders)
      BY <1>0, <2>0, <3>1, LeftOpenSlot
    <3>3. orders' = orders /\ Len(orders) \in Nat
      BY <2>0, <2>1 DEF vars
    <3> QED BY <2>1, <3>2, <3>3
  <2>2. CASE kpc = "cancelling" /\ targets' = targets
    <3>1. oid \in targets /\ oid \in OrderIds /\ oid[1] = "ORD" /\ Issued(oid, Used) /\ LeftOpen(oid)
      BY <1>2, <1>3, <1>5, <2>0, <2>2
    <3>2. FindOrder(orders, oid) >= slot /\ slot \in Nat
      BY <1>0, <2>0, <2>2, <3>1 DEF TargetsKnown, Control
    <3>3. FindOrder(orders, oid) \in 1..Len(orders)
      BY <1>0, <2>0, <3>1, LeftOpenSlot DEF LeftOpen, OnItsWay
    <3>4. FindOrder(orders', oid) = FindOrder(orders, oid)
      BY <1>0, <1>5, <2>0, <3>1, <3>3, SlotStays
    <3>5. CASE slot' = slot
      BY <3>2, <3>4, <3>5
    <3>6. CASE CancelSlot
      <4>1. FindOrder(orders, oid) # slot
        BY <1>0, <1>5, <2>0, <3>1, <3>6, CancelSlotCovers
      <4>2. slot' = slot + 1
        BY <3>6 DEF CancelSlot, NextSlot
      <4> QED BY <2>0, <3>2, <3>3, <3>4, <4>1, <4>2
    <3> QED BY <1>0, <1>5, <2>2, <3>5, <3>6, KillKinds
  <2> QED BY <1>0, <1>5, <2>1, <2>2, KillKinds
<1>6. ASSUME kpc' \in {"cancelled", "flattening", "flattened"}, NEW oid \in targets', LeftOpen(oid)'
      PROVE  FALSE
  <2>1. CASE kpc \in {"cancelled", "flattening", "flattened"} /\ targets' = targets
    BY <1>0, <1>3, <1>6, <2>1 DEF TargetsKnown
  <2>2. CASE kpc = "cancelling" /\ kpc' = "cancelled" /\ slot > Len(orders) /\ targets' = targets
    <3>1. up
      BY <1>0, <2>2 DEF ShutdownNext, RunStrategy, RunIO, RunExchange, SignalCancels, BeginCancelAll,
                        CallFlatten, BeginFlatten, RunKillswitch,
                        LeaveLoop, Exit, Fatal, Terminate, AcceptCancel, RefuseCancel, allvars, kvars
    <3>2. oid \in targets /\ oid \in OrderIds /\ oid[1] = "ORD" /\ LeftOpen(oid)
      BY <1>2, <1>3, <1>6, <2>2
    <3>3. FindOrder(orders, oid) >= slot /\ slot \in Nat
      BY <1>0, <2>2, <3>1, <3>2 DEF TargetsKnown, Control
    <3>4. FindOrder(orders, oid) \in 1..Len(orders)
      BY <1>0, <3>1, <3>2, LeftOpenSlot DEF LeftOpen, OnItsWay
    <3>5. Len(orders) \in Nat
      BY <1>0 DEF IndInv, TypeOK
    <3> QED BY <2>2, <3>3, <3>4, <3>5
  <2> QED BY <1>0, <1>6, <2>1, <2>2, KillKinds
<1> QED BY <1>4, <1>5, <1>6 DEF TargetsKnown

(* A session that has just started. *)
LEMMA InitShutInv == ShutdownInit => ShutInv
<1> SUFFICES ASSUME ShutdownInit PROVE ShutInv
  OBVIOUS
<1>1. /\ Init /\ kpc = "idle" /\ slot = 1 /\ count = 0
      /\ g_shutdown = FALSE /\ mpc = "loop" /\ targets = {}
  BY DEF ShutdownInit, InitKillswitch
<1>2. IndInv /\ IdsIssued /\ OrdersKnown /\ OrdOnly
  BY <1>1, InitIndInv, InitLife, InitOrdersKnown, InitOrdOnly
<1>3. up /\ outbound = << >> /\ inbound = << >> /\ \A x \in OrderIds : book[x].state = "None"
  BY <1>1 DEF Init
<1>4. Control
  BY <1>1, <1>3 DEF Control
<1>5. KillIdsFresh
  BY <1>3 DEF KillIdsFresh, Fresh, Unreported
<1>6. NoFlattenOrder /\ TargetsKnown
  BY <1>1, <1>2 DEF NoFlattenOrder, TargetsKnown
<1> QED BY <1>2, <1>4, <1>5, <1>6 DEF ShutInv

(* Every step keeps the invariant. *)
LEMMA NextShutInv ==
  ASSUME ~ResetOnLogon, KillIds, CounterFits, CounterFits', ShutInv, [ShutdownNext]_allvars
  PROVE  ShutInv'
<1>1. IndInv /\ Control /\ (up => IdsIssued /\ OrdersKnown) /\ KillIdsFresh /\ NoFlattenOrder
  BY DEF ShutInv
<1>2. IndInv' /\ Control'
  BY <1>1, ShutdownIndInv, ControlStep
<1>3. up' => (IdsIssued /\ OrdersKnown)'
  BY <1>1, <1>2, LifeStep, UpBefore
<1>4. KillIdsFresh' /\ NoFlattenOrder'
  BY <1>1, FreshStep, OrdOnlyStep
<1>5. TargetsKnown'
  BY <1>2, TargetsStep
<1> QED BY <1>2, <1>3, <1>4, <1>5 DEF ShutInv

(* What the invariant says of the orders that were sent. *)
LEMMA ShutInvCovers ==
  ASSUME ShutInv
  PROVE  CancelsCover
BY DEF ShutInv, TargetsKnown, CancelsCover

-----------------------------------------------------------------------------
(* Killswitch.h: cancel_all() "sends OrderCancelRequest for every open     *)
(* order".  As long as the process has issued no more ids than it has      *)
(* slots for and than fit an event's field, and no logon resets the        *)
(* session: whichever thread the killswitch runs on, and whatever the      *)
(* other books, receives or sends while it walks the slots, no order that  *)
(* was sent before it began is open without a cancel behind it when it     *)
(* has ended.                                                              *)
THEOREM ShutdownCancelsCover ==
  ASSUME ~ResetOnLogon, KillIds
  PROVE  ShutdownSpec /\ []CounterFits => []CancelsCover
<1>1. ShutdownInit => ShutInv
  BY InitShutInv
<1>2. CounterFits /\ CounterFits' /\ ShutInv /\ [ShutdownNext]_allvars => ShutInv'
  BY NextShutInv
<1>3. ShutInv => CancelsCover
  BY ShutInvCovers
<1> QED BY <1>1, <1>2, <1>3, PTL DEF ShutdownSpec

-----------------------------------------------------------------------------
(***************************************************************************)
(* flatten() never turns a long position round.  The argument is about the *)
(* worst that can come of what is under way: every sell that is live or on *)
(* its way trades in full, and no buy does.                                *)
(***************************************************************************)

(* What an order leaves of the account at worst. *)
FloorAt(b) ==
  IF b.side = "Buy" THEN b.filled ELSE IF b.state = "Live" THEN -b.qty ELSE -b.filled

Floors(bk) == [oid \in OrderIds |-> FloorAt(bk[oid])]

(* What a message on its way takes from it at worst, and what it is to     *)
(* sell.                                                                   *)
SellOf(m, sym) ==
  IF m.msg_type = "NewOrderSingle" /\ m.symbol = sym /\ m.side = "Sell" THEN -m.order_qty ELSE 0

SellsOut(out, sym) == [k \in 1..Len(out) |-> SellOf(out[k], sym)]

SoldOf(m, sym) ==
  IF m.msg_type = "NewOrderSingle" /\ m.symbol = sym /\ m.side = "Sell" THEN m.order_qty ELSE 0

SoldOut(out, sym) == [k \in 1..Len(out) |-> SoldOf(out[k], sym)]

WorstOf(bk, out, sym) == SetSum(Floors(bk), OrdersOf(bk, sym)) + SumOf(SellsOut(out, sym))

(* An order at the exchange trades at most its quantity; one it has not    *)
(* got has not traded.                                                     *)
BookSound ==
  \A oid \in OrderIds : /\ book[oid].state = "None" => book[oid].filled = 0
                        /\ book[oid].state # "None" => book[oid].filled <= book[oid].qty

(* Nobody sells the symbol. *)
NoSells(sym) ==
  /\ \A k \in 1..Len(outbound) :
       outbound[k].msg_type = "NewOrderSingle" /\ outbound[k].symbol = sym => outbound[k].side = "Buy"
  /\ \A oid \in OrderIds :
       book[oid].state # "None" /\ book[oid].symbol = sym => book[oid].side = "Buy"

(* flatten() has not been at the symbol's slot. *)
Ahead(sym) ==
  \/ kpc \notin {"flattening", "flattened"}
  \/ kpc = "flattening" /\ \A i \in 1..Len(positions) : positions[i].symbol = sym => i >= slot

(* Why a long position is not turned round: only flatten() sells, each     *)
(* symbol once and no more than the exchange has traded.                   *)
FlattenInv ==
  /\ spc # "idle" => req.side = "Buy"
  /\ BookSound
  /\ up => Reconciles /\ \A sym \in Symbols : Ahead(sym) => NoSells(sym)
  /\ \A sym \in Symbols : WorstOf(book, outbound, sym) >= 0

(* The terms of those sums are integers. *)
LEMMA FloorType ==
  ASSUME NEW b \in BookEntry
  PROVE  /\ FloorAt(b) \in Int /\ b.filled \in Nat /\ b.qty \in Nat /\ b.side \in Sides
         /\ b.filled = 0 /\ b.state # "Live" => FloorAt(b) = 0
<1>1. b.filled \in Nat /\ b.qty \in Nat /\ b.side \in Sides
  BY DEF BookEntry
<1>2. FloorAt(b) \in Int
  BY <1>1 DEF FloorAt
<1>3. ASSUME b.filled = 0, b.state # "Live" PROVE FloorAt(b) = 0
  <2>1. FloorAt(b) = Signed(b.side, b.filled)
    BY <1>3 DEF FloorAt, Signed
  <2> QED BY <1>3, <2>1, SignedZero
<1> QED BY <1>1, <1>2, <1>3

(* What an order the exchange has comes to, it leaves no less. *)
LEMMA FloorRises ==
  ASSUME NEW b \in BookEntry, NEW c \in BookEntry, b.state = "Live", GoesOn(b, c),
         b.filled <= b.qty
  PROVE  FloorAt(b) <= FloorAt(c) /\ c.filled <= c.qty
<1>1. /\ b.filled \in Nat /\ b.qty \in Nat /\ c.filled \in Nat /\ c.qty \in Nat
      /\ FloorAt(b) \in Int /\ FloorAt(c) \in Int
  BY FloorType
<1>2. /\ c.side = b.side /\ c.qty = b.qty /\ c.filled >= b.filled /\ c.filled <= c.qty
  BY <1>1 DEF GoesOn
<1>3. FloorAt(b) <= FloorAt(c)
  BY <1>1, <1>2 DEF FloorAt
<1> QED BY <1>2, <1>3

(* A sell takes what it sells, and nothing else takes anything. *)
LEMMA SellType ==
  ASSUME NEW m \in Messages, NEW sym
  PROVE  /\ SellOf(m, sym) \in Int /\ SoldOf(m, sym) \in Int
         /\ SellOf(m, sym) <= 0 /\ SellOf(m, sym) + SoldOf(m, sym) = 0
         /\ m.msg_type # "NewOrderSingle" \/ m.symbol # sym \/ m.side # "Sell" => SellOf(m, sym) = 0
<1>1. m.msg_type = "NewOrderSingle" => m.order_qty \in Nat
  BY DEF Messages, Singles, CancelRequests
<1>2. CASE m.msg_type = "NewOrderSingle" /\ m.symbol = sym /\ m.side = "Sell"
  <2> DEFINE q == m.order_qty
  <2>1. q \in Nat /\ SellOf(m, sym) = -q /\ SoldOf(m, sym) = q
    BY <1>1, <1>2 DEF SellOf, SoldOf
  <2> HIDE DEF q
  <2> QED BY <1>2, <2>1
<1>3. CASE ~(m.msg_type = "NewOrderSingle" /\ m.symbol = sym /\ m.side = "Sell")
  <2>1. SellOf(m, sym) = 0 /\ SoldOf(m, sym) = 0
    BY <1>3 DEF SellOf, SoldOf
  <2> QED BY <2>1
<1> QED BY <1>2, <1>3

(* The messages on their way, as sequences of integers. *)
LEMMA OutType ==
  ASSUME NEW out \in Seq(Messages), NEW sym
  PROVE  /\ SellsOut(out, sym) \in Seq(Int) /\ SoldOut(out, sym) \in Seq(Int)
         /\ Len(SellsOut(out, sym)) = Len(out) /\ Len(SoldOut(out, sym)) = Len(out)
         /\ \A k \in 1..Len(out) : /\ SellsOut(out, sym)[k] = SellOf(out[k], sym)
                                   /\ SoldOut(out, sym)[k] = SoldOf(out[k], sym)
         /\ SumOf(SellsOut(out, sym)) \in Int /\ SumOf(SoldOut(out, sym)) \in Int
<1>1. Len(out) \in Nat /\ \A k \in 1..Len(out) : out[k] \in Messages
  OBVIOUS
<1>2. \A k \in 1..Len(out) : SellOf(out[k], sym) \in Int /\ SoldOf(out[k], sym) \in Int
  BY <1>1, SellType
<1>3. /\ SellsOut(out, sym) \in Seq(Int) /\ Len(SellsOut(out, sym)) = Len(out)
      /\ \A k \in 1..Len(out) : SellsOut(out, sym)[k] = SellOf(out[k], sym)
  BY <1>1, <1>2 DEF SellsOut
<1>4. /\ SoldOut(out, sym) \in Seq(Int) /\ Len(SoldOut(out, sym)) = Len(out)
      /\ \A k \in 1..Len(out) : SoldOut(out, sym)[k] = SoldOf(out[k], sym)
  BY <1>1, <1>2 DEF SoldOut
<1> QED BY <1>3, <1>4, SumType

(* One message more. *)
LEMMA SellsAppend ==
  ASSUME NEW out \in Seq(Messages), NEW m \in Messages, NEW sym
  PROVE  SumOf(SellsOut(Append(out, m), sym)) = SumOf(SellsOut(out, sym)) + SellOf(m, sym)
<1> DEFINE v == SellsOut(out, sym)
           x == SellOf(m, sym)
<1>1. v \in Seq(Int) /\ Len(v) = Len(out) /\ x \in Int
  BY OutType, SellType
<1>2. SellsOut(Append(out, m), sym) = Append(v, x)
  <2>1. /\ Len(Append(out, m)) = Len(out) + 1 /\ Len(out) \in Nat
        /\ \A i \in 1..(Len(out) + 1) : Append(out, m)[i] = IF i = Len(out) + 1 THEN m ELSE out[i]
    OBVIOUS
  <2>2. \A i \in 1..Len(out) : v[i] = SellOf(out[i], sym)
    BY OutType
  <2>3. Append(v, x) = [i \in 1..(Len(out) + 1) |-> IF i = Len(out) + 1 THEN x ELSE v[i]]
    BY <1>1 DEF SellsOut
  <2> HIDE DEF v
  <2> QED BY <2>1, <2>2, <2>3 DEF SellsOut
<1> HIDE DEF v, x
<1>3. SumOf(Append(v, x)) = SumOf(v) + x
  BY <1>1, SumAppend
<1> QED BY <1>2, <1>3 DEF v, x

(* One message less. *)
LEMMA SellsTail ==
  ASSUME NEW out \in Seq(Messages), out # << >>, NEW sym
  PROVE  SumOf(SellsOut(out, sym)) = SellOf(Head(out), sym) + SumOf(SellsOut(Tail(out), sym))
<1> DEFINE v == SellsOut(out, sym)
<1>1. v \in Seq(Int) /\ Len(v) = Len(out) /\ \A i \in 1..Len(out) : v[i] = SellOf(out[i], sym)
  BY OutType
<1>2. /\ Head(out) = out[1] /\ 1 \in 1..Len(out) /\ Len(out) \in Nat /\ Len(Tail(out)) = Len(out) - 1
      /\ \A i \in 1..(Len(out) - 1) : Tail(out)[i] = out[i + 1]
  OBVIOUS
<1>3. v # << >> /\ v[1] = SellOf(Head(out), sym)
  BY <1>1, <1>2
<1>4. SellsOut(Tail(out), sym) = Tail(v)
  <2>1. Tail(v) = [i \in 1..(Len(out) - 1) |-> v[i + 1]]
    BY <1>1, <1>3 DEF SellsOut
  <2> HIDE DEF v
  <2>2. \A i \in 1..(Len(out) - 1) : v[i + 1] = SellOf(Tail(out)[i], sym)
    BY <1>1, <1>2
  <2> QED BY <1>2, <2>1, <2>2 DEF SellsOut
<1>5. SumOf(v) = v[1] + SumOf(Tail(v))
  BY <1>1, <1>3, SumTail
<1> QED BY <1>3, <1>4, <1>5 DEF v

(* A change of one order in the book. *)
LEMMA FloorsMove ==
  ASSUME IsFiniteSet(OrderIds), NEW bk \in Books, NEW bl \in Books, NEW x \in OrderIds,
         \A id \in OrderIds : id # x => bl[id] = bk[id], NEW sym
  PROVE  LET a == SetSum(Floors(bk), OrdersOf(bk, sym))
             b == SetSum(Floors(bl), OrdersOf(bl, sym))
         IN  /\ a \in Int /\ b \in Int
             /\ a - (IF bk[x].symbol = sym THEN FloorAt(bk[x]) ELSE 0)
                  = b - (IF bl[x].symbol = sym THEN FloorAt(bl[x]) ELSE 0)
<1> DEFINE S == OrdersOf(bk, sym)
           R == OrdersOf(bl, sym)
           f == Floors(bk)
           g == Floors(bl)
<1>1. IsFiniteSet(S) /\ IsFiniteSet(R) /\ S \subseteq OrderIds /\ R \subseteq OrderIds
  BY FS_Subset DEF OrdersOf
<1>2. ASSUME NEW y \in OrderIds
      PROVE  f[y] = FloorAt(bk[y]) /\ g[y] = FloorAt(bl[y]) /\ f[y] \in Int /\ g[y] \in Int
  <2>1. f[y] = FloorAt(bk[y]) /\ g[y] = FloorAt(bl[y]) /\ bk[y] \in BookEntry /\ bl[y] \in BookEntry
    BY DEF Floors, Books
  <2> QED BY <2>1, FloorType
<1>3. S \ {x} = R \ {x}
  BY DEF OrdersOf
<1>4. \A y \in S \ {x} : f[y] = g[y]
  BY <1>1, <1>2
<1>5. (x \in S <=> bk[x].symbol = sym) /\ (x \in R <=> bl[x].symbol = sym)
  BY DEF OrdersOf
<1>6. \A y \in S : f[y] \in Int
  BY <1>1, <1>2
<1>7. \A y \in R : g[y] \in Int
  BY <1>1, <1>2
<1>8. f[x] = FloorAt(bk[x]) /\ g[x] = FloorAt(bl[x])
  BY <1>2
<1> HIDE DEF S, R, f, g
<1>9. OneTermApart(S, R, x, f, g)
  BY <1>1, <1>3, <1>4, <1>6, <1>7 DEF OneTermApart
<1>10. /\ SetSum(f, S) \in Int /\ SetSum(g, R) \in Int
       /\ SetSum(f, S) - TermOf(f, S, x) = SetSum(g, R) - TermOf(g, R, x)
  BY <1>9, SetSumOneTerm
<1> QED BY <1>5, <1>8, <1>10 DEF TermOf, S, R, f, g

(* Orders that go on leave no less. *)
LEMMA FloorsRise ==
  ASSUME IsFiniteSet(OrderIds), NEW bk \in Books, NEW bl \in Books, NEW sym,
         \A id \in OrderIds : \/ bl[id] = bk[id]
                              \/ /\ bk[id].state = "Live" /\ bk[id].filled <= bk[id].qty
                                 /\ GoesOn(bk[id], bl[id])
  PROVE  LET a == SetSum(Floors(bk), OrdersOf(bk, sym))
             b == SetSum(Floors(bl), OrdersOf(bl, sym))
         IN  a \in Int /\ b \in Int /\ a <= b
<1> DEFINE S == OrdersOf(bk, sym)
           f == Floors(bk)
           g == Floors(bl)
<1>1. IsFiniteSet(S) /\ S \subseteq OrderIds
  BY FS_Subset DEF OrdersOf
<1>2. OrdersOf(bl, sym) = S
  BY DEF OrdersOf, GoesOn
<1>3. ASSUME NEW y \in OrderIds
      PROVE  f[y] \in Int /\ g[y] \in Int /\ f[y] <= g[y]
  <2>1. f[y] = FloorAt(bk[y]) /\ g[y] = FloorAt(bl[y]) /\ bk[y] \in BookEntry /\ bl[y] \in BookEntry
    BY DEF Floors, Books
  <2>2. FloorAt(bk[y]) \in Int /\ FloorAt(bl[y]) \in Int
    BY <2>1, FloorType
  <2>3. CASE bl[y] = bk[y]
    BY <2>1, <2>2, <2>3
  <2>4. CASE bl[y] # bk[y]
    <3>1. FloorAt(bk[y]) <= FloorAt(bl[y])
      BY <2>1, <2>4, FloorRises
    <3> QED BY <2>1, <2>2, <3>1
  <2> QED BY <2>3, <2>4
<1>4. \A y \in S : f[y] \in Int /\ g[y] \in Int /\ f[y] <= g[y]
  BY <1>1, <1>3
<1> HIDE DEF S, f, g
<1> QED BY <1>1, <1>2, <1>4, SetSumLess DEF S, f, g

(* The sums of the worst case. *)
LEMMA WorstType ==
  ASSUME IsFiniteSet(OrderIds), NEW bk \in Books, NEW out \in Seq(Messages), NEW sym
  PROVE  /\ SetSum(Floors(bk), OrdersOf(bk, sym)) \in Int /\ SumOf(SellsOut(out, sym)) \in Int
         /\ WorstOf(bk, out, sym) = SetSum(Floors(bk), OrdersOf(bk, sym)) + SumOf(SellsOut(out, sym))
         /\ WorstOf(bk, out, sym) \in Int
<1>1. SetSum(Floors(bk), OrdersOf(bk, sym)) \in Int
  BY FloorsRise
<1>2. SumOf(SellsOut(out, sym)) \in Int
  BY OutType
<1> QED BY <1>1, <1>2 DEF WorstOf

(* The exchange takes an order: what it may trade was counted before. *)
LEMMA WorstTaken ==
  ASSUME IsFiniteSet(OrderIds), IndInv, IndInv', BookSound, NEW r \in ExecutionReports, TakesOrder(r),
         NEW sym
  PROVE  WorstOf(book', outbound', sym) >= WorstOf(book, outbound, sym)
<1> DEFINE o == Head(outbound)
           t == Tail(outbound)
           x == o.cl_ord_id
           a == SetSum(Floors(book), OrdersOf(book, sym))
           b == SetSum(Floors(book'), OrdersOf(book', sym))
           s == SumOf(SellsOut(t, sym))
           d == SellOf(o, sym)
<1>1. /\ outbound # << >> /\ outbound' = t /\ r.cl_ord_id = x /\ o.msg_type = "NewOrderSingle"
      /\ AcceptOrder \/ RefuseOrder
      /\ \A id \in OrderIds : id # x => book'[id] = book[id]
  BY DEF TakesOrder, Answers
<1>2. /\ outbound \in Seq(Messages) /\ t \in Seq(Messages) /\ o \in Messages /\ book \in Books
      /\ book' \in Books /\ x \in OrderIds /\ o.symbol \in Symbols /\ o.side \in Sides
  <2>1. outbound \in Seq(Messages) /\ t \in Seq(Messages) /\ o \in Messages
    BY <1>1 DEF IndInv
  <2>2. o.cl_ord_id \in OrderIds /\ o.symbol \in Symbols /\ o.side \in Sides
    BY <1>1, OrdersTail
  <2>3. book \in Books /\ book' \in Books
    BY DEF IndInv, TypeOK, Books, BookEntry
  <2> QED BY <2>1, <2>2, <2>3
<1>3. /\ SumOf(SellsOut(outbound, sym)) = d + s /\ d \in Int /\ d <= 0
  BY <1>1, <1>2, SellsTail, SellType
<1>4. WorstOf(book, outbound, sym) = a + (d + s) /\ WorstOf(book', outbound', sym) = b + s
  BY <1>1, <1>2, <1>3, WorstType
<1>5. a \in Int /\ b \in Int /\ s \in Int
  BY <1>2, WorstType
<1>6. CASE RefuseOrder
  <2>1. book' = book
    BY <1>6 DEF RefuseOrder
  <2>2. b = a
    BY <2>1
  <2> HIDE DEF a, b, s, d
  <2> QED BY <1>3, <1>4, <1>5, <2>2
<1>7. CASE AcceptOrder
  <2> DEFINE c == book'[x]
  <2>1. /\ book[x].state = "None" /\ c.symbol = o.symbol /\ c.side = o.side /\ c.qty = o.order_qty
        /\ c.filled = 0 /\ c.state = "Live"
    BY <1>2, <1>7 DEF AcceptOrder, Books
  <2>2. FloorAt(book[x]) = 0
    <3>1. book[x] \in BookEntry /\ book[x].filled = 0
      BY <1>2, <2>1 DEF BookSound, Books
    <3> QED BY <2>1, <3>1, FloorType
  <2>3. (IF c.symbol = sym THEN FloorAt(c) ELSE 0) = d
    BY <1>1, <1>2, <2>1 DEF FloorAt, SellOf, Sides
  <2>4. a - (IF book[x].symbol = sym THEN FloorAt(book[x]) ELSE 0)
          = b - (IF c.symbol = sym THEN FloorAt(c) ELSE 0)
    BY <1>1, <1>2, FloorsMove
  <2> HIDE DEF a, b, s, d, c
  <2>5. a - 0 = b - d
    BY <2>2, <2>3, <2>4
  <2> QED BY <1>3, <1>4, <1>5, <2>5
<1> QED BY <1>1, <1>6, <1>7

(* As long as flatten() sends no more than the worst case leaves, no step  *)
(* makes it negative.                                                      *)
LEMMA WorstStep ==
  ASSUME ~ResetOnLogon, KillIds, IsFiniteSet(OrderIds), IndInv, IndInv', Control, up => IdsIssued,
         BookSound, spc # "idle" => req.side = "Buy", [ShutdownNext]_allvars, NEW sym,
         WorstOf(book, outbound, sym) >= 0,
         \A m \in Messages : up /\ ClosingSent(m) => WorstOf(book, outbound, sym) + SellOf(m, sym) >= 0
  PROVE  WorstOf(book', outbound', sym) >= 0
<1>0. /\ book \in Books /\ book' \in Books /\ outbound \in Seq(Messages) /\ outbound' \in Seq(Messages)
  BY DEF IndInv, TypeOK, Books, BookEntry
<1> DEFINE w == WorstOf(book, outbound, sym)
           v == WorstOf(book', outbound', sym)
<1>1. w \in Int /\ v \in Int /\ w >= 0
  BY <1>0, WorstType
<1>2. CASE Delivers
  <2>1. v = w
    BY <1>2 DEF Delivers
  <2> HIDE DEF v, w
  <2> QED BY <1>1, <2>1 DEF v
<1>3. ASSUME NEW m \in Messages, Sends(m), up, OrderSent(m) \/ CancelSent(m) \/ ClosingSent(m)
      PROVE  v >= 0
  <2> DEFINE d == SellOf(m, sym)
             a == SetSum(Floors(book), OrdersOf(book, sym))
             s == SumOf(SellsOut(outbound, sym))
  <2>1. a \in Int /\ s \in Int /\ d \in Int /\ w = a + s
    BY <1>0, WorstType, SellType
  <2>2. v = a + (s + d)
    <3>1. outbound' = Append(outbound, m) /\ book' = book
      BY <1>3 DEF Sends
    <3>2. SumOf(SellsOut(outbound', sym)) = s + d
      BY <1>0, <3>1, SellsAppend
    <3>3. WorstOf(book, outbound', sym) = a + SumOf(SellsOut(outbound', sym))
      BY <1>0, WorstType
    <3> QED BY <3>1, <3>2, <3>3
  <2>3. w + d >= 0
    <3>1. CASE OrderSent(m)
      <4>1. m.side = "Buy"
        <5>1. spc = "booked" /\ m = ToNewOrderSingle(req)
          BY <3>1 DEF OrderSent, TransmitOrder
        <5> QED BY <5>1 DEF ToNewOrderSingle
      <4>2. d = 0
        BY <4>1, SellType
      <4> HIDE DEF w, d
      <4> QED BY <1>1, <4>2
    <3>2. CASE CancelSent(m)
      <4>1. m.msg_type # "NewOrderSingle"
        BY <3>2 DEF CancelSent
      <4>2. d = 0
        BY <4>1, SellType
      <4> HIDE DEF w, d
      <4> QED BY <1>1, <4>2
    <3>3. CASE ClosingSent(m)
      BY <1>3, <3>3
    <3> QED BY <1>3, <3>1, <3>2, <3>3
  <2> HIDE DEF v, w, d, a, s
  <2> QED BY <2>1, <2>2, <2>3
<1>4. ASSUME NEW r \in ExecutionReports, TakesOrder(r) PROVE v >= 0
  <2>1. v >= w
    BY <1>4, WorstTaken
  <2> HIDE DEF v, w
  <2> QED BY <1>1, <2>1
<1>5. ASSUME NEW r \in ExecutionReports, TakesCancel(r) \/ Tells(r) PROVE v >= 0
  <2> DEFINE a == SetSum(Floors(book), OrdersOf(book, sym))
             b == SetSum(Floors(book'), OrdersOf(book', sym))
             s == SumOf(SellsOut(outbound, sym))
             q == SumOf(SellsOut(outbound', sym))
  <2>1. \A id \in OrderIds : \/ book'[id] = book[id]
                             \/ /\ book[id].state = "Live" /\ book[id].filled <= book[id].qty
                                /\ GoesOn(book[id], book'[id])
    BY <1>5 DEF TakesCancel, Tells, BookSound
  <2>2. a \in Int /\ b \in Int /\ a <= b
    BY <1>0, <2>1, FloorsRise
  <2>3. s = q
    <3>1. CASE outbound' = outbound
      BY <3>1
    <3>2. CASE TakesCancel(r)
      <4>1. /\ outbound # << >> /\ outbound' = Tail(outbound)
            /\ Head(outbound).msg_type = "OrderCancelRequest"
        BY <3>2 DEF TakesCancel, Answers
      <4>2. Head(outbound) \in Messages
        BY <1>0, <4>1
      <4>3. s = SellOf(Head(outbound), sym) + q
        BY <1>0, <4>1, SellsTail
      <4>4. SellOf(Head(outbound), sym) = 0 /\ q \in Int
        BY <1>0, <4>1, <4>2, SellType, OutType
      <4> HIDE DEF s, q
      <4> QED BY <4>3, <4>4
    <3> QED BY <1>5, <3>1, <3>2 DEF Tells
  <2>4. w = a + s /\ v = b + q /\ s \in Int
    BY <1>0, WorstType
  <2> HIDE DEF v, w, a, b, s, q
  <2> QED BY <1>1, <2>2, <2>3, <2>4
<1> QED BY <1>2, <1>3, <1>4, <1>5, Traffic

(* The exchange trades no more than it was asked for. *)
LEMMA BookSoundStep ==
  ASSUME ~ResetOnLogon, KillIds, IndInv, IndInv', Control, up => IdsIssued, BookSound,
         [ShutdownNext]_allvars
  PROVE  BookSound'
<1>0. book \in Books /\ book' \in Books
  BY DEF IndInv, TypeOK, Books, BookEntry
<1>1. CASE book' = book
  BY <1>1 DEF BookSound
<1>2. ASSUME NEW r \in ExecutionReports, TakesOrder(r), AcceptOrder PROVE BookSound'
  <2> DEFINE x == Head(outbound).cl_ord_id
  <2>1. \A id \in OrderIds : id # x => book'[id] = book[id]
    BY <1>2 DEF TakesOrder, Answers
  <2>2. x \in OrderIds => book'[x].filled = 0 /\ book'[x].qty \in Nat
    BY <1>0, <1>2 DEF AcceptOrder, Books, BookEntry
  <2> HIDE DEF x
  <2> QED BY <2>1, <2>2 DEF BookSound
<1>3. ASSUME NEW r \in ExecutionReports, TakesCancel(r) \/ Tells(r) PROVE BookSound'
  <2>1. \A id \in OrderIds : \/ book'[id] = book[id]
                             \/ /\ book[id].state = "Live" /\ GoesOn(book[id], book'[id])
                                /\ book'[id].state # "None"
    BY <1>3 DEF TakesCancel, Tells
  <2> SUFFICES ASSUME NEW id \in OrderIds, book'[id] # book[id]
               PROVE  book'[id].state # "None" /\ book'[id].filled <= book'[id].qty
    BY DEF BookSound
  <2>2. /\ book[id].state = "Live" /\ GoesOn(book[id], book'[id]) /\ book'[id].state # "None"
        /\ book[id] \in BookEntry /\ book'[id] \in BookEntry /\ book[id].filled <= book[id].qty
    BY <1>0, <2>1 DEF Books, BookSound
  <2> QED BY <2>2, FloorRises
<1>4. RefuseOrder => book' = book
  BY DEF RefuseOrder
<1> QED BY <1>1, <1>2, <1>3, <1>4, Traffic DEF Delivers, Sends, TakesOrder

-----------------------------------------------------------------------------
(* The strategy goes on buying. *)
LEMMA BuysStep ==
  ASSUME StrategySides = {"Buy"}, spc # "idle" => req.side = "Buy", IndInv, [ShutdownNext]_allvars
  PROVE  (spc # "idle" => req.side = "Buy")'
<1>1. CASE UNCHANGED <<spc, req>> \/ spc' = "idle"
  BY <1>1
<1>2. CASE Strategy
  <2>1. ASSUME NEW sym \in Symbols, NEW side \in StrategySides, NEW qty \in Quantities \ {0},
               NEW px \in Prices, SendOrder(sym, side, qty, px)
        PROVE  spc' # "idle" => req'.side = "Buy"
    BY <2>1 DEF SendOrder, MakeNewOrder
  <2>2. CASE RecordOrder
    <3>1. spc = "passed" /\ (spc' = "idle" \/ req' = [req EXCEPT !.order_id = OrdId(order_counter)])
      BY <2>2 DEF RecordOrder
    <3>2. req.side = "Buy"
      BY <3>1
    <3>3. [req EXCEPT !.order_id = OrdId(order_counter)].side = req.side
      <4>1. Request(req, None)
        BY <3>1 DEF IndInv, RequestOK
      <4> QED BY <4>1 DEF Request, MakeNewOrder
    <3> QED BY <3>1, <3>2, <3>3
  <2>3. CASE CheckRisk \/ ProjectOrder \/ TransmitOrder
    BY <1>1, <2>3 DEF CheckRisk, ProjectOrder, TransmitOrder
  <2> QED BY <1>2, <2>1, <2>2, <2>3 DEF Strategy
<1>3. CASE IOThread \/ Exchange \/ UNCHANGED vars \/ Process
  BY <1>1, <1>3 DEF IOThread, Logon, Logout, DropReport, TakeReport, LogReport, TrackReport,
                    ProjectReport, Exchange, AcceptOrder, RefuseOrder, Trade, CancelOrder, ExpireOrder, vars,
                    strategy, Process, Crash, TerminateLogFull, Restart, Down
<1>4. CASE Down
  BY <1>1, <1>4 DEF Down
<1>5. CASE CancelSlot \/ FlattenSlot \/ AcceptCancel \/ RefuseCancel
  BY <1>1, <1>5 DEF CancelSlot, FlattenSlot, NextSlot, AcceptCancel, RefuseCancel, strategy
<1> QED BY <1>2, <1>3, <1>4, <1>5, StepKinds DEF Next

(* The tracker's positions are what the exchange traded, with the          *)
(* killswitch's orders and cancels too.                                    *)
LEMMA ReconcilesStep ==
  ASSUME ~ResetOnLogon, IsFiniteSet(OrderIds), IsFiniteSet(Symbols), Cardinality(Symbols) <= MaxSymbols,
         KillIds, IndInv, IndInv', Control, Reconciles, up', [ShutdownNext]_allvars
  PROVE  Reconciles'
<1>1. up
  BY UpBefore
<1>2. CASE [Next]_vars
  BY <1>1, <1>2, NextReconciles
<1>3. CASE CancelSlot \/ FlattenSlot
  <2>1. positions' = positions /\ book' = book /\ inbound' = inbound /\ ipc' = ipc
    BY <1>3 DEF CancelSlot, FlattenSlot, NextSlot, io
  <2> QED BY <2>1, ReconcilesStays DEF Untracked
<1>4. CASE AcceptCancel \/ RefuseCancel
  <2>1. PICK r \in ExecutionReports :
          /\ r.last_shares = 0 /\ inbound' = Append(inbound, r) /\ UNCHANGED <<positions, io>>
          /\ book' \in [OrderIds -> BookEntry]
          /\ Head(outbound).orig_cl_ord_id \in OrderIds
          /\ AcceptCancel => /\ book[Head(outbound).orig_cl_ord_id].state = "Live"
                             /\ book'[Head(outbound).orig_cl_ord_id].state = "Cancelled"
          /\ ~AcceptCancel => book' = book
          /\ \A id \in OrderIds : /\ id # Head(outbound).orig_cl_ord_id => book'[id] = book[id]
                                  /\ book'[id] = [book[id] EXCEPT !.state = book'[id].state]
    BY <1>4, CancelAnswered, Zenon
  <2>2. book \in Books /\ book' \in Books
    BY <2>1 DEF IndInv, TypeOK, Books, BookEntry
  <2>3. ASSUME NEW id \in OrderIds
        PROVE  /\ book'[id].symbol = book[id].symbol /\ book'[id].side = book[id].side
               /\ book'[id].filled = book[id].filled + IF r.cl_ord_id = id THEN r.last_shares ELSE 0
               /\ book'[id].state = "None" <=> book[id].state = "None"
    <3>1. book[id] \in BookEntry
      BY <2>2 DEF Books
    <3>2. /\ book'[id].symbol = book[id].symbol /\ book'[id].side = book[id].side
          /\ book'[id].filled = book[id].filled /\ book[id].filled \in Nat
      BY <2>1, <3>1 DEF BookEntry
    <3>3. book'[id].state = "None" <=> book[id].state = "None"
      BY <2>1
    <3> QED BY <2>1, <3>2, <3>3
  <2> QED BY <2>1, <2>2, <2>3, ReportReconciles
<1> QED BY <1>2, <1>3, <1>4, UpBefore

(* A slot of the tracker keeps its symbol. *)
LEMMA SymbolsStay ==
  ASSUME IndInv, OneSlotEach(positions), up', [ShutdownNext]_allvars
  PROVE  \A i \in 1..Len(positions) : i \in 1..Len(positions') /\ positions'[i].symbol = positions[i].symbol
<1>1. CASE positions' = positions
  BY <1>1
<1>2. CASE TrackReport
  <2> DEFINE e == ievt
             qs == BookPosition(positions, e)
             i == FindPosition(positions, e.symbol)
  <2>1. ipc = "logged" /\ positions' = qs /\ e \in FillEvents
    BY <1>2, ReportInHand DEF TrackReport, ApplyEvent
  <2>2. positions \in PositionTable /\ positions \in Seq(Position)
    BY DEF IndInv, TypeOK, PositionTable
  <2>3. /\ IsFill(e) /\ i # 0 => qs = [positions EXCEPT ![i] = ApplyFill(positions[i], e)] /\ i \in 1..Len(positions)
        /\ IsFill(e) /\ i = 0 /\ ~(Len(positions) >= MaxSymbols) =>
             qs = Append(positions, ApplyFill(ZeroPosition(e.symbol), e))
        /\ ~IsFill(e) => qs = positions
    BY <2>1, <2>2, BookPositionSlots
  <2>4. CASE IsFill(e) /\ i # 0
    <3>1. positions[i] \in Position /\ i \in 1..Len(positions)
      BY <2>2, <2>3, <2>4
    <3>2. ApplyFill(positions[i], e).symbol = positions[i].symbol
      BY <2>1, <3>1, FillMoves
    <3> DEFINE z == ApplyFill(positions[i], e)
    <3>3. positions' = [positions EXCEPT ![i] = z]
      BY <2>1, <2>3, <2>4
    <3> HIDE DEF i, z
    <3> QED BY <2>2, <3>1, <3>2, <3>3 DEF z
  <2>5. CASE IsFill(e) /\ i = 0 /\ ~(Len(positions) >= MaxSymbols)
    <3> DEFINE z == ApplyFill(ZeroPosition(e.symbol), e)
    <3>1. positions' = Append(positions, z)
      BY <2>1, <2>3, <2>5
    <3> HIDE DEF z
    <3> QED BY <2>2, <3>1
  <2>6. CASE IsFill(e) /\ i = 0 /\ Len(positions) >= MaxSymbols
    <3>1. qs = positions
      BY <2>6 DEF BookPosition
    <3> QED BY <2>1, <3>1
  <2> QED BY <1>1, <2>1, <2>3, <2>4, <2>5, <2>6
<1>3. CASE Next
  BY <1>1, <1>2, <1>3, UpBefore
     DEF Next, Strategy, SendOrder, CheckRisk, RecordOrder, ProjectOrder, TransmitOrder, IOThread,
         Logon, Logout, DropReport, TakeReport, LogReport, ProjectReport, Process, Crash,
         TerminateLogFull, Restart, Down, Exchange, AcceptOrder, RefuseOrder, Trade, CancelOrder, ExpireOrder
<1>4. CASE UNCHANGED vars \/ CancelSlot \/ FlattenSlot \/ AcceptCancel \/ RefuseCancel
  BY <1>1, <1>4 DEF vars, CancelSlot, FlattenSlot, NextSlot, AcceptCancel, RefuseCancel
<1> QED BY <1>3, <1>4, UpBefore

(* A symbol that flatten() has still to reach was so before, and is not    *)
(* the one it is at.                                                       *)
LEMMA AheadBefore ==
  ASSUME KillIds, IndInv, Control, OneSlotEach(positions), up', [ShutdownNext]_allvars, NEW sym, Ahead(sym)'
  PROVE  Ahead(sym) /\ \A m : ClosingSent(m) => m.symbol # sym
<1>1. \A i \in 1..Len(positions) : i \in 1..Len(positions') /\ positions'[i].symbol = positions[i].symbol
  BY SymbolsStay
<1>2. slot \in Nat
  BY DEF Control
<1>3. CASE FlattenSlot
  <2>1. /\ kpc = "flattening" /\ kpc' = kpc /\ slot \in 1..Len(positions) /\ slot' = slot + 1
        /\ ClosingOrder(positions[slot], count + 1).symbol = positions[slot].symbol
    BY <1>3, FlattenSlotSends
  <2>2. \A i \in 1..Len(positions) : positions[i].symbol = sym => i >= slot + 1
    BY <1>1, <2>1 DEF Ahead
  <2>3. positions[slot].symbol # sym
    BY <1>2, <2>1, <2>2
  <2>4. \A m : ClosingSent(m) => m.symbol # sym
    BY <2>1, <2>3 DEF ClosingSent
  <2>5. \A i \in 1..Len(positions) : positions[i].symbol = sym => i >= slot
    BY <1>2, <2>2
  <2> QED BY <2>1, <2>4, <2>5 DEF Ahead
<1>4. CASE ~FlattenSlot
  <2>1. \A m : ~ClosingSent(m)
    BY <1>4 DEF ClosingSent
  <2>2. \/ kpc \notin {"flattening", "flattened"}
        \/ kpc = "flattening" /\ kpc' = "flattening" /\ slot' = slot
    BY <1>4, KillKinds DEF Ahead
  <2>3. Ahead(sym)
    BY <1>1, <2>2 DEF Ahead
  <2> QED BY <2>1, <2>3
<1> QED BY <1>3, <1>4

(* Until flatten() is at it, nobody sells a symbol. *)
LEMMA NoSellsStep ==
  ASSUME ~ResetOnLogon, KillIds, IndInv, IndInv', Control, up => IdsIssued,
         spc # "idle" => req.side = "Buy", [ShutdownNext]_allvars, NEW sym, NoSells(sym),
         \A m : ClosingSent(m) => m.symbol # sym
  PROVE  NoSells(sym)'
<1>0. outbound \in Seq(Messages) /\ book \in Books
  BY DEF IndInv, TypeOK, Books, BookEntry
<1>1. CASE Delivers
  BY <1>1 DEF Delivers, NoSells
<1>2. ASSUME NEW m \in Messages, Sends(m), OrderSent(m) \/ CancelSent(m) \/ ClosingSent(m)
      PROVE  NoSells(sym)'
  <2>1. m.msg_type = "NewOrderSingle" /\ m.symbol = sym => m.side = "Buy"
    <3>1. CASE OrderSent(m)
      <4>1. spc = "booked" /\ m = ToNewOrderSingle(req)
        BY <3>1 DEF OrderSent, TransmitOrder
      <4> QED BY <4>1 DEF ToNewOrderSingle
    <3> QED BY <1>2, <3>1 DEF CancelSent
  <2>2. outbound' = Append(outbound, m) /\ book' = book
    BY <1>2 DEF Sends
  <2>3. \A k \in 1..Len(outbound') : outbound'[k] = m \/ (k \in 1..Len(outbound) /\ outbound'[k] = outbound[k])
    BY <1>0, <2>2
  <2> QED BY <2>1, <2>2, <2>3 DEF NoSells
<1>3. ASSUME NEW r \in ExecutionReports, TakesOrder(r) \/ TakesCancel(r) \/ Tells(r) PROVE NoSells(sym)'
  <2>1. \A k \in 1..Len(outbound') : \E j \in 1..Len(outbound) : outbound'[k] = outbound[j]
    <3>1. CASE outbound' = outbound
      BY <3>1
    <3>2. CASE outbound # << >> /\ outbound' = Tail(outbound)
      <4>1. \A k \in 1..Len(outbound') : k + 1 \in 1..Len(outbound) /\ outbound'[k] = outbound[k + 1]
        BY <1>0, <3>2
      <4> QED BY <4>1
    <3> QED BY <1>3, <3>1, <3>2 DEF TakesOrder, TakesCancel, Tells, Answers
  <2>2. ASSUME NEW id \in OrderIds, book'[id].state # "None", book'[id].symbol = sym
        PROVE  book'[id].side = "Buy"
    <3>1. CASE TakesOrder(r) /\ AcceptOrder /\ id = Head(outbound).cl_ord_id
      <4>1. /\ book'[id].symbol = Head(outbound).symbol /\ book'[id].side = Head(outbound).side
            /\ Head(outbound).msg_type = "NewOrderSingle" /\ outbound # << >>
        BY <1>0, <3>1 DEF AcceptOrder, Books
      <4>2. Head(outbound) = outbound[1] /\ 1 \in 1..Len(outbound)
        BY <1>0, <4>1
      <4> QED BY <2>2, <4>1, <4>2 DEF NoSells
    <3>2. CASE TakesOrder(r) /\ ~(AcceptOrder /\ id = Head(outbound).cl_ord_id)
      <4>1. book'[id] = book[id]
        BY <3>2 DEF TakesOrder, Answers, RefuseOrder
      <4> QED BY <2>2, <4>1 DEF NoSells
    <3>3. CASE TakesCancel(r) \/ Tells(r)
      <4>1. book'[id] = book[id] \/ (book[id].state = "Live" /\ GoesOn(book[id], book'[id]))
        BY <3>3 DEF TakesCancel, Tells
      <4>2. /\ book'[id].symbol = book[id].symbol /\ book'[id].side = book[id].side
            /\ book[id].state # "None"
        BY <2>2, <4>1 DEF GoesOn
      <4> QED BY <2>2, <4>2 DEF NoSells
    <3> QED BY <1>3, <3>1, <3>2, <3>3
  <2> QED BY <2>1, <2>2 DEF NoSells
<1> QED BY <1>1, <1>2, <1>3, Traffic

-----------------------------------------------------------------------------
(* Of a symbol nobody sells, the worst case is what has traded, which is   *)
(* no less than what the tracker has seen of it.                           *)
LEMMA WorstAhead ==
  ASSUME IsFiniteSet(OrderIds), IndInv, Reconciles, NEW sym \in Symbols, NoSells(sym)
  PROVE  /\ Net(positions, sym) \in Int
         /\ Net(positions, sym) <= WorstOf(book, outbound, sym)
<1> DEFINE S == OrdersOf(book, sym)
           u == Untracked
           f == SharesOf(book, u)
           g == Floors(book)
           v == SellsOut(outbound, sym)
<1>0. /\ book \in Books /\ outbound \in Seq(Messages) /\ inbound \in Seq(ExecutionReports)
      /\ u \in Seq(ExecutionReports) /\ IsFiniteSet(S) /\ S \subseteq OrderIds
      /\ \A k \in 1..Len(u) : \E j \in 1..Len(inbound) : u[k] = inbound[j]
  <2>1. /\ book \in Books /\ outbound \in Seq(Messages) /\ inbound \in Seq(ExecutionReports)
        /\ u \in Seq(ExecutionReports)
        /\ \A k \in 1..Len(u) : \E j \in 1..Len(inbound) : u[k] = inbound[j]
    BY UntrackedReports DEF IndInv
  <2> QED BY <2>1, SharesType
<1>1. SumOf(v) = 0
  <2>1. v \in Seq(Int) /\ Len(v) = Len(outbound)
    BY <1>0, OutType
  <2>2. ASSUME NEW k \in 1..Len(outbound) PROVE v[k] = 0
    <3>1. v[k] = SellOf(outbound[k], sym) /\ outbound[k] \in Messages
      BY <1>0, OutType
    <3>2. outbound[k].msg_type # "NewOrderSingle" \/ outbound[k].symbol # sym \/ outbound[k].side # "Sell"
      BY DEF NoSells
    <3> QED BY <3>1, <3>2, SellType
  <2> HIDE DEF v
  <2> QED BY <2>1, <2>2, SumZero
<1>2. ASSUME NEW y \in S PROVE f[y] \in Int /\ g[y] \in Int /\ f[y] <= g[y]
  <2> DEFINE q == QueuedFills(u, y)
             n == book[y].filled
  <2>1. /\ y \in OrderIds /\ book[y] \in BookEntry /\ book[y].symbol = sym
        /\ f[y] = Signed(book[y].side, n - q) /\ f[y] \in Int /\ n \in Nat /\ q \in Nat
        /\ g[y] = FloorAt(book[y])
    BY <1>0, SharesType DEF OrdersOf, Books, Floors
  <2>2. g[y] \in Int
    BY <2>1, FloorType
  <2>3. CASE book[y].state = "None"
    <3>1. n = 0
      BY <2>1, <2>3 DEF Reconciles, UnseenUntraded
    <3>2. TradesMatch(book, u)
      BY <1>0 DEF Reconciles, TradesMatch
    <3>3. q = 0
      BY <1>0, <2>3, <3>2, UnseenUnreported
    <3>4. f[y] = Signed(book[y].side, 0)
      BY <2>1, <3>1, <3>3
    <3>5. f[y] = 0
      BY <3>4, SignedZero
    <3>6. g[y] = 0
      BY <2>1, <2>3, <3>1, FloorType
    <3> HIDE DEF f, g
    <3> QED BY <3>5, <3>6
  <2>4. CASE book[y].state # "None"
    <3>1. book[y].side = "Buy"
      BY <2>1, <2>4 DEF NoSells
    <3>2. f[y] = n - q /\ g[y] = n
      BY <2>1, <3>1 DEF Signed, FloorAt
    <3> HIDE DEF f, g, n, q
    <3> QED BY <2>1, <3>2
  <2> QED BY <2>3, <2>4
<1>3. Net(positions, sym) = SetSum(f, S)
  BY DEF Reconciles, Reconciled
<1>4. WorstOf(book, outbound, sym) = SetSum(g, S) + SumOf(v)
  BY DEF WorstOf
<1> HIDE DEF f, g, S, v
<1>5. SetSum(f, S) \in Int /\ SetSum(g, S) \in Int /\ SetSum(f, S) <= SetSum(g, S)
  BY <1>0, <1>2, SetSumLess
<1> QED BY <1>1, <1>3, <1>4, <1>5

(* flatten() sells no more than the worst case leaves. *)
LEMMA ClosingFits ==
  ASSUME IsFiniteSet(OrderIds), KillIds, IndInv, Control, Reconciles,
         \A s \in Symbols : Ahead(s) => NoSells(s), NEW m \in Messages, ClosingSent(m),
         NEW sym \in Symbols, WorstOf(book, outbound, sym) >= 0
  PROVE  WorstOf(book, outbound, sym) + SellOf(m, sym) >= 0
<1> DEFINE pos == positions[slot]
           w == WorstOf(book, outbound, sym)
<1>1. /\ kpc = "flattening" /\ slot \in 1..Len(positions) /\ pos \in Position
      /\ m.msg_type = "NewOrderSingle" /\ m.symbol = pos.symbol
      /\ m.side = (IF pos.net_qty > 0 THEN "Sell" ELSE "Buy")
      /\ m.order_qty = (IF pos.net_qty > 0 THEN pos.net_qty ELSE -pos.net_qty)
  BY FlattenSlotSends DEF ClosingSent
<1>2. w \in Int
  <2>1. book \in Books /\ outbound \in Seq(Messages)
    BY DEF IndInv, TypeOK, Books, BookEntry
  <2> QED BY <2>1, WorstType
<1>3. CASE m.symbol # sym \/ m.side # "Sell"
  <2>1. SellOf(m, sym) = 0
    BY <1>3, SellType
  <2> HIDE DEF w
  <2>2. w + 0 >= 0
    BY <1>2 DEF w
  <2> QED BY <2>1, <2>2 DEF w
<1>4. CASE m.symbol = sym /\ m.side = "Sell"
  <2>1. pos.symbol = sym /\ pos.net_qty > 0 /\ m.order_qty = pos.net_qty
    BY <1>1, <1>4
  <2>2. OneSlotEach(positions) /\ positions \in Seq(Position)
    BY DEF Reconciles, IndInv, TypeOK
  <2>3. Ahead(sym)
    <3>1. \A i \in 1..Len(positions) : positions[i].symbol = sym => i = slot
      BY <1>1, <2>1, <2>2 DEF OneSlotEach
    <3>2. slot >= slot
      BY <1>1
    <3> QED BY <1>1, <3>1, <3>2 DEF Ahead
  <2>4. Net(positions, sym) = pos.net_qty
    BY <1>1, <2>1, <2>2, NetOfSlot
  <2>5. Net(positions, sym) <= w /\ Net(positions, sym) \in Int
    BY <2>3, WorstAhead
  <2>6. SellOf(m, sym) = -Net(positions, sym)
    BY <1>1, <1>4, <2>1, <2>4 DEF SellOf
  <2> DEFINE n == Net(positions, sym)
  <2> HIDE DEF w, n
  <2>7. w + (-n) >= 0
    BY <1>2, <2>5 DEF n
  <2> QED BY <2>6, <2>7 DEF w, n
<1> QED BY <1>3, <1>4

(* Every step keeps the worst case. *)
LEMMA NextFlattenInv ==
  ASSUME StrategySides = {"Buy"}, ~ResetOnLogon, KillIds, IsFiniteSet(OrderIds), IsFiniteSet(Symbols),
         Cardinality(Symbols) <= MaxSymbols, ShutInv, ShutInv', FlattenInv, [ShutdownNext]_allvars
  PROVE  FlattenInv'
<1>1. /\ IndInv /\ IndInv' /\ Control /\ (up => IdsIssued)
  BY DEF ShutInv
<1>2. /\ spc # "idle" => req.side = "Buy"
      /\ BookSound
      /\ up => Reconciles /\ \A sym \in Symbols : Ahead(sym) => NoSells(sym)
      /\ \A sym \in Symbols : WorstOf(book, outbound, sym) >= 0
  BY DEF FlattenInv
<1>3. (spc # "idle" => req.side = "Buy")' /\ BookSound'
  BY <1>1, <1>2, BuysStep, BookSoundStep
<1>4. ASSUME up' PROVE Reconciles' /\ \A sym \in Symbols : Ahead(sym)' => NoSells(sym)'
  <2>1. up /\ Reconciles /\ OneSlotEach(positions)
    BY <1>2, <1>4, UpBefore DEF Reconciles
  <2>2. Reconciles'
    BY <1>1, <1>4, <2>1, ReconcilesStep
  <2>3. ASSUME NEW sym \in Symbols, Ahead(sym)' PROVE NoSells(sym)'
    <3>1. Ahead(sym) /\ \A m : ClosingSent(m) => m.symbol # sym
      BY <1>1, <1>4, <2>1, <2>3, AheadBefore
    <3>2. NoSells(sym)
      BY <1>2, <2>1, <3>1
    <3> QED BY <1>1, <1>2, <3>1, <3>2, NoSellsStep
  <2> QED BY <2>2, <2>3
<1>5. ASSUME NEW sym \in Symbols PROVE WorstOf(book', outbound', sym) >= 0
  <2>1. ASSUME NEW m \in Messages, up, ClosingSent(m)
        PROVE  WorstOf(book, outbound, sym) + SellOf(m, sym) >= 0
    BY <1>1, <1>2, <2>1, ClosingFits
  <2> QED BY <1>1, <1>2, <2>1, WorstStep
<1> QED BY <1>3, <1>4, <1>5 DEF FlattenInv

-----------------------------------------------------------------------------
(* What the live orders are still to sell. *)
SoldAt == [oid \in OrderIds |-> IF book[oid].state = "Live" /\ book[oid].side = "Sell"
                                THEN book[oid].qty - book[oid].filled ELSE 0]

(* At worst an order leaves what it has traded less what it is to sell. *)
LEMMA SoldType ==
  ASSUME IndInv, IsFiniteSet(OrderIds), NEW oid \in OrderIds
  PROVE  /\ SoldAt[oid] \in Int /\ HeldOf[oid] \in Int /\ Floors(book)[oid] \in Int
         /\ HeldOf[oid] = Floors(book)[oid] + SoldAt[oid]
         /\ book[oid].state = "Live" /\ book[oid].side = "Sell" => SoldAt[oid] = LeavesAt[oid]
         /\ ~(book[oid].state = "Live" /\ book[oid].side = "Sell") => SoldAt[oid] = 0
<1> DEFINE b == book[oid]
           q == b.qty
           n == b.filled
<1>1. b \in BookEntry /\ q \in Nat /\ n \in Nat /\ b.side \in {"Buy", "Sell"}
  BY UntrackedReports DEF Books, BookEntry, Sides
<1>2. /\ SoldAt[oid] = (IF b.state = "Live" /\ b.side = "Sell" THEN q - n ELSE 0)
      /\ HeldOf[oid] = (IF b.side = "Buy" THEN n ELSE -n)
      /\ LeavesAt[oid] = q - n
      /\ Floors(book)[oid] = (IF b.side = "Buy" THEN n ELSE IF b.state = "Live" THEN -q ELSE -n)
  BY DEF SoldAt, HeldOf, LeavesAt, Floors, FloorAt, Signed
<1> HIDE DEF b, q, n
<1>3. CASE b.side = "Buy"
  <2>1. SoldAt[oid] = 0 /\ HeldOf[oid] = n /\ Floors(book)[oid] = n
    BY <1>2, <1>3
  <2> QED BY <1>1, <1>3, <2>1 DEF b
<1>4. CASE b.side = "Sell" /\ b.state = "Live"
  <2>1. SoldAt[oid] = q - n /\ HeldOf[oid] = -n /\ Floors(book)[oid] = -q
    BY <1>2, <1>4
  <2> QED BY <1>1, <1>2, <1>4, <2>1 DEF b
<1>5. CASE b.side = "Sell" /\ b.state # "Live"
  <2>1. SoldAt[oid] = 0 /\ HeldOf[oid] = -n /\ Floors(book)[oid] = -n
    BY <1>2, <1>5
  <2> QED BY <1>1, <1>5, <2>1 DEF b
<1> QED BY <1>1, <1>3, <1>4, <1>5

(* The sells the exchange has, as a sum over the orders of the symbol. *)
LEMMA LiveSells ==
  ASSUME IndInv, IsFiniteSet(OrderIds), NEW sym
  PROVE  Exposed(sym, "Sell") = SetSum(SoldAt, OrdersOf(book, sym))
<1> DEFINE S == LiveOf(sym, "Sell")
           R == OrdersOf(book, sym)
<1>1. IsFiniteSet(R) /\ IsFiniteSet(S) /\ R \subseteq OrderIds /\ S \subseteq OrderIds
  BY BookNumbers
<1>2. /\ S \subseteq R
      /\ \A x \in S : book[x].state = "Live" /\ book[x].side = "Sell"
      /\ \A x \in R \ S : ~(book[x].state = "Live" /\ book[x].side = "Sell")
  BY <1>1 DEF LiveOf, OrdersOf
<1>3. Exposed(sym, "Sell") = SetSum(LeavesAt, S)
  BY ExposedSum
<1> HIDE DEF S, R
<1>4. SetSum(LeavesAt, S) = SetSum(SoldAt, S)
  <2>1. \A x \in S : LeavesAt[x] \in Int /\ LeavesAt[x] = SoldAt[x]
    BY <1>1, <1>2, SoldType
  <2> QED BY <1>1, <2>1, SetSumSame
<1>5. SetSum(SoldAt, S) = SetSum(SoldAt, R)
  <2>1. (\A x \in R : SoldAt[x] \in Int) /\ \A x \in R \ S : SoldAt[x] = 0
    BY <1>1, <1>2, SoldType
  <2> QED BY <1>1, <1>2, <2>1, SetSumWithin
<1> QED BY <1>3, <1>4, <1>5 DEF R

(* The sells on their way to it. *)
LEMMA SellsSum ==
  ASSUME NEW out \in Seq(Messages), NEW sym
  PROVE  FoldLeft(LAMBDA sum, o : IF o.msg_type = "NewOrderSingle" /\ o.symbol = sym /\ o.side = "Sell"
                                  THEN sum + o.order_qty ELSE sum, 0, out)
           = SumOf(SoldOut(out, sym))
<1> DEFINE n == Len(out)
           v == SoldOut(out, sym)
           counts(i) == out[i].msg_type = "NewOrderSingle" /\ out[i].symbol = sym /\ out[i].side = "Sell"
           Body(g, s) == IF s = {} THEN 0
                         ELSE IF counts(Max(s))
                              THEN g[s \ {Max(s)}] + out[Max(s)].order_qty
                              ELSE g[s \ {Max(s)}]
           It == CHOOSE g : g = [s \in SUBSET (DOMAIN out) |-> Body(g, s)]
<1>1. n \in Nat /\ DOMAIN out = 1..n
  OBVIOUS
<1>2. FoldLeft(LAMBDA sum, o : IF o.msg_type = "NewOrderSingle" /\ o.symbol = sym /\ o.side = "Sell"
                               THEN sum + o.order_qty ELSE sum, 0, out) = It[DOMAIN out]
  BY DEF FoldLeft, MapThenFoldSet
<1>3. /\ v \in [1..n -> Int]
      /\ \A i \in 1..n : v[i] = IF counts(i) THEN out[i].order_qty ELSE 0
  <2>1. /\ v \in Seq(Int) /\ Len(v) = n
    BY OutType
  <2>2. \A i \in 1..n : v[i] = SoldOf(out[i], sym)
    BY OutType
  <2>3. v \in [1..n -> Int]
    <3> HIDE DEF v
    <3> QED BY <2>1
  <2> HIDE DEF v
  <2> QED BY <2>2, <2>3 DEF SoldOf
<1> HIDE DEF v
<1>5. PICK h \in [SUBSET (1..n) -> Int] :
        \A s \in SUBSET (1..n) : h[s] = IF s = {} THEN 0 ELSE h[s \ {Max(s)}] + v[Max(s)]
  <2> HIDE DEF n
  <2> QED BY <1>1, <1>3, SumFoldExists
<1>6. ASSUME NEW s \in SUBSET (1..n), s # {}, NEW g, g[s \ {Max(s)}] \in Int
      PROVE  Body(g, s) = g[s \ {Max(s)}] + v[Max(s)]
  <2>1. Max(s) \in 1..n
    BY <1>1, <1>6, MaxOfPositions
  <2> DEFINE a == g[s \ {Max(s)}]
             c == out[Max(s)].order_qty
  <2>2. a \in Int /\ a + 0 = a
    BY <1>6
  <2>3. v[Max(s)] = IF counts(Max(s)) THEN c ELSE 0
    BY <1>3, <2>1
  <2>4. Body(g, s) = IF counts(Max(s)) THEN a + c ELSE a
    BY <1>6
  <2> HIDE DEF a, c, Body
  <2>5. Body(g, s) = a + v[Max(s)]
    BY <2>2, <2>3, <2>4
  <2> QED BY <2>5 DEF a
<1>7. h = [s \in SUBSET (DOMAIN out) |-> Body(h, s)]
  <2> SUFFICES ASSUME NEW s \in SUBSET (1..n) PROVE h[s] = Body(h, s)
    BY <1>1
  <2>1. CASE s = {}
    BY <1>5, <2>1
  <2>2. CASE s # {}
    <3>1. s \ {Max(s)} \in SUBSET (1..n)
      OBVIOUS
    <3>2. h[s \ {Max(s)}] \in Int
      BY <1>5, <3>1
    <3>3. h[s] = h[s \ {Max(s)}] + v[Max(s)]
      BY <1>5, <2>2
    <3> HIDE DEF Body
    <3> QED BY <1>6, <2>2, <3>2, <3>3
  <2> QED BY <2>1, <2>2
<1>8. It = [s \in SUBSET (DOMAIN out) |-> Body(It, s)]
  BY <1>7
<1> HIDE DEF It
<1>9. It[{}] = 0 /\ \A s \in SUBSET (1..n) : s # {} => It[s] = Body(It, s)
  <2>1. {} \in SUBSET (DOMAIN out)
    OBVIOUS
  <2> QED BY <1>1, <1>8, <2>1
<1> HIDE DEF Body
<1>10. \A s \in SUBSET (1..n) : s # {} /\ It[s \ {Max(s)}] \in Int
                                  => It[s] = It[s \ {Max(s)}] + v[Max(s)]
  BY <1>6, <1>9
<1>11. It[1..n] = SumOf(v)
  <2> HIDE DEF n
  <2> QED BY <1>1, <1>3, <1>9, <1>10, FoldIsSum
<1> QED BY <1>1, <1>2, <1>11 DEF v

(* What is taken on the way is what is to be sold. *)
LEMMA SumNegative ==
  ASSUME NEW v \in Seq(Int), NEW w \in Seq(Int), Len(v) = Len(w), \A k \in 1..Len(v) : v[k] + w[k] = 0
  PROVE  SumOf(v) + SumOf(w) = 0 /\ SumOf(v) \in Int /\ SumOf(w) \in Int
<1> DEFINE n == Len(v)
<1>1. n \in Nat /\ n \in 0..n /\ Len(w) = n /\ \A k \in 1..n : v[k] \in Int /\ w[k] \in Int /\ v[k] + w[k] = 0
  OBVIOUS
<1>2. PICK F : IsSums(F, v)
  BY SumsExist
<1> DEFINE G == [k \in 0..n |-> 0 - F[k]]
<1>3. F \in [0..n -> Int] /\ F[0] = 0 /\ \A k \in 1..n : F[k] = F[k - 1] + v[k]
  BY <1>2 DEF IsSums
<1>4. SumOf(v) = F[n] /\ SumOf(v) \in Int
  BY <1>2, SumBy
<1> HIDE DEF n
<1>5. G \in [0..n -> Int] /\ G[0] = 0 /\ F[n] + G[n] = 0 /\ F[n] \in Int /\ G[n] \in Int
  BY <1>1, <1>3
<1>6. ASSUME NEW k \in 1..n PROVE G[k] = G[k - 1] + w[k]
  <2>1. k \in 0..n /\ k - 1 \in 0..n
    BY <1>1
  <2>2. G[k] = 0 - F[k] /\ G[k - 1] = 0 - F[k - 1] /\ F[k - 1] \in Int /\ F[k] \in Int
    BY <1>3, <2>1
  <2> QED BY <1>1, <1>3, <2>2
<1> HIDE DEF G
<1>7. IsSums(G, w)
  BY <1>1, <1>5, <1>6 DEF IsSums
<1>8. SumOf(w) = G[n]
  BY <1>1, <1>7, SumBy
<1> QED BY <1>4, <1>5, <1>8

(* The worst case is what is held less what is to be sold. *)
LEMMA WorstLeaves ==
  ASSUME IndInv, IsFiniteSet(OrderIds), NEW sym
  PROVE  Held(sym) - ToBeSold(sym) = WorstOf(book, outbound, sym)
<1> DEFINE S == OrdersOf(book, sym)
           f == Floors(book)
           h == HeldOf
           t == SoldAt
           v == SoldOut(outbound, sym)
           w == SellsOut(outbound, sym)
<1>0. outbound \in Seq(Messages) /\ IsFiniteSet(S) /\ S \subseteq OrderIds
  BY BookNumbers DEF IndInv
<1>1. \A x \in S : f[x] \in Int /\ t[x] \in Int /\ h[x] = f[x] + t[x]
  BY <1>0, SoldType
<1>2. /\ v \in Seq(Int) /\ w \in Seq(Int) /\ Len(v) = Len(w)
      /\ \A k \in 1..Len(v) : v[k] + w[k] = 0
  <2>1. /\ v \in Seq(Int) /\ w \in Seq(Int) /\ Len(v) = Len(w) /\ Len(v) = Len(outbound)
        /\ \A k \in 1..Len(outbound) : v[k] = SoldOf(outbound[k], sym) /\ w[k] = SellOf(outbound[k], sym)
    BY <1>0, OutType
  <2>2. \A k \in 1..Len(outbound) : /\ SellOf(outbound[k], sym) \in Int /\ SoldOf(outbound[k], sym) \in Int
                                    /\ SellOf(outbound[k], sym) + SoldOf(outbound[k], sym) = 0
    BY <1>0, SellType
  <2> HIDE DEF v, w
  <2> QED BY <2>1, <2>2
<1>3. WorstOf(book, outbound, sym) = SetSum(f, S) + SumOf(w)
  BY DEF WorstOf
<1>4. Held(sym) = SetSum(h, S) /\ ToBeSold(sym) = SetSum(t, S) + SumOf(v)
  BY <1>0, HeldSum, LiveSells, SellsSum DEF ToBeSold
<1> HIDE DEF S, f, h, t, v, w
<1>5. SumOf(v) + SumOf(w) = 0 /\ SumOf(v) \in Int /\ SumOf(w) \in Int
  BY <1>2, SumNegative
<1>6. SetSum(f, S) \in Int /\ SetSum(t, S) \in Int /\ SetSum(h, S) = SetSum(f, S) + SetSum(t, S)
  BY <1>0, <1>1, SetSumAdd
<1> QED BY <1>3, <1>4, <1>5, <1>6

(* What the invariant says of the account. *)
LEMMA FlattenInvHolds ==
  ASSUME IndInv, FlattenInv, IsFiniteSet(OrderIds)
  PROVE  FlattenNeverReverses
<1> SUFFICES ASSUME NEW sym \in Symbols
             PROVE  Held(sym) - ToBeSold(sym) >= 0
  BY DEF FlattenNeverReverses
<1>1. Held(sym) - ToBeSold(sym) = WorstOf(book, outbound, sym)
  BY WorstLeaves
<1>2. WorstOf(book, outbound, sym) >= 0
  BY DEF FlattenInv
<1> QED BY <1>1, <1>2

(* A session that has just started has sold nothing. *)
LEMMA InitFlattenInv ==
  ASSUME ShutdownInit, IsFiniteSet(OrderIds)
  PROVE  FlattenInv
<1>1. /\ Init /\ spc = "idle" /\ outbound = << >>
      /\ \A x \in OrderIds : book[x].state = "None" /\ book[x].filled = 0
  BY DEF ShutdownInit, Init
<1>2. IndInv /\ Reconciles
  BY <1>1, InitIndInv, InitReconciles
<1>3. BookSound /\ \A sym \in Symbols : NoSells(sym)
  BY <1>1 DEF BookSound, NoSells
<1>4. ASSUME NEW sym PROVE WorstOf(book, outbound, sym) >= 0
  <2> DEFINE S == OrdersOf(book, sym)
             f == Floors(book)
             v == SellsOut(outbound, sym)
  <2>1. book \in Books /\ outbound \in Seq(Messages)
    BY <1>2 DEF IndInv, TypeOK, Books, BookEntry
  <2>2. IsFiniteSet(S) /\ S \subseteq OrderIds
    BY FS_Subset DEF OrdersOf
  <2>3. \A x \in S : f[x] = 0
    <3> SUFFICES ASSUME NEW x \in OrderIds PROVE f[x] = 0
      BY <2>2
    <3>1. f[x] = FloorAt(book[x]) /\ book[x] \in BookEntry
      BY <2>1 DEF Floors, Books
    <3> QED BY <1>1, <3>1, FloorType
  <2>4. v \in Seq(Int) /\ \A k \in 1..Len(v) : v[k] = 0
    <3>1. v \in Seq(Int) /\ Len(v) = Len(outbound)
      BY <2>1, OutType
    <3> HIDE DEF v
    <3> QED BY <1>1, <3>1
  <2>5. WorstOf(book, outbound, sym) = SetSum(f, S) + SumOf(v)
    BY DEF WorstOf
  <2> HIDE DEF S, f, v
  <2>6. SetSum(f, S) = 0 /\ SumOf(v) = 0
    BY <2>2, <2>3, <2>4, SetSumZero, SumZero
  <2> QED BY <2>5, <2>6
<1> QED BY <1>1, <1>2, <1>3, <1>4 DEF FlattenInv

(* Killswitch.h: flatten() "sends market orders to close every non-zero    *)
(* position".  For a strategy that buys, like the one main.cpp sketches,   *)
(* with a slot for every symbol, as long as the process has issued no more *)
(* ids than it has slots for and no logon resets the session: whatever     *)
(* fills, cancels, expiries and reports are under way while flatten()      *)
(* reads the positions, even if everything that is to be sold trades and   *)
(* no open buy does, no position at the exchange becomes a short one.      *)
THEOREM ShutdownFlattenNeverReverses ==
  ASSUME StrategySides = {"Buy"}, ~ResetOnLogon, KillIds, IsFiniteSet(OrderIds), IsFiniteSet(Symbols),
         Cardinality(Symbols) <= MaxSymbols
  PROVE  ShutdownSpec /\ []CounterFits => []FlattenNeverReverses
<1> DEFINE Inv == ShutInv /\ FlattenInv
<1>1. ShutdownInit => Inv
  BY InitShutInv, InitFlattenInv
<1>2. CounterFits /\ CounterFits' /\ Inv /\ [ShutdownNext]_allvars => Inv'
  BY NextShutInv, NextFlattenInv
<1>3. Inv => FlattenNeverReverses
  BY FlattenInvHolds DEF ShutInv
<1> QED BY <1>1, <1>2, <1>3, PTL DEF ShutdownSpec
-----------------------------------------------------------------------------
(***************************************************************************)
(* What lingers.  A confirmation of the killswitch's cancel carries the id *)
(* of the request and closes no slot: the order it is about stays open in  *)
(* the manager.  The invariant names those orders: as many as there are    *)
(* confirmations, under way or in the log, and everything else is as       *)
(* NothingLingers says.  An order that expired is open in the manager by   *)
(* that invariant, and is not counted.                                     *)
(***************************************************************************)

IsKs(x) == x[1] = "KS"

(* The ids of the requests are those of no order, and requests are only    *)
(* for orders of send_order().                                             *)
KsApart ==
  /\ \A k \in 1..Len(outbound) :
       /\ outbound[k].msg_type = "NewOrderSingle" => ~IsKs(outbound[k].cl_ord_id)
       /\ outbound[k].msg_type = "OrderCancelRequest" =>
            IsKs(outbound[k].cl_ord_id) /\ outbound[k].orig_cl_ord_id[1] = "ORD"
  /\ \A oid \in OrderIds : book[oid].state # "None" => ~IsKs(oid)
  /\ \A k \in 1..Len(inbound) :
       IsKs(inbound[k].cl_ord_id) => inbound[k].exec_type \in {"Canceled", "Rejected"}

(* onMessage() is never called for an OrderCancelReject. *)
ReportAtHandHandled == ipc # "idle" => Head(inbound).msg_type = "ExecutionReport"

(* What has arrived as an answer, or is on its way there. *)
Confirmed == { k \in 1..Len(log) : IsKs(log[k].order_id) }

ConfirmOf(r) == IF IsKs(r.cl_ord_id) /\ r.msg_type = "ExecutionReport" THEN 1 ELSE 0

Confirms(rs) == [k \in 1..Len(rs) |-> ConfirmOf(rs[k])]

(* A cancelled order whose slot nothing will close. *)
StaysOpen(x) ==
  /\ x \in OrderIds /\ book[x].state = "Cancelled"
  /\ \E i \in 1..Len(orders) : orders[i].order_id = x /\ IsOpen(orders[i])
  /\ \A k \in 1..Len(inbound) : inbound[k].cl_ord_id = x => inbound[k].exec_type \notin Closing

Lingering(z) ==
  /\ IsFiniteSet(z) /\ LingersBut(z) /\ \A x \in z : StaysOpen(x)
  /\ Cardinality(Confirmed) + SumOf(Confirms(Unlogged)) = Cardinality(z)

LingerInv == up => KsApart /\ ReportAtHandHandled /\ \E z : Lingering(z)

(* Messages and reports keep to those ids. *)
LEMMA ApartStep ==
  ASSUME ~ResetOnLogon, KillIds, IndInv, Control, IdsIssued, OrdersKnown, KsApart,
         [ShutdownNext]_allvars
  PROVE  KsApart'
<1>1. /\ outbound \in Seq(Messages) /\ inbound \in Seq(ExecutionReports)
      /\ Len(outbound) \in Nat /\ Len(inbound) \in Nat
  BY DEF IndInv, TypeOK
<1>2. CASE Delivers
  <2>1. outbound' = outbound /\ book' = book
    BY <1>2 DEF Delivers
  <2>2. ASSUME NEW k \in 1..Len(inbound') PROVE \E j \in 1..Len(inbound) : inbound'[k] = inbound[j]
    <3>1. CASE inbound' = inbound
      BY <3>1
    <3>2. CASE inbound # << >> /\ inbound' = Tail(inbound)
      <4>1. k + 1 \in 1..Len(inbound) /\ inbound'[k] = inbound[k + 1]
        BY <1>1, <3>2
      <4> QED BY <4>1
    <3> QED BY <1>2, <3>1, <3>2 DEF Delivers
  <2> QED BY <2>1, <2>2 DEF KsApart
<1>3. ASSUME NEW m \in Messages, Sends(m), OrderSent(m) \/ CancelSent(m) \/ ClosingSent(m)
      PROVE  KsApart'
  <2>1. /\ inbound' = inbound /\ book' = book
        /\ \A k \in 1..Len(outbound') : \/ outbound'[k] = m
                                        \/ k \in 1..Len(outbound) /\ outbound'[k] = outbound[k]
    BY <1>1, <1>3 DEF Sends
  <2>2. /\ m.msg_type = "NewOrderSingle" => ~IsKs(m.cl_ord_id)
        /\ m.msg_type = "OrderCancelRequest" => IsKs(m.cl_ord_id) /\ m.orig_cl_ord_id[1] = "ORD"
    <3>1. CASE OrderSent(m)
      BY <3>1 DEF OrderSent, IsKs
    <3>2. CASE CancelSent(m)
      <4>1. /\ CancelSlot /\ m = ToCancelRequest(orders[slot], CancelId(count + 1))
            /\ m.msg_type = "OrderCancelRequest"
        BY <3>2 DEF CancelSent
      <4>2. slot \in 1..Len(orders) /\ m.cl_ord_id = CancelId(count + 1) /\ m.orig_cl_ord_id = orders[slot].order_id
        BY <4>1, CancelSlotSends
      <4>3. orders[slot].order_id[1] = "ORD"
        BY <4>2 DEF OrdersKnown
      <4> QED BY <4>1, <4>2, <4>3 DEF IsKs, CancelId
    <3>3. CASE ClosingSent(m)
      <4>1. FlattenSlot /\ m = ClosingOrder(positions[slot], count + 1) /\ m.msg_type = "NewOrderSingle"
        BY <3>3 DEF ClosingSent
      <4>2. m.cl_ord_id = FlatId(count + 1)
        BY <4>1, FlattenSlotSends
      <4> QED BY <4>1, <4>2 DEF IsKs, FlatId
    <3> QED BY <1>3, <3>1, <3>2, <3>3
  <2> QED BY <2>1, <2>2 DEF KsApart
<1>4. ASSUME NEW r \in ExecutionReports, inbound' = Append(inbound, r),
             IsKs(r.cl_ord_id) => r.exec_type \in {"Canceled", "Rejected"},
             \/ outbound' = outbound
             \/ outbound # << >> /\ outbound' = Tail(outbound),
             \A oid \in OrderIds : book'[oid].state # "None" => ~IsKs(oid)
      PROVE  KsApart'
  <2>1. \A k \in 1..Len(inbound') : inbound'[k] = r \/ (k \in 1..Len(inbound) /\ inbound'[k] = inbound[k])
    BY <1>1, <1>4
  <2>2. ASSUME NEW k \in 1..Len(outbound') PROVE \E j \in 1..Len(outbound) : outbound'[k] = outbound[j]
    <3>1. CASE outbound' = outbound
      BY <3>1
    <3>2. CASE outbound # << >> /\ outbound' = Tail(outbound)
      <4>1. k + 1 \in 1..Len(outbound) /\ outbound'[k] = outbound[k + 1]
        BY <1>1, <3>2
      <4> QED BY <4>1
    <3> QED BY <1>4, <3>1, <3>2
  <2> QED BY <1>4, <2>1, <2>2 DEF KsApart
<1>5. ASSUME NEW r \in ExecutionReports, TakesOrder(r) PROVE KsApart'
  <2>1. /\ outbound # << >> /\ outbound' = Tail(outbound) /\ inbound' = Append(inbound, r)
        /\ r.cl_ord_id = Head(outbound).cl_ord_id /\ Head(outbound).msg_type = "NewOrderSingle"
        /\ \A id \in OrderIds : id # r.cl_ord_id => book'[id] = book[id]
    BY <1>5 DEF TakesOrder, Answers
  <2>2. Head(outbound) = outbound[1] /\ 1 \in 1..Len(outbound)
    BY <1>1, <2>1
  <2>3. ~IsKs(r.cl_ord_id)
    BY <2>1, <2>2 DEF KsApart
  <2>4. \A oid \in OrderIds : book'[oid].state # "None" => ~IsKs(oid)
    BY <2>1, <2>3 DEF KsApart
  <2> QED BY <1>4, <2>1, <2>3, <2>4
<1>6. CASE AcceptCancel \/ RefuseCancel
  <2>1. PICK r \in ExecutionReports :
          /\ outbound # << >> /\ outbound' = Tail(outbound) /\ inbound' = Append(inbound, r)
          /\ r.exec_type \in {"Canceled", "Rejected"}
          /\ \A id \in OrderIds : \/ book'[id] = book[id]
                                  \/ book[id].state = "Live" /\ book'[id].state = "Cancelled"
    BY <1>6, CancelAnswered, Zenon
  <2>2. \A oid \in OrderIds : book'[oid].state # "None" => ~IsKs(oid)
    BY <2>1 DEF KsApart
  <2> QED BY <1>4, <2>1, <2>2
<1>7. ASSUME NEW r \in ExecutionReports, Tells(r) PROVE KsApart'
  <2>1. /\ outbound' = outbound /\ inbound' = Append(inbound, r) /\ book[r.cl_ord_id].state = "Live"
        /\ \A id \in OrderIds : id # r.cl_ord_id => book'[id] = book[id]
        /\ r.cl_ord_id \in OrderIds
    BY <1>7 DEF Tells, ExecutionReports
  <2>2. ~IsKs(r.cl_ord_id)
    BY <2>1 DEF KsApart
  <2>3. \A oid \in OrderIds : book'[oid].state # "None" => ~IsKs(oid)
    BY <2>1, <2>2 DEF KsApart
  <2> QED BY <1>4, <2>1, <2>2, <2>3
<1>8. \/ Delivers
      \/ \E m \in Messages : Sends(m) /\ (OrderSent(m) \/ CancelSent(m) \/ ClosingSent(m))
      \/ \E r \in ExecutionReports : TakesOrder(r) \/ TakesCancel(r) \/ Tells(r)
  BY Traffic
<1>9. \A r : TakesCancel(r) => AcceptCancel \/ RefuseCancel
  BY DEF TakesCancel
<1> QED BY <1>2, <1>3, <1>5, <1>6, <1>7, <1>8, <1>9

(* The answers under way, counted. *)
LEMMA ConfirmsType ==
  ASSUME NEW rs \in Seq(ExecutionReports)
  PROVE  /\ Confirms(rs) \in Seq(Int) /\ Len(Confirms(rs)) = Len(rs)
         /\ \A k \in 1..Len(rs) : Confirms(rs)[k] = ConfirmOf(rs[k])
         /\ SumOf(Confirms(rs)) \in Int
<1>1. Len(rs) \in Nat /\ \A k \in 1..Len(rs) : ConfirmOf(rs[k]) \in Int
  BY DEF ConfirmOf
<1>2. /\ Confirms(rs) \in Seq(Int) /\ Len(Confirms(rs)) = Len(rs)
      /\ \A k \in 1..Len(rs) : Confirms(rs)[k] = ConfirmOf(rs[k])
  BY <1>1 DEF Confirms
<1> QED BY <1>2, SumType

(* One report more. *)
LEMMA ConfirmsAppend ==
  ASSUME NEW rs \in Seq(ExecutionReports), NEW r \in ExecutionReports
  PROVE  SumOf(Confirms(Append(rs, r))) = SumOf(Confirms(rs)) + ConfirmOf(r)
<1> DEFINE v == Confirms(rs)
           x == ConfirmOf(r)
<1>1. v \in Seq(Int) /\ Len(v) = Len(rs) /\ x \in Int /\ \A i \in 1..Len(rs) : v[i] = ConfirmOf(rs[i])
  BY ConfirmsType DEF ConfirmOf
<1>2. Confirms(Append(rs, r)) = Append(v, x)
  <2>1. /\ Len(Append(rs, r)) = Len(rs) + 1 /\ Len(rs) \in Nat
        /\ \A i \in 1..(Len(rs) + 1) : Append(rs, r)[i] = IF i = Len(rs) + 1 THEN r ELSE rs[i]
    OBVIOUS
  <2>2. Append(v, x) = [i \in 1..(Len(rs) + 1) |-> IF i = Len(rs) + 1 THEN x ELSE v[i]]
    BY <1>1 DEF Confirms
  <2> HIDE DEF v
  <2> QED BY <1>1, <2>1, <2>2 DEF Confirms
<1> HIDE DEF v, x
<1>3. SumOf(Append(v, x)) = SumOf(v) + x
  BY <1>1, SumAppend
<1> QED BY <1>2, <1>3 DEF v, x

(* One report less. *)
LEMMA ConfirmsTail ==
  ASSUME NEW rs \in Seq(ExecutionReports), rs # << >>
  PROVE  SumOf(Confirms(rs)) = ConfirmOf(Head(rs)) + SumOf(Confirms(Tail(rs)))
<1> DEFINE v == Confirms(rs)
<1>1. v \in Seq(Int) /\ Len(v) = Len(rs) /\ \A i \in 1..Len(rs) : v[i] = ConfirmOf(rs[i])
  BY ConfirmsType
<1>2. /\ Head(rs) = rs[1] /\ 1 \in 1..Len(rs) /\ Len(rs) \in Nat /\ Len(Tail(rs)) = Len(rs) - 1
      /\ \A i \in 1..(Len(rs) - 1) : Tail(rs)[i] = rs[i + 1]
  OBVIOUS
<1>3. v # << >> /\ v[1] = ConfirmOf(Head(rs))
  BY <1>1, <1>2
<1>4. Confirms(Tail(rs)) = Tail(v)
  <2>1. Tail(v) = [i \in 1..(Len(rs) - 1) |-> v[i + 1]]
    BY <1>1, <1>3 DEF Confirms
  <2> HIDE DEF v
  <2>2. \A i \in 1..(Len(rs) - 1) : v[i + 1] = ConfirmOf(Tail(rs)[i])
    BY <1>1, <1>2
  <2> QED BY <1>2, <2>1, <2>2 DEF Confirms
<1>5. SumOf(v) = v[1] + SumOf(Tail(v))
  BY <1>1, <1>3, SumTail
<1> QED BY <1>3, <1>4, <1>5 DEF v

(* One event more in the log. *)
LEMMA ConfirmedGrows ==
  ASSUME log \in Seq(FillEvents), NEW e, log' = Append(log, e)
  PROVE  /\ Cardinality(Confirmed) \in Nat
         /\ Cardinality(Confirmed') = Cardinality(Confirmed) + IF IsKs(e.order_id) THEN 1 ELSE 0
<1> DEFINE n == Len(log)
           S == Confirmed
<1>1. n \in Nat /\ Len(log') = n + 1 /\ log'[n + 1] = e /\ \A k \in 1..n : log'[k] = log[k]
  OBVIOUS
<1>2. IsFiniteSet(S) /\ Cardinality(S) \in Nat /\ n + 1 \notin S
  <2>1. IsFiniteSet(1..n) /\ S \in SUBSET (1..n)
    BY <1>1, FS_Interval DEF Confirmed
  <2>2. n + 1 \notin 1..n
    BY <1>1
  <2> QED BY <2>1, <2>2, FS_Subset, FS_CardinalityType
<1>3. \A k : k \in 1..(n + 1) <=> k \in 1..n \/ k = n + 1
  BY <1>1
<1>4. CASE IsKs(e.order_id)
  <2>1. Confirmed' = S \cup {n + 1}
    BY <1>1, <1>3, <1>4 DEF Confirmed
  <2>2. Cardinality(S \cup {n + 1}) = Cardinality(S) + 1
    BY <1>2, FS_AddElement
  <2> QED BY <1>2, <1>4, <2>1, <2>2
<1>5. CASE ~IsKs(e.order_id)
  <2>1. Confirmed' = S
    BY <1>1, <1>3, <1>5 DEF Confirmed
  <2> QED BY <1>2, <1>5, <2>1
<1> QED BY <1>4, <1>5

(* The confirmations the process has been sent. *)
Answered == Cardinality(Confirmed) + SumOf(Confirms(Unlogged))

(* Both parts are numbers. *)
LEMMA AnsweredType ==
  ASSUME IndInv
  PROVE  /\ Cardinality(Confirmed) \in Nat /\ SumOf(Confirms(Unlogged)) \in Int /\ Answered \in Int
         /\ Unlogged \in Seq(ExecutionReports)
<1>1. inbound \in Seq(ExecutionReports) /\ Len(log) \in Nat
  BY DEF IndInv, TypeOK
<1>2. Unlogged \in Seq(ExecutionReports)
  <2>1. ipc \in {"logged", "tracked"} => inbound # << >>
    BY DEF IndInv, ReportAtHand
  <2> QED BY <1>1, <2>1 DEF Unlogged
<1>3. Cardinality(Confirmed) \in Nat
  <2>1. IsFiniteSet(1..Len(log)) /\ Confirmed \in SUBSET (1..Len(log))
    BY <1>1, FS_Interval DEF Confirmed
  <2> QED BY <2>1, FS_Subset, FS_CardinalityType
<1>4. SumOf(Confirms(Unlogged)) \in Int
  BY <1>2, ConfirmsType
<1> QED BY <1>2, <1>3, <1>4 DEF Answered

(* A report joins the ones under way. *)
LEMMA AnsweredTold ==
  ASSUME IndInv, ReportAtHandHandled, NEW r \in ExecutionReports, inbound' = Append(inbound, r),
         UNCHANGED <<log, io>>
  PROVE  ReportAtHandHandled' /\ Answered' = Answered + ConfirmOf(r)
<1>1. inbound \in Seq(ExecutionReports) /\ UNCHANGED <<ipc, ievt>>
  BY DEF IndInv, TypeOK, io
<1>2. ipc # "idle" => inbound # << >>
  BY DEF IndInv, ReportAtHand
<1>3. inbound # << >> => Head(inbound') = Head(inbound) /\ Tail(inbound') = Append(Tail(inbound), r)
  BY <1>1
<1>4. ReportAtHandHandled'
  BY <1>1, <1>2, <1>3 DEF ReportAtHandHandled
<1>5. Unlogged' = Append(Unlogged, r)
  BY <1>1, <1>2, <1>3 DEF Unlogged
<1> DEFINE u == Unlogged
           a == Cardinality(Confirmed)
           b == SumOf(Confirms(u))
           c == ConfirmOf(r)
<1>6. u \in Seq(ExecutionReports) /\ a \in Nat /\ b \in Int /\ c \in Int
  BY AnsweredType DEF ConfirmOf
<1>7. SumOf(Confirms(Append(u, r))) = b + c
  BY <1>6, ConfirmsAppend
<1>8. Confirmed' = Confirmed
  BY DEF Confirmed
<1> HIDE DEF a, b, c
<1>9. a + (b + c) = (a + b) + c
  BY <1>6
<1> QED BY <1>4, <1>5, <1>7, <1>8, <1>9 DEF Answered, a, b, c

(* What the process does with them: they go into the log. *)
LEMMA AnsweredBooked ==
  ASSUME ~ResetOnLogon, IndInv, IdsIssued, KsApart, ReportAtHandHandled,
         \/ Strategy \/ IOThread \/ CancelSlot \/ FlattenSlot \/ UNCHANGED vars
  PROVE  ReportAtHandHandled' /\ Answered' = Answered
<1>1. CASE UNCHANGED <<log, ipc, inbound>>
  BY <1>1 DEF ReportAtHandHandled, Answered, Confirmed, Unlogged
<1>2. CASE RecordOrder
  <2>1. spc = "passed" /\ UNCHANGED <<ipc, inbound>>
    BY <1>2 DEF RecordOrder, io, exchange
  <2>2. CASE Len(log) < MaxEvents
    <3> DEFINE oid == OrdId(order_counter)
    <3>1. req' = [req EXCEPT !.order_id = oid] /\ log' = Append(log, Stored(req'))
      BY <1>2, <2>2 DEF RecordOrder
    <3>2. Request(req, None) /\ oid \in OrderIds /\ log \in Seq(FillEvents)
      BY <2>1 DEF IndInv, RequestOK
    <3>3. oid[1] = "ORD"
      BY DEF OrdId
    <3> HIDE DEF oid
    <3>4. Request(req', oid)
      BY <3>1, <3>2, RequestEvent
    <3> DEFINE e == req'
    <3>5. e \in FillEvents /\ e.order_id = oid /\ log' = Append(log, Stored(e))
      BY <3>1, <3>2, <3>4, RequestEvent
    <3> HIDE DEF e
    <3>6. Stored(e).order_id = oid
      BY <2>2, <3>2, <3>5, LogGrows
    <3>7. Cardinality(Confirmed) \in Nat /\ Cardinality(Confirmed') = Cardinality(Confirmed) + 0
      BY <3>2, <3>3, <3>5, <3>6, ConfirmedGrows DEF IsKs
    <3>8. Cardinality(Confirmed') = Cardinality(Confirmed)
      BY <3>7
    <3> QED BY <2>1, <3>8 DEF ReportAtHandHandled, Answered, Unlogged
  <2>3. CASE ~(Len(log) < MaxEvents)
    BY <1>1, <1>2, <2>1, <2>3 DEF RecordOrder
  <2> QED BY <2>2, <2>3
<1>3. CASE TakeReport
  <2>1. /\ ipc = "idle" /\ ipc' = "translated" /\ Head(inbound).msg_type = "ExecutionReport"
        /\ UNCHANGED <<log, inbound>>
    BY <1>3 DEF TakeReport, Deliverable, exchange
  <2> QED BY <2>1 DEF ReportAtHandHandled, Answered, Confirmed, Unlogged
<1>4. CASE TrackReport
  <2>1. ipc = "logged" /\ ipc' = "tracked" /\ UNCHANGED <<log, inbound>>
    BY <1>4 DEF TrackReport, exchange
  <2> QED BY <2>1 DEF ReportAtHandHandled, Answered, Confirmed, Unlogged
<1>5. CASE ProjectReport
  <2>1. ipc = "tracked" /\ ipc' = "idle" /\ log' = log /\ inbound' = Tail(inbound)
    BY <1>5 DEF ProjectReport
  <2> QED BY <2>1 DEF ReportAtHandHandled, Answered, Confirmed, Unlogged
<1>6. CASE LogReport
  <2> DEFINE r == Head(inbound)
             t == Tail(inbound)
             e == Stored(ievt)
             a == Cardinality(Confirmed)
             b == SumOf(Confirms(t))
             c == ConfirmOf(r)
  <2>1. /\ ipc = "translated" /\ ipc' = "logged" /\ Len(log) < MaxEvents /\ log' = Append(log, e)
        /\ inbound' = inbound /\ inbound # << >> /\ ievt \in FromExecutionReport(r)
    BY <1>6 DEF LogReport, exchange, IndInv, ReportAtHand
  <2>2. /\ log \in Seq(FillEvents) /\ inbound \in Seq(ExecutionReports)
        /\ r \in ExecutionReports /\ ReportOK(r) /\ t \in Seq(ExecutionReports)
    <3>1. inbound \in Seq(ExecutionReports) /\ \A k \in 1..Len(inbound) : ReportOK(inbound[k])
      BY DEF IndInv, TypeOK
    <3> QED BY <2>1, <3>1 DEF IndInv
  <2>3. ievt \in FillEvents /\ ievt.order_id = r.cl_ord_id
    <3> HIDE DEF r
    <3> QED BY <2>1, <2>2, ReportEvent
  <2>4. e.order_id = r.cl_ord_id
    BY <2>1, <2>2, <2>3, LogGrows
  <2>5. r.msg_type = "ExecutionReport"
    BY <2>1 DEF ReportAtHandHandled
  <2>6. c = IF IsKs(e.order_id) THEN 1 ELSE 0
    BY <2>4, <2>5 DEF ConfirmOf
  <2>7. SumOf(Confirms(inbound)) = c + b /\ b \in Int /\ c \in Int
    <3>1. SumOf(Confirms(inbound)) = c + b
      BY <2>1, <2>2, ConfirmsTail
    <3>2. b \in Int
      <4> HIDE DEF t
      <4> QED BY <2>2, ConfirmsType
    <3>3. c \in Int
      <4> HIDE DEF c
      <4> QED BY <2>6
    <3> QED BY <3>1, <3>2, <3>3
  <2>8. a \in Nat /\ Cardinality(Confirmed') = a + c
    <3> HIDE DEF e, c
    <3> QED BY <2>1, <2>2, <2>6, ConfirmedGrows
  <2>9. Unlogged = inbound /\ Unlogged' = t
    BY <2>1 DEF Unlogged
  <2> HIDE DEF a, b, c
  <2>10. (a + c) + b = a + (c + b)
    BY <2>7, <2>8
  <2>11. Answered' = Answered
    BY <2>7, <2>8, <2>9, <2>10 DEF Answered, a, b
  <2> QED BY <2>1, <2>11 DEF ReportAtHandHandled
<1>7. CASE DropReport
  <2> DEFINE r == Head(inbound)
             t == Tail(inbound)
             b == SumOf(Confirms(t))
  <2>1. /\ ipc = "idle" /\ ipc' = ipc /\ log' = log /\ inbound # << >>
        /\ inbound' = t /\ FromExecutionReport(r) = {}
    BY <1>7 DEF DropReport, Deliverable, io
  <2>2. /\ inbound \in Seq(ExecutionReports) /\ t \in Seq(ExecutionReports)
        /\ r = inbound[1] /\ 1 \in 1..Len(inbound)
    <3>1. inbound \in Seq(ExecutionReports)
      BY DEF IndInv, TypeOK
    <3> QED BY <2>1, <3>1
  <2> HIDE DEF r
  <2>3. r.exec_type \notin {"Canceled", "Rejected"}
    BY <2>1, TranslatedEvents
  <2>4. ConfirmOf(r) = 0
    BY <2>2, <2>3 DEF KsApart, ConfirmOf
  <2>5. SumOf(Confirms(inbound)) = 0 + b /\ b \in Int
    BY <2>1, <2>2, <2>4, ConfirmsTail, ConfirmsType DEF r
  <2> HIDE DEF b
  <2>6. SumOf(Confirms(inbound)) = b
    BY <2>5
  <2> QED BY <2>1, <2>6 DEF ReportAtHandHandled, Answered, Confirmed, Unlogged, b
<1>8. CASE Strategy
  BY <1>1, <1>2, <1>8 DEF Strategy, SendOrder, CheckRisk, ProjectOrder, TransmitOrder, io, exchange
<1>9. CASE IOThread
  BY <1>1, <1>3, <1>4, <1>5, <1>6, <1>7, <1>9 DEF IOThread, Logon, Logout, io, exchange
<1>10. CASE CancelSlot \/ FlattenSlot \/ UNCHANGED vars
  BY <1>1, <1>10 DEF CancelSlot, FlattenSlot, NextSlot, vars, io, exchange
<1> QED BY <1>8, <1>9, <1>10

(* A new slot, or a booking that does not close it, leaves a slot open. *)
LEMMA OpenSlotStays ==
  ASSUME NEW z, IndInv, IdsIssued, SlotForAll, OrdersKnown, LingersBut(z), up', [ShutdownNext]_allvars,
         NEW i \in 1..Len(orders), IsOpen(orders[i]),
         \A k \in 1..Len(inbound) :
           inbound[k].cl_ord_id = orders[i].order_id => inbound[k].exec_type \notin Closing
  PROVE  i \in 1..Len(orders') /\ IsOpen(orders'[i]) /\ orders'[i].order_id = orders[i].order_id
<1>1. CASE orders' = orders
  BY <1>1
<1>2. CASE ProjectOrder
  <2>1. spc = "logged" /\ orders' = BookOrder(orders, req)
    BY <1>2 DEF ProjectOrder
  <2>2. req \in Events /\ req.type = "NewOrder" /\ orders \in OrderTable /\ Len(orders) \in Nat
    BY <2>1, RequestAtHand DEF IndInv, TypeOK, OrderTable
  <2>3. FindOrder(orders, req.order_id) = 0 /\ Len(orders) < MaxOrders
    BY <2>1, NoSlotYet
  <2>4. Len(orders') = Len(orders) + 1 /\ \A k \in 1..Len(orders) : orders'[k] = orders[k]
    BY <2>1, <2>2, <2>3, BookOrderNew
  <2> QED BY <2>2, <2>4
<1>3. CASE ProjectReport
  <2>1. inbound # << >> /\ inbound \in Seq(ExecutionReports)
    BY <1>3 DEF ProjectReport, IndInv, TypeOK, ReportAtHand
  <2>2. Head(inbound) = inbound[1] /\ 1 \in 1..Len(inbound)
    BY <2>1
  <2>3. /\ Len(orders') = Len(orders) /\ orders'[i].order_id = orders[i].order_id
        /\ ~IsOpen(orders'[i]) =>
             orders[i].order_id = Head(inbound).cl_ord_id /\ Head(inbound).exec_type \in Closing
    BY <1>3, ProjectReportLingers
  <2> QED BY <2>2, <2>3
<1>4. CASE Next
  BY <1>1, <1>2, <1>3, <1>4, UpBefore
     DEF Next, Strategy, SendOrder, CheckRisk, RecordOrder, TransmitOrder, IOThread, Logon, Logout,
         DropReport, TakeReport, LogReport, TrackReport, Process, Crash, TerminateLogFull, Restart,
         Down, Exchange, AcceptOrder, RefuseOrder, Trade, CancelOrder, ExpireOrder
<1>5. CASE UNCHANGED vars \/ CancelSlot \/ FlattenSlot \/ AcceptCancel \/ RefuseCancel
  BY <1>1, <1>5 DEF vars, CancelSlot, FlattenSlot, NextSlot, AcceptCancel, RefuseCancel
<1> QED BY <1>4, <1>5, UpBefore

(* The exchange has nothing more to say of a cancelled order. *)
LEMMA CancelledStays ==
  ASSUME ~ResetOnLogon, KillIds, IndInv, Control, IdsIssued, OrdersKnown, [ShutdownNext]_allvars,
         NEW x \in OrderIds, book[x].state = "Cancelled",
         \A k \in 1..Len(inbound) : inbound[k].cl_ord_id = x => inbound[k].exec_type \notin Closing
  PROVE  /\ book'[x].state = "Cancelled"
         /\ \A k \in 1..Len(inbound') : inbound'[k].cl_ord_id = x => inbound'[k].exec_type \notin Closing
<1>1. /\ outbound \in Seq(Messages) /\ inbound \in Seq(ExecutionReports)
      /\ Len(outbound) \in Nat /\ Len(inbound) \in Nat
  BY DEF IndInv, TypeOK
<1>2. CASE Delivers
  <2>1. book' = book
    BY <1>2 DEF Delivers
  <2>2. ASSUME NEW k \in 1..Len(inbound') PROVE \E j \in 1..Len(inbound) : inbound'[k] = inbound[j]
    <3>1. CASE inbound' = inbound
      BY <3>1
    <3>2. CASE inbound # << >> /\ inbound' = Tail(inbound)
      <4>1. k + 1 \in 1..Len(inbound) /\ inbound'[k] = inbound[k + 1]
        BY <1>1, <3>2
      <4> QED BY <4>1
    <3> QED BY <1>2, <3>1, <3>2 DEF Delivers
  <2> QED BY <2>1, <2>2
<1>3. CASE \E m \in Messages : Sends(m)
  BY <1>3 DEF Sends
<1>4. ASSUME NEW r \in ExecutionReports, inbound' = Append(inbound, r), r.cl_ord_id # x, book'[x] = book[x]
      PROVE  /\ book'[x].state = "Cancelled"
             /\ \A k \in 1..Len(inbound') : inbound'[k].cl_ord_id = x => inbound'[k].exec_type \notin Closing
  <2>1. \A k \in 1..Len(inbound') : inbound'[k] = r \/ (k \in 1..Len(inbound) /\ inbound'[k] = inbound[k])
    BY <1>1, <1>4
  <2> QED BY <1>4, <2>1
<1>5. ASSUME NEW r \in ExecutionReports, Answers(r) PROVE r.cl_ord_id # x
  <2>1. outbound # << >> /\ r.cl_ord_id = Head(outbound).cl_ord_id
    BY <1>5 DEF Answers
  <2>2. Head(outbound) = outbound[1] /\ 1 \in 1..Len(outbound)
    BY <1>1, <2>1
  <2>3. book[r.cl_ord_id].state = "None"
    BY <2>1, <2>2 DEF OrdersKnown, OnTheWay
  <2> QED BY <2>3
<1>6. ASSUME NEW r \in ExecutionReports, TakesOrder(r)
      PROVE  inbound' = Append(inbound, r) /\ r.cl_ord_id # x /\ book'[x] = book[x]
  <2>1. Answers(r) /\ inbound' = Append(inbound, r) /\ \A id \in OrderIds : id # r.cl_ord_id => book'[id] = book[id]
    BY <1>6 DEF TakesOrder, Answers
  <2> QED BY <1>5, <2>1
<1>7. ASSUME NEW r \in ExecutionReports, TakesCancel(r)
      PROVE  inbound' = Append(inbound, r) /\ r.cl_ord_id # x /\ book'[x] = book[x]
  <2>1. /\ Answers(r) /\ inbound' = Append(inbound, r)
        /\ \A id \in OrderIds : book'[id] = book[id] \/ book[id].state = "Live"
    BY <1>7 DEF TakesCancel, Answers
  <2> QED BY <1>5, <2>1
<1>8. ASSUME NEW r \in ExecutionReports, Tells(r)
      PROVE  inbound' = Append(inbound, r) /\ r.cl_ord_id # x /\ book'[x] = book[x]
  BY <1>8 DEF Tells
<1>9. \/ Delivers \/ \E m \in Messages : Sends(m)
      \/ \E r \in ExecutionReports : TakesOrder(r) \/ TakesCancel(r) \/ Tells(r)
  BY Traffic
<1> QED BY <1>2, <1>3, <1>4, <1>6, <1>7, <1>8, <1>9

(* So its slot stays as it is. *)
LEMMA StaysOpenStep ==
  ASSUME ~ResetOnLogon, KillIds, NEW z, IndInv, Control, IdsIssued, SlotForAll, OrdersKnown,
         LingersBut(z), up', [ShutdownNext]_allvars, NEW x, StaysOpen(x)
  PROVE  StaysOpen(x)'
<1>1. /\ x \in OrderIds /\ book[x].state = "Cancelled"
      /\ \A k \in 1..Len(inbound) : inbound[k].cl_ord_id = x => inbound[k].exec_type \notin Closing
  BY DEF StaysOpen
<1>2. PICK i \in 1..Len(orders) : orders[i].order_id = x /\ IsOpen(orders[i])
  BY DEF StaysOpen
<1>3. i \in 1..Len(orders') /\ IsOpen(orders'[i]) /\ orders'[i].order_id = x
  BY <1>1, <1>2, OpenSlotStays
<1>4. /\ book'[x].state = "Cancelled"
      /\ \A k \in 1..Len(inbound') : inbound'[k].cl_ord_id = x => inbound'[k].exec_type \notin Closing
  BY <1>1, CancelledStays
<1> QED BY <1>1, <1>3, <1>4 DEF StaysOpen

(* A message of the killswitch makes nothing less due. *)
LEMMA SentLingers ==
  ASSUME NEW z, IndInv, LingersBut(z), NEW m, outbound' = Append(outbound, m),
         UNCHANGED <<orders, inbound, book, strategy>>
  PROVE  LingersBut(z)'
<1> DEFINE out == outbound
           ou == outbound'
           w == Booked \cup z
<1>1. UNCHANGED <<spc, req>> /\ Booked' \cup z = w
  BY DEF strategy, Booked
<1>2. \A k \in 1..Len(out) : k \in 1..Len(ou) /\ ou[k] = out[k]
  BY DEF IndInv
<1> HIDE DEF out, ou, w
<1>3. \A id : Due(book, inbound, out, w, id) => Due(book, inbound, ou, w, id)
  BY <1>2 DEF Due
<1>4. LingersIn(orders, book, inbound, out, w)
  BY DEF LingersBut, out, w
<1>5. LingersIn(orders, book, inbound, ou, w)
  BY <1>3, <1>4 DEF LingersIn, SlotDue
<1> QED BY <1>1, <1>5 DEF LingersBut, ou

(* The answer to a cancel request is about no order the manager has. *)
LEMMA AnswerFits ==
  ASSUME NEW z, IndInv, OrdersKnown, KsApart, LingersBut(z), outbound # << >>,
         Head(outbound).msg_type = "OrderCancelRequest", NEW r \in ExecutionReports,
         r.cl_ord_id = Head(outbound).cl_ord_id, r.last_shares = 0,
         r.exec_type \in {"Canceled", "Rejected"}
  PROVE  /\ ReportFits(book, book, inbound, orders, r) /\ IsKs(r.cl_ord_id)
         /\ book[r.cl_ord_id].state = "None"
<1> DEFINE c == r.cl_ord_id
<1>1. c \in OrderIds /\ outbound \in Seq(Messages) /\ book \in Books
  BY DEF ExecutionReports, IndInv, TypeOK, Books, BookEntry
<1>2. Head(outbound) = outbound[1] /\ 1 \in 1..Len(outbound)
  BY <1>1
<1>3. IsKs(c) /\ book[c].state = "None" /\ Unreported(inbound, c)
  BY <1>2 DEF KsApart, OrdersKnown, OnTheWay
<1>4. \A i \in 1..Len(orders) : orders[i].order_id # c
  BY <1>3 DEF OrdersKnown, IsKs
<1>5. book[c].filled = 0
  BY <1>1, <1>3 DEF LingersBut, LingersIn, OrderDue
<1>6. book[c].filled = book[c].filled + r.last_shares
  BY <1>5
<1> HIDE DEF c
<1>7. ReportFits(book, book, inbound, orders, r)
  BY <1>3, <1>4, <1>5, <1>6 DEF ReportFits, Closing, Unreported, c
<1> QED BY <1>3, <1>7 DEF c

(* A live order is cancelled behind the manager's back. *)
LEMMA CancelledIn ==
  ASSUME NEW os \in Seq(Order), NEW bk, NEW bl, NEW rs \in Seq(ExecutionReports), NEW out, NEW w,
         NEW x, LingersIn(os, bk, rs, out, w),
         bk[x].state = "Live", bk[x].filled < bk[x].qty, bl[x].state = "Cancelled",
         bl[x].filled = bk[x].filled, bl[x].qty = bk[x].qty,
         \A id \in OrderIds : id # x => bl[id] = bk[id]
  PROVE  LingersIn(os, bl, rs, out, w \cup {x})
<1>1. /\ IdsDiffer(os) /\ \A i \in 1..Len(os) : SlotDue(bk, rs, out, w, os[i])
      /\ \A oid \in OrderIds : OrderDue(bk, rs, oid)
      /\ ReportsDue(bk, rs)
  BY DEF LingersIn
<1>2. ASSUME NEW i \in 1..Len(os) PROVE SlotDue(bl, rs, out, w \cup {x}, os[i])
  <2> DEFINE id == os[i].order_id
  <2>1. SlotDue(bk, rs, out, w, os[i]) /\ id \in OrderIds
    <3>1. os[i] \in Order
      OBVIOUS
    <3> QED BY <1>1, <3>1 DEF Order
  <2>2. CASE id = x
    BY <2>1, <2>2 DEF SlotDue, Due
  <2>3. CASE id # x
    <3>1. bl[id] = bk[id]
      BY <2>1, <2>3
    <3>2. Due(bk, rs, out, w, id) => Due(bl, rs, out, w \cup {x}, id)
      BY <3>1 DEF Due
    <3> QED BY <2>1, <3>1, <3>2 DEF SlotDue
  <2> QED BY <2>2, <2>3
<1>3. ASSUME NEW id \in OrderIds PROVE OrderDue(bl, rs, id)
  <2>1. CASE id = x
    BY <2>1 DEF OrderDue
  <2>2. CASE id # x
    <3>1. bl[id] = bk[id] /\ OrderDue(bk, rs, id)
      BY <1>1, <2>2
    <3> QED BY <3>1 DEF OrderDue
  <2> QED BY <2>1, <2>2
<1>4. ReportsDue(bl, rs)
  <2> SUFFICES ASSUME NEW k \in 1..Len(rs)
               PROVE  /\ rs[k].exec_type = "Fill" => bl[rs[k].cl_ord_id].state = "Filled"
                      /\ rs[k].last_shares > 0 => bl[rs[k].cl_ord_id].state # "None"
    BY <1>1 DEF ReportsDue
  <2> DEFINE id == rs[k].cl_ord_id
  <2>1. id \in OrderIds
    <3>1. rs[k] \in ExecutionReports
      OBVIOUS
    <3> QED BY <3>1 DEF ExecutionReports
  <2>2. /\ rs[k].exec_type = "Fill" => bk[id].state = "Filled"
        /\ rs[k].last_shares > 0 => bk[id].state # "None"
    BY <1>1 DEF ReportsDue
  <2> QED BY <2>1, <2>2
<1> QED BY <1>1, <1>2, <1>3, <1>4 DEF LingersIn

(* A refused cancel. *)
LEMMA RefuseCancelLingers ==
  ASSUME NEW z, IndInv, OrdersKnown, KsApart, ReportAtHandHandled, LingersBut(z), RefuseCancel
  PROVE  LingersBut(z)' /\ ReportAtHandHandled' /\ Answered' = Answered
<1>1. PICK r \in ExecutionReports :
        /\ outbound # << >> /\ Head(outbound).msg_type = "OrderCancelRequest"
        /\ outbound' = Tail(outbound) /\ r.cl_ord_id = Head(outbound).cl_ord_id /\ r.last_shares = 0
        /\ r.exec_type \in {"Canceled", "Rejected"} /\ inbound' = Append(inbound, r)
        /\ ~AcceptCancel => r.msg_type = "OrderCancelReject" /\ book' = book
        /\ UNCHANGED <<orders, log, strategy, io>>
  BY CancelAnswered, Zenon
<1>2. ~AcceptCancel
  BY DEF RefuseCancel, AcceptCancel
<1>3. ReportFits(book, book, inbound, orders, r)
  BY <1>1, AnswerFits
<1>4. LingersBut(z)'
  BY <1>1, <1>2, <1>3, ReportLingers DEF strategy
<1>5. ConfirmOf(r) = 0
  BY <1>1, <1>2 DEF ConfirmOf
<1>6. ReportAtHandHandled' /\ Answered' = Answered + 0
  BY <1>1, <1>5, AnsweredTold
<1> QED BY <1>4, <1>6, AnsweredType

(* A confirmed one: one answer and one lingering order more. *)
LEMMA AcceptCancelLingers ==
  ASSUME KillIds, NEW z, IndInv, OrdersKnown, KsApart, ReportAtHandHandled, LingersBut(z), AcceptCancel
  PROVE  \E x : /\ LingersBut(z \cup {x})' /\ StaysOpen(x)' /\ book[x].state = "Live"
                /\ ReportAtHandHandled' /\ Answered' = Answered + 1
<1>0. PICK x : x = Head(outbound).orig_cl_ord_id
  OBVIOUS
<1>1. PICK r \in ExecutionReports :
        /\ outbound # << >> /\ Head(outbound).msg_type = "OrderCancelRequest"
        /\ Head(outbound) = outbound[1] /\ 1 \in 1..Len(outbound)
        /\ outbound' = Tail(outbound) /\ r.cl_ord_id = Head(outbound).cl_ord_id /\ r.last_shares = 0
        /\ r.exec_type \in {"Canceled", "Rejected"} /\ inbound' = Append(inbound, r)
        /\ r.msg_type = "ExecutionReport" /\ book[x].state = "Live" /\ book'[x].state = "Cancelled"
        /\ x \in OrderIds
        /\ \A id \in OrderIds : /\ id # x => book'[id] = book[id]
                                /\ book'[id] = [book[id] EXCEPT !.state = book'[id].state]
        /\ UNCHANGED <<orders, log, strategy, io>>
  BY <1>0, CancelAnswered, Zenon
<1>2. ReportFits(book, book, inbound, orders, r) /\ IsKs(r.cl_ord_id) /\ book[r.cl_ord_id].state = "None"
  BY <1>1, AnswerFits
<1>3. /\ orders \in Seq(Order) /\ book \in Books /\ inbound \in Seq(ExecutionReports)
      /\ outbound \in Seq(Messages)
  BY DEF IndInv, TypeOK, Books, BookEntry
<1>4. LingersIn(orders, book, Append(inbound, r), outbound', Booked \cup z)
  <2>1. LingersIn(orders, book, inbound, outbound, Booked \cup z)
    BY DEF LingersBut
  <2> QED BY <1>1, <1>2, <1>3, <2>1, ReportJoins
<1>5. /\ book[x].filled < book[x].qty
      /\ \A k \in 1..Len(inbound) :
           inbound[k].cl_ord_id = x => inbound[k].exec_type \notin {"Fill", "Canceled", "Rejected"}
      /\ KnownSlot(orders, x, book[x].symbol, book[x].side, book[x].qty,
                   book[x].filled - QueuedFills(inbound, x))
  BY <1>1 DEF OrdersKnown, Covered
<1>6. book'[x].filled = book[x].filled /\ book'[x].qty = book[x].qty
  <2>1. book[x] \in BookEntry
    BY <1>1, <1>3 DEF Books
  <2> QED BY <1>1, <2>1 DEF BookEntry
<1>7. LingersBut(z \cup {x})'
  <2>1. LingersIn(orders, book', Append(inbound, r), outbound', (Booked \cup z) \cup {x})
    <3> DEFINE rs == Append(inbound, r)
               w == Booked \cup z
               bl == book'
               ou == outbound'
    <3>1. rs \in Seq(ExecutionReports) /\ LingersIn(orders, book, rs, ou, w)
      BY <1>3, <1>4
    <3>2. /\ book[x].state = "Live" /\ book[x].filled < book[x].qty /\ bl[x].state = "Cancelled"
          /\ bl[x].filled = book[x].filled /\ bl[x].qty = book[x].qty
      BY <1>1, <1>5, <1>6
    <3>3. \A id \in OrderIds : id # x => bl[id] = book[id]
      BY <1>1
    <3> HIDE DEF rs, w, bl, ou
    <3>4. LingersIn(orders, bl, rs, ou, w \cup {x})
      BY <1>3, <3>1, <3>2, <3>3, CancelledIn
    <3> QED BY <3>4 DEF rs, w, bl, ou
  <2>2. Booked' \cup (z \cup {x}) = (Booked \cup z) \cup {x}
    BY <1>1 DEF strategy, Booked
  <2>3. orders' = orders /\ inbound' = Append(inbound, r)
    BY <1>1
  <2>4. LingersIn(orders', book', inbound', outbound', Booked' \cup (z \cup {x}))
    BY <2>1, <2>2, <2>3, Zenon
  <2> QED BY <2>4, Zenon DEF LingersBut
<1>8. StaysOpen(x)'
  <2>1. x[1] = "ORD"
    BY <1>0, <1>1 DEF KsApart
  <2> DEFINE i == FindOrder(orders, x)
  <2>2. i # 0 /\ IsOpen(orders[i])
    BY <1>5, <2>1 DEF KnownSlot, OpenSlot
  <2>3. i \in 1..Len(orders) /\ orders[i].order_id = x
    BY <1>3, <2>2, FindOrderProps
  <2> HIDE DEF i
  <2>4. \A k \in 1..Len(inbound') : inbound'[k] = r \/ (k \in 1..Len(inbound) /\ inbound'[k] = inbound[k])
    BY <1>1, <1>3
  <2>5. r.cl_ord_id # x
    BY <1>1, <1>2
  <2>6. \A k \in 1..Len(inbound') : inbound'[k].cl_ord_id = x => inbound'[k].exec_type \notin Closing
    BY <1>5, <2>4, <2>5 DEF Closing
  <2> QED BY <1>1, <2>2, <2>3, <2>6 DEF StaysOpen
<1>9. ConfirmOf(r) = 1
  BY <1>1, <1>2 DEF ConfirmOf
<1>10. ReportAtHandHandled' /\ Answered' = Answered + 1
  BY <1>1, <1>9, AnsweredTold
<1> QED BY <1>1, <1>7, <1>8, <1>10

(* The exchange's own reports confirm nothing. *)
LEMMA ExchangeAnswers ==
  ASSUME ~ResetOnLogon, KillIds, IndInv, Control, IdsIssued, KsApart, ReportAtHandHandled, Exchange,
         [ShutdownNext]_allvars, ~AcceptCancel, ~RefuseCancel
  PROVE  ReportAtHandHandled' /\ Answered' = Answered
<1>1. /\ outbound \in Seq(Messages) /\ inbound \in Seq(ExecutionReports)
      /\ book \in Books
  BY DEF IndInv, TypeOK, Books, BookEntry
<1>2. UNCHANGED <<log, io>> /\ \E r : inbound' = Append(inbound, r)
  BY DEF Exchange, AcceptOrder, RefuseOrder, Trade, CancelOrder, ExpireOrder, Tell
<1>3. inbound' # inbound /\ (inbound # << >> => inbound' # Tail(inbound))
  <2>1. Len(inbound') = Len(inbound) + 1 /\ Len(inbound) \in Nat
    BY <1>1, <1>2
  <2>2. inbound # << >> => Len(Tail(inbound)) = Len(inbound) - 1
    BY <1>1
  <2> QED BY <2>1, <2>2
<1>4. PICK r \in ExecutionReports : TakesOrder(r) \/ Tells(r)
  <2>1. ~Delivers /\ ~\E m \in Messages : Sends(m)
    BY <1>3 DEF Delivers, Sends
  <2>2. \A r : ~TakesCancel(r)
    BY DEF TakesCancel
  <2> QED BY <2>1, <2>2, Traffic
<1>5. ~IsKs(r.cl_ord_id) /\ inbound' = Append(inbound, r)
  <2>1. CASE TakesOrder(r)
    <3>1. /\ outbound # << >> /\ r.cl_ord_id = Head(outbound).cl_ord_id
          /\ Head(outbound).msg_type = "NewOrderSingle" /\ inbound' = Append(inbound, r)
      BY <2>1 DEF TakesOrder, Answers
    <3>2. Head(outbound) = outbound[1] /\ 1 \in 1..Len(outbound)
      BY <1>1, <3>1
    <3> QED BY <3>1, <3>2 DEF KsApart
  <2>2. CASE Tells(r)
    <3>1. r.cl_ord_id \in OrderIds
      BY DEF ExecutionReports
    <3> QED BY <2>2, <3>1 DEF Tells, KsApart
  <2> QED BY <1>4, <2>1, <2>2
<1>6. ConfirmOf(r) = 0
  BY <1>5 DEF ConfirmOf
<1>7. ReportAtHandHandled' /\ Answered' = Answered + 0
  BY <1>2, <1>5, <1>6, AnsweredTold
<1> QED BY <1>7, AnsweredType

(* A turn of the killswitch leaves all of it as it is. *)
LEMMA KillLingers ==
  ASSUME KillIds, NEW z, IndInv, Control, LingersBut(z), CancelSlot \/ FlattenSlot
  PROVE  LingersBut(z)'
<1>1. /\ outbound' = outbound \/ \E m : outbound' = Append(outbound, m)
      /\ UNCHANGED <<orders, inbound, book, strategy>>
  <2>1. CASE CancelSlot
    BY <2>1, CancelSlotSends
  <2>2. CASE FlattenSlot
    BY <2>2, FlattenSlotSends
  <2> QED BY <2>1, <2>2
<1>2. CASE outbound' = outbound
  <2>1. UNCHANGED <<orders, outbound, inbound, book, Booked>>
    BY <1>1, <1>2 DEF strategy, Booked
  <2> QED BY <2>1, LingersStays
<1>3. CASE \E m : outbound' = Append(outbound, m)
  BY <1>1, <1>3, SentLingers
<1> QED BY <1>1, <1>2, <1>3

(* Every step that confirms no cancel keeps the set. *)
LEMMA LingeringStays ==
  ASSUME ~ResetOnLogon, KillIds, NEW z, IndInv, Control, IdsIssued, SlotForAll, SlotForAll',
         OrdersKnown, KsApart, ReportAtHandHandled, Lingering(z), up', [ShutdownNext]_allvars,
         ~AcceptCancel
  PROVE  ReportAtHandHandled' /\ Lingering(z)'
<1>1. /\ IsFiniteSet(z) /\ LingersBut(z) /\ \A x \in z : StaysOpen(x)
      /\ Answered = Cardinality(z)
  BY DEF Lingering, Answered
<1>2. \A x \in z : StaysOpen(x)'
  BY <1>1, StaysOpenStep
<1>3. CASE RefuseCancel
  <2>1. LingersBut(z)' /\ ReportAtHandHandled' /\ Answered' = Answered
    BY <1>1, <1>3, RefuseCancelLingers
  <2> QED BY <1>1, <1>2, <2>1 DEF Lingering, Answered
<1>4. CASE CancelSlot \/ FlattenSlot
  <2>1. LingersBut(z)'
    BY <1>1, <1>4, KillLingers
  <2>2. ReportAtHandHandled' /\ Answered' = Answered
    BY <1>4, AnsweredBooked
  <2> QED BY <1>1, <1>2, <2>1, <2>2 DEF Lingering, Answered
<1>5. CASE [Next]_vars /\ ~RefuseCancel
  <2>1. LingersBut(z)'
    BY <1>1, <1>5, NextLingers
  <2>2. ~Process
    BY DEF Process, Crash, TerminateLogFull, Restart, Down, SlotForAll, OneLife
  <2>3. ReportAtHandHandled' /\ Answered' = Answered
    <3>1. CASE Exchange
      BY <1>5, <3>1, ExchangeAnswers
    <3>2. CASE Strategy \/ IOThread \/ UNCHANGED vars
      BY <3>2, AnsweredBooked
    <3> QED BY <1>5, <2>2, <3>1, <3>2 DEF Next
  <2> QED BY <1>1, <1>2, <2>1, <2>3 DEF Lingering, Answered
<1> QED BY <1>3, <1>4, <1>5, UpBefore

(* A confirmed cancel adds its order. *)
LEMMA LingeringGrows ==
  ASSUME ~ResetOnLogon, KillIds, NEW z, IndInv, Control, IdsIssued, SlotForAll, OrdersKnown, KsApart,
         ReportAtHandHandled, Lingering(z), up', [ShutdownNext]_allvars, AcceptCancel
  PROVE  ReportAtHandHandled' /\ \E y : Lingering(y)'
<1>1. /\ IsFiniteSet(z) /\ LingersBut(z) /\ \A x \in z : StaysOpen(x)
      /\ Answered = Cardinality(z)
  BY DEF Lingering, Answered
<1>2. PICK x : /\ LingersBut(z \cup {x})' /\ StaysOpen(x)' /\ book[x].state = "Live"
               /\ ReportAtHandHandled' /\ Answered' = Answered + 1
  BY <1>1, AcceptCancelLingers
<1>3. \A y \in z : StaysOpen(y)'
  BY <1>1, StaysOpenStep
<1>4. x \notin z
  BY <1>1, <1>2 DEF StaysOpen
<1>5. IsFiniteSet(z \cup {x}) /\ Cardinality(z \cup {x}) = Cardinality(z) + 1
  BY <1>1, <1>4, FS_AddElement
<1>6. \A y \in z \cup {x} : StaysOpen(y)'
  BY <1>2, <1>3
<1>7. Lingering(z \cup {x})'
  BY <1>1, <1>2, <1>5, <1>6 DEF Lingering, Answered
<1> QED BY <1>2, <1>7

(* So the invariant is kept as long as the process lives. *)
LEMMA NextLingerInv ==
  ASSUME ~ResetOnLogon, KillIds, CounterFits, CounterFits', ShutInv, LingerInv, [ShutdownNext]_allvars
  PROVE  LingerInv'
<1> SUFFICES ASSUME up' PROVE KsApart' /\ ReportAtHandHandled' /\ \E z : Lingering(z)'
  BY DEF LingerInv
<1>1. up /\ SlotForAll /\ SlotForAll'
  BY UpBefore DEF CounterFits, OneLife, SlotForAll
<1>2. IndInv /\ Control /\ IdsIssued /\ OrdersKnown
  BY <1>1 DEF ShutInv
<1>3. KsApart /\ ReportAtHandHandled /\ \E z : Lingering(z)
  BY <1>1 DEF LingerInv
<1>4. PICK z : Lingering(z)
  BY <1>3
<1>5. KsApart'
  BY <1>2, <1>3, ApartStep
<1>6. CASE AcceptCancel
  BY <1>1, <1>2, <1>3, <1>4, <1>5, <1>6, LingeringGrows
<1>7. CASE ~AcceptCancel
  BY <1>1, <1>2, <1>3, <1>4, <1>5, <1>7, LingeringStays
<1> QED BY <1>6, <1>7

(* No report, no confirmation. *)
LEMMA ConfirmsNone == SumOf(Confirms(<< >>)) = 0
<1> DEFINE v == Confirms(<< >>)
<1>1. << >> \in Seq(ExecutionReports) /\ Len(<< >>) = 0
  OBVIOUS
<1>2. v \in Seq(Int) /\ Len(v) = 0
  BY <1>1, ConfirmsType
<1> HIDE DEF v
<1>3. \A k \in 1..Len(v) : v[k] = 0
  BY <1>2
<1>4. SumOf(v) = 0
  BY <1>2, <1>3, SumZero
<1> QED BY <1>4 DEF v

(* In the beginning there is nothing. *)
LEMMA InitLingerInv ==
  ASSUME ShutdownInit
  PROVE  LingerInv
<1>1. /\ Init /\ ipc = "idle" /\ outbound = << >> /\ inbound = << >> /\ log = << >>
      /\ \A x \in OrderIds : book[x].state = "None"
  BY DEF ShutdownInit, Init
<1>2. KsApart /\ ReportAtHandHandled
  BY <1>1 DEF KsApart, ReportAtHandHandled
<1>3. LingersBut({})
  <2>1. NothingLingers /\ Booked \cup {} = Booked
    BY <1>1, InitLingers
  <2> QED BY <2>1 DEF NothingLingers, LingersBut
<1>4. Cardinality(Confirmed) = 0 /\ SumOf(Confirms(Unlogged)) = 0
  <2>1. Confirmed = {}
    BY <1>1 DEF Confirmed
  <2>2. Unlogged = << >>
    BY <1>1 DEF Unlogged
  <2> QED BY <2>1, <2>2, ConfirmsNone, FS_EmptySet
<1>5. IsFiniteSet({}) /\ Cardinality({}) = 0
  BY FS_EmptySet
<1>6. Lingering({})
  BY <1>3, <1>4, <1>5 DEF Lingering
<1> QED BY <1>2, <1>6 DEF LingerInv

(* With nothing under way, the open slots of orders that are neither live  *)
(* nor expired are those of the cancelled orders, one for each.            *)
LEMMA LingeringSlots ==
  ASSUME IndInv, NEW z, IsFiniteSet(z), LingersBut(z), \A x \in z : StaysOpen(x),
         spc = "idle", inbound = << >>, outbound = << >>
  PROVE  Cardinality({ i \in 1..Len(orders) : /\ IsOpen(orders[i])
                                              /\ book[orders[i].order_id].state \notin {"Live", "Expired"} })
           = Cardinality(z)
<1> DEFINE S == { i \in 1..Len(orders) : /\ IsOpen(orders[i])
                                       /\ book[orders[i].order_id].state \notin {"Live", "Expired"} }
           f == [ i \in S |-> orders[i].order_id ]
<1>1. /\ IdsDiffer(orders)
      /\ \A i \in 1..Len(orders) : SlotDue(book, inbound, outbound, Booked \cup z, orders[i])
  BY DEF LingersBut, LingersIn
<1>2. Booked \cup z = z
  BY DEF Booked
<1>3. ASSUME NEW i \in S PROVE f[i] \in z
  <2>1. /\ i \in 1..Len(orders) /\ IsOpen(orders[i])
        /\ book[orders[i].order_id].state \notin {"Live", "Expired"}
        /\ f[i] = orders[i].order_id
    OBVIOUS
  <2>2. Due(book, inbound, outbound, z, orders[i].order_id)
    BY <1>1, <1>2, <2>1 DEF SlotDue
  <2>3. Len(inbound) = 0 /\ Len(outbound) = 0
    OBVIOUS
  <2> QED BY <2>1, <2>2, <2>3 DEF Due
<1>4. ASSUME NEW x \in z PROVE \E i \in S : f[i] = x
  <2>1. PICK i \in 1..Len(orders) : orders[i].order_id = x /\ IsOpen(orders[i])
    BY DEF StaysOpen
  <2>2. book[x].state = "Cancelled"
    BY DEF StaysOpen
  <2>3. i \in S /\ f[i] = x
    BY <2>1, <2>2
  <2> QED BY <2>3
<1>5. \A i, j \in S : f[i] = f[j] => i = j
  BY <1>1 DEF IdsDiffer
<1>6. IsFiniteSet(S)
  <2>1. Len(orders) \in Nat
    BY DEF IndInv, TypeOK
  <2>2. IsFiniteSet(1..Len(orders)) /\ S \subseteq 1..Len(orders)
    BY <2>1, FS_Interval
  <2> QED BY <2>2, FS_Subset
<1>7. f \in [S -> z]
  <2>1. DOMAIN f = S /\ f = [ i \in S |-> f[i] ]
    OBVIOUS
  <2> HIDE DEF S, f
  <2> QED BY <1>3, <2>1
<1> HIDE DEF S, f
<1>8. f \in Bijection(S, z)
  <2>1. IsInjective(f)
    BY <1>5, <1>7 DEF IsInjective
  <2> QED BY <1>4, <1>7, <2>1 DEF Bijection, Injection, Surjection
<1>9. Cardinality(z) = Cardinality(S)
  BY <1>6, <1>8, FS_Bijection DEF ExistsBijection
<1> QED BY <1>9 DEF S

(* What the invariant is for. *)
LEMMA LingerInvHolds ==
  ASSUME IndInv, LingerInv
  PROVE  OnlyCancelledLinger
<1> SUFFICES ASSUME up, spc = "idle", ipc = "idle", inbound = << >>, outbound = << >>
             PROVE  Cardinality({ i \in 1..Len(orders) : /\ IsOpen(orders[i])
                                                         /\ book[orders[i].order_id].state
                                                              \notin {"Live", "Expired"} })
                      <= Cardinality({ k \in 1..Len(log) : log[k].order_id[1] = "KS" })
  BY DEF OnlyCancelledLinger
<1>1. PICK z : Lingering(z)
  BY DEF LingerInv
<1>2. /\ IsFiniteSet(z) /\ LingersBut(z) /\ \A x \in z : StaysOpen(x)
      /\ Cardinality(Confirmed) + SumOf(Confirms(Unlogged)) = Cardinality(z)
  BY <1>1 DEF Lingering
<1>3. SumOf(Confirms(Unlogged)) = 0
  <2>1. Unlogged = << >>
    BY DEF Unlogged
  <2> QED BY <2>1, ConfirmsNone
<1>4. Cardinality(Confirmed) = Cardinality(z)
  BY <1>2, <1>3, AnsweredType
<1>5. Confirmed = { k \in 1..Len(log) : log[k].order_id[1] = "KS" }
  BY DEF Confirmed, IsKs
<1>6. Cardinality(Confirmed) \in Int
  BY AnsweredType
<1> QED BY <1>2, <1>4, <1>5, <1>6, LingeringSlots

(* OrderManager.h closes an order by its id, and the confirmation of a     *)
(* cancel request carries the id of the request.  As long as the process   *)
(* has issued no more ids than it has slots for and no logon resets the    *)
(* session, whatever fills, refusals, expiries and cancels of either side  *)
(* cross: in a quiet process the orders that are open in the manager and   *)
(* were filled, refused or cancelled at the exchange are no more than the  *)
(* confirmations in the log.  Orders that expired are open in the manager  *)
(* too; the theorem does not speak of them.                                *)
THEOREM ShutdownOnlyCancelledLinger ==
  ASSUME ~ResetOnLogon, KillIds
  PROVE  ShutdownSpec /\ []CounterFits => []OnlyCancelledLinger
<1> DEFINE Inv == ShutInv /\ LingerInv
<1>1. ShutdownInit => Inv
  BY InitShutInv, InitLingerInv
<1>2. CounterFits /\ CounterFits' /\ Inv /\ [ShutdownNext]_allvars => Inv'
  BY NextShutInv, NextLingerInv
<1>3. Inv => OnlyCancelledLinger
  BY LingerInvHolds DEF ShutInv
<1> QED BY <1>1, <1>2, <1>3, PTL DEF ShutdownSpec
=============================================================================
