------------------------------- MODULE Gateway -------------------------------
(***************************************************************************)
(* The gateway at work (gateway/FIXGateway.cpp, src/main.cpp): the         *)
(* strategy thread in send_order(), QuickFIX's I/O thread in onMessage()   *)
(* and the session callbacks, over the components they share, with the     *)
(* process dying at any point and main() rebuilding the projections.       *)
(*                                                                         *)
(* append() is one step here: EventLog and its refinement of AppendLog     *)
(* look inside it, and what two overlapping appends do is shown there.     *)
(* The exchange and the FIX session are external.  The session keeps a     *)
(* report until onMessage() has returned for it.                           *)
(***************************************************************************)
EXTENDS RiskChecker, MessageTranslator, FiniteSetsExt

CONSTANTS
  StrategySides,  \* the sides the strategy trades
  MaxEvents,      \* MAX_EVENTS
  SameThread,     \* send_order() is only called on the I/O thread, the
                  \* "first implementation" of FIXGateway.h
  ResetOnLogon,   \* the session setting: Y in simulator.cfg, N in uat.cfg
  None,           \* an empty local variable
  MaxCrashes      \* bound on the deaths of the process

ASSUME GatewayAssumption ==
  /\ StrategySides \subseteq Sides
  /\ OrderIds \subseteq {"ORD", "KS", "FL"} \X Nat
  /\ Prices \subseteq Nat
  /\ {MaxEvents, MaxCrashes} \subseteq Nat
  /\ {SameThread, ResetOnLogon} \subseteq BOOLEAN

VARIABLES
  log,            \* the events of the EventLog
  up,             \* main() has rebuilt the state and runs
  connected,      \* connected_
  order_counter,  \* order_counter_
  spc, req,       \* send_order(): progress and the order's event
  net_read,       \* the net_qty the risk check has read
  ipc, ievt,      \* onMessage(): progress and the translated event
  outbound,       \* NewOrderSingles on their way to the exchange
  inbound,        \* execution reports the session has still to complete
  book,           \* the exchange's record of the orders
  crashes

strategy == <<spc, req, net_read>>
io       == <<ipc, ievt>>
exchange == <<outbound, inbound, book>>
vars     == <<positions, orders, log, up, connected, order_counter, strategy, io, exchange, crashes>>

(* next_order_id(): "ORD" and the counter.  The order_id field of an event  *)
(* has 8 bytes, so a counter of six digits loses its last one.              *)
OrdId(n) == <<"ORD", IF n < 100000 THEN n ELSE n \div 10>>

(* append() stores a copy that carries the sequence; the caller's event    *)
(* keeps sequence 0.                                                       *)
Stored(e) == [e EXCEPT !.sequence = Len(log)]

-----------------------------------------------------------------------------
Init ==
  /\ InitPositions /\ InitOrders
  /\ log = << >> /\ up = TRUE /\ connected = FALSE /\ order_counter = 0
  /\ spc = "idle" /\ req = None /\ net_read = 0
  /\ ipc = "idle" /\ ievt = None
  /\ outbound = << >> /\ inbound = << >>
  /\ \E sym \in Symbols :
       book = [ oid \in OrderIds |->
                  [state |-> "None", symbol |-> sym, side |-> "Buy", qty |-> 0, filled |-> 0] ]
  /\ crashes = 0

-----------------------------------------------------------------------------
(* send_order() on the strategy thread. *)

(* is_connected(), then the check's read of net_qty.  A blocked call       *)
(* changes nothing.  The bound: as many calls as there are ids.            *)
SendOrder(sym, side, qty, px) ==
  /\ up /\ connected /\ spc = "idle"
  /\ SameThread => ipc = "idle"
  /\ OrdId(order_counter) \in OrderIds
  /\ spc' = "checking"
  /\ req' = MakeNewOrder(sym, side, qty, px, None)
  /\ net_read' = NetQty(GetPosition(positions, sym))
  /\ UNCHANGED <<positions, orders, log, up, connected, order_counter, io, exchange, crashes>>

CheckRisk ==
  LET result == Check(req.side, req.qty, req.price, net_read,
                      OpenExposure(orders, req.symbol), GetPosition(positions, req.symbol))
  IN  /\ spc = "checking"
      /\ IF result = "Pass" THEN spc' = "passed" /\ req' = req
                            ELSE spc' = "idle"   /\ req' = None
      /\ net_read' = 0
      /\ UNCHANGED <<positions, orders, log, up, connected, order_counter, io, exchange, crashes>>

(* Mutant of RecordOrder: the intention is not logged. *)
RecordOrderUnlogged ==
  /\ spc = "passed"
  /\ order_counter' = order_counter + 1
  /\ spc' = "logged"
  /\ req' = [req EXCEPT !.order_id = OrdId(order_counter)]
  /\ UNCHANGED <<positions, orders, log, up, connected, net_read, io, exchange, crashes>>

(* Mutant of RecordOrder: append()'s capacity test is off by one. *)
RecordOrderOverrun ==
  /\ spc = "passed"
  /\ order_counter' = order_counter + 1
  /\ IF Len(log) <= MaxEvents
     THEN /\ spc' = "logged"
          /\ req' = [req EXCEPT !.order_id = OrdId(order_counter)]
          /\ log' = Append(log, Stored(req'))
     ELSE spc' = "idle" /\ req' = None /\ log' = log
  /\ UNCHANGED <<positions, orders, up, connected, net_read, io, exchange, crashes>>

(* next_order_id() and append(), which throws when the log is full; here   *)
(* the strategy catches it, in Shutdown main() does.                       *)
RecordOrder ==
  /\ spc = "passed"
  /\ order_counter' = order_counter + 1
  /\ IF Len(log) < MaxEvents
     THEN /\ spc' = "logged"
          /\ req' = [req EXCEPT !.order_id = OrdId(order_counter)]
          /\ log' = Append(log, Stored(req'))
     ELSE spc' = "idle" /\ req' = None /\ log' = log
  /\ UNCHANGED <<positions, orders, up, connected, net_read, io, exchange, crashes>>

(* Mutant of ProjectOrder: the order manager is not told. *)
ProjectOrderForgets ==
  /\ spc = "logged"
  /\ spc' = "booked"
  /\ UNCHANGED <<positions, orders, log, up, connected, order_counter, req, net_read, io, exchange, crashes>>

(* orders_.apply_event(). *)
ProjectOrder ==
  /\ spc = "logged"
  /\ orders' = BookOrder(orders, req)
  /\ spc' = "booked"
  /\ UNCHANGED <<positions, log, up, connected, order_counter, req, net_read, io, exchange, crashes>>

(* Mutant of TransmitOrder: a session that is down drops the message. *)
TransmitOrderDrops ==
  /\ spc = "booked"
  /\ outbound' = IF connected THEN Append(outbound, ToNewOrderSingle(req)) ELSE outbound
  /\ spc' = "idle" /\ req' = None
  /\ UNCHANGED <<positions, orders, log, up, connected, order_counter, net_read, io, inbound, book, crashes>>

(* sendToTarget(): a session that is down stores the message for the next  *)
(* logon, which may reset the session.                                     *)
TransmitOrder ==
  /\ spc = "booked"
  /\ outbound' = Append(outbound, ToNewOrderSingle(req))
  /\ spc' = "idle" /\ req' = None
  /\ UNCHANGED <<positions, orders, log, up, connected, order_counter, net_read, io, inbound, book, crashes>>

-----------------------------------------------------------------------------
(* The callbacks on the I/O thread. *)

Logon ==
  /\ up /\ ~connected /\ ipc = "idle"
  /\ connected' = TRUE
  /\ inbound'  = IF ResetOnLogon THEN << >> ELSE inbound
  /\ outbound' = IF ResetOnLogon THEN << >> ELSE outbound
  /\ UNCHANGED <<positions, orders, log, up, order_counter, strategy, io, book, crashes>>

Logout ==
  /\ up /\ connected /\ ipc = "idle"
  /\ connected' = FALSE
  /\ UNCHANGED <<positions, orders, log, up, order_counter, strategy, io, exchange, crashes>>

(* fromApp() cracks the next message of the session into onMessage(). *)
Deliverable ==
  /\ up /\ connected /\ ipc = "idle" /\ inbound # << >>
  /\ Head(inbound).msg_type = "ExecutionReport"
  /\ SameThread => spc = "idle"

(* A report that is no event: onMessage() returns at once. *)
DropReport ==
  /\ Deliverable
  /\ FromExecutionReport(Head(inbound)) = {}
  /\ inbound' = Tail(inbound)
  /\ UNCHANGED <<positions, orders, log, up, connected, order_counter, strategy, io, outbound, book, crashes>>

TakeReport ==
  /\ Deliverable
  /\ \E e \in FromExecutionReport(Head(inbound)) : ievt' = e
  /\ ipc' = "translated"
  /\ UNCHANGED <<positions, orders, log, up, connected, order_counter, strategy, exchange, crashes>>

(* Mutant of LogReport: the report is booked without being logged. *)
LogReportForgets ==
  /\ ipc = "translated" /\ Len(log) < MaxEvents
  /\ ipc' = "logged"
  /\ UNCHANGED <<positions, orders, log, up, connected, order_counter, strategy, ievt, exchange, crashes>>

LogReport ==
  /\ ipc = "translated" /\ Len(log) < MaxEvents
  /\ log' = Append(log, Stored(ievt))
  /\ ipc' = "logged"
  /\ UNCHANGED <<positions, orders, up, connected, order_counter, strategy, ievt, exchange, crashes>>

(* Mutant of TrackReport: only the last fill of an order moves the position. *)
TrackReportFullOnly ==
  /\ ipc = "logged"
  /\ positions' = IF ievt.type = "FullFill" THEN BookPosition(positions, ievt) ELSE positions
  /\ ipc' = "tracked"
  /\ UNCHANGED <<orders, log, up, connected, order_counter, strategy, ievt, exchange, crashes>>

TrackReport ==
  /\ ipc = "logged"
  /\ ApplyEvent(ievt)
  /\ ipc' = "tracked"
  /\ UNCHANGED <<orders, log, up, connected, order_counter, strategy, ievt, exchange, crashes>>

(* The last call of onMessage(); then the session completes the report. *)
ProjectReport ==
  /\ ipc = "tracked"
  /\ orders' = BookOrder(orders, ievt)
  /\ ipc' = "idle" /\ ievt' = None
  /\ inbound' = Tail(inbound)
  /\ UNCHANGED <<positions, log, up, connected, order_counter, strategy, outbound, book, crashes>>

-----------------------------------------------------------------------------
(* What is lost with the process. *)
Down ==
  /\ up' = FALSE /\ connected' = FALSE /\ order_counter' = 0
  /\ positions' = << >> /\ orders' = << >>
  /\ spc' = "idle" /\ req' = None /\ net_read' = 0
  /\ ipc' = "idle" /\ ievt' = None
  /\ UNCHANGED <<log, exchange>>

Crash ==
  /\ up /\ crashes < MaxCrashes
  /\ crashes' = crashes + 1
  /\ Down

(* append() throws in onMessage(), which is noexcept: std::terminate(). *)
TerminateLogFull ==
  /\ ipc = "translated" /\ Len(log) >= MaxEvents
  /\ crashes' = crashes
  /\ Down

(* main() up to the start of the initiator. *)
Restart ==
  /\ ~up
  /\ up' = TRUE
  /\ positions' = ReplayPositions(log)
  /\ orders' = ReplayOrders(log)
  /\ UNCHANGED <<log, connected, order_counter, strategy, io, exchange, crashes>>

-----------------------------------------------------------------------------
(* The exchange. *)
Report(exec_type, oid, sym, side, last_shares, last_px) ==
  [ msg_type    |-> "ExecutionReport",
    exec_type   |-> exec_type,
    cl_ord_id   |-> oid,
    symbol      |-> sym,
    side        |-> side,
    has_last    |-> last_shares > 0,
    last_shares |-> last_shares,
    last_px     |-> last_px ]

Tell(exec_type, oid, last_shares, last_px) ==
  inbound' = Append(inbound, Report(exec_type, oid, book[oid].symbol, book[oid].side,
                                    last_shares, last_px))

AcceptOrder ==
  LET o == Head(outbound)
  IN  /\ outbound # << >> /\ o.msg_type = "NewOrderSingle"
      /\ book[o.cl_ord_id].state = "None"
      /\ book' = [book EXCEPT ![o.cl_ord_id] =
                    [ state |-> "Live", symbol |-> o.symbol, side |-> o.side,
                      qty |-> o.order_qty, filled |-> 0 ]]
      /\ inbound' = Append(inbound, Report("New", o.cl_ord_id, o.symbol, o.side, 0, 0))
      /\ outbound' = Tail(outbound)
      /\ UNCHANGED <<positions, orders, log, up, connected, order_counter, strategy, io, crashes>>

(* An order may be refused, one whose ClOrdID was used before must be. *)
RefuseOrder ==
  LET o == Head(outbound)
  IN  /\ outbound # << >> /\ o.msg_type = "NewOrderSingle"
      /\ inbound' = Append(inbound, Report("Rejected", o.cl_ord_id, o.symbol, o.side, 0, 0))
      /\ outbound' = Tail(outbound)
      /\ UNCHANGED <<positions, orders, log, up, connected, order_counter, strategy, io, book, crashes>>

Trade(oid, qty, px) ==
  LET filled == book[oid].filled + qty
      done   == filled = book[oid].qty
  IN  /\ book[oid].state = "Live"
      /\ filled <= book[oid].qty
      /\ book' = [book EXCEPT ![oid].state  = IF done THEN "Filled" ELSE "Live",
                              ![oid].filled = filled]
      /\ Tell(IF done THEN "Fill" ELSE "PartialFill", oid, qty, px)
      /\ UNCHANGED <<positions, orders, log, up, connected, order_counter, strategy, io, outbound, crashes>>

CancelOrder(oid) ==
  /\ book[oid].state = "Live"
  /\ book' = [book EXCEPT ![oid].state = "Cancelled"]
  /\ Tell("Canceled", oid, 0, 0)
  /\ UNCHANGED <<positions, orders, log, up, connected, order_counter, strategy, io, outbound, crashes>>

(* Every order is sent with TimeInForce DAY: what is left of it expires. *)
ExpireOrder(oid) ==
  /\ book[oid].state = "Live"
  /\ book' = [book EXCEPT ![oid].state = "Expired"]
  /\ Tell("Expired", oid, 0, 0)
  /\ UNCHANGED <<positions, orders, log, up, connected, order_counter, strategy, io, outbound, crashes>>

-----------------------------------------------------------------------------
Strategy ==
  \/ \E sym \in Symbols, side \in StrategySides, qty \in Quantities \ {0}, px \in Prices :
       SendOrder(sym, side, qty, px)
  \/ CheckRisk \/ RecordOrder \/ ProjectOrder \/ TransmitOrder

IOThread ==
  Logon \/ Logout \/ DropReport \/ TakeReport \/ LogReport \/ TrackReport \/ ProjectReport

Process == Crash \/ TerminateLogFull \/ Restart

Exchange ==
  \/ AcceptOrder \/ RefuseOrder
  \/ \E oid \in OrderIds :
       \/ \E qty \in Quantities \ {0}, px \in Prices : Trade(oid, qty, px)
       \/ CancelOrder(oid)
       \/ ExpireOrder(oid)

Next == Strategy \/ IOThread \/ Process \/ Exchange

Spec == Init /\ [][Next]_vars

-----------------------------------------------------------------------------
TypeOK ==
  /\ positions \in Seq(Position) /\ Len(positions) <= MaxSymbols
  /\ orders \in Seq(Order) /\ Len(orders) <= MaxOrders
  /\ log \in Seq(Events) /\ Len(log) <= MaxEvents
  /\ up \in BOOLEAN /\ connected \in BOOLEAN
  /\ order_counter \in Nat
  /\ spc \in {"idle", "checking", "passed", "logged", "booked"}
  /\ net_read \in Int
  /\ ipc \in {"idle", "translated", "logged", "tracked"}
  /\ ievt \in Events \cup {None}
  /\ inbound \in Seq(ExecutionReports)
  /\ book \in [OrderIds -> [ state : {"None", "Live", "Filled", "Cancelled", "Expired"},
                             symbol : Symbols, side : Sides, qty : Nat, filled : Nat ]]
  /\ crashes \in 0..MaxCrashes

Logged(oid, sym, side, qty) ==
  \E k \in 1..Len(log) : /\ log[k].type = "NewOrder"
                         /\ <<log[k].order_id, log[k].symbol, log[k].side, log[k].qty>>
                              = <<oid, sym, side, qty>>

(* FIXGateway.cpp: "if we crash between send and ack, the NewOrder event   *)
(* in the log shows the order was submitted".  Every order that is on its  *)
(* way to the exchange or known there is in the log.                       *)
LogBeforeExchange ==
  /\ \A k \in 1..Len(outbound) :
       LET o == outbound[k] IN Logged(o.cl_ord_id, o.symbol, o.side, o.order_qty)
  /\ \A oid \in OrderIds :
       book[oid].state # "None" =>
         Logged(oid, book[oid].symbol, book[oid].side, book[oid].qty)

LoggedFills(oid) ==
  FoldLeft(LAMBDA sum, e : IF e.order_id = oid THEN sum + e.fill_qty ELSE sum, 0, log)

QueuedFills(reports, oid) ==
  FoldLeft(LAMBDA sum, r : IF r.cl_ord_id = oid THEN sum + r.last_shares ELSE sum, 0, reports)

(* A share the exchange traded is in the log or in a report the session    *)
(* will deliver, again if need be: no death of the process loses a fill.   *)
NoFillLost ==
  \A oid \in OrderIds : LoggedFills(oid) + QueuedFills(inbound, oid) >= book[oid].filled

(* The reports the tracker has not seen. *)
Untracked == IF ipc = "tracked" THEN Tail(inbound) ELSE inbound

(* README, overview: "every fill must reconcile perfectly, with no silent  *)
(* data loss across restarts".  The position is what the exchange traded,  *)
(* up to the fills whose reports are under way.                            *)
FillsBookedOnce ==
  up => \A sym \in Symbols :
          LET mine == { oid \in OrderIds : book[oid].symbol = sym }
          IN  NetQty(GetPosition(positions, sym)) =
                MapThenSumSet(LAMBDA oid : Signed(book[oid].side,
                                book[oid].filled - QueuedFills(Untracked, oid)), mine)

Traded(sym, side) ==
  MapThenSumSet(LAMBDA oid : book[oid].filled,
                { oid \in OrderIds : book[oid].symbol = sym /\ book[oid].side = side })

(* The same line of the README.  The tracker never holds a share that the  *)
(* exchange did not trade: a report that is delivered a second time after  *)
(* a restart is not booked a second time.                                  *)
NoFillTwice ==
  up => \A sym \in Symbols : \A pos \in GetPosition(positions, sym) :
          /\ pos.total_buy_qty  <= Traded(sym, "Buy")
          /\ pos.total_sell_qty <= Traded(sym, "Sell")

(* main.cpp: "positions and open orders are reconstructed correctly".  An  *)
(* order that is live at the exchange is open in the order manager, where  *)
(* the killswitch and the exposure look for it.                            *)
LiveOrdersKnown ==
  up => \A oid \in OrderIds :
          book[oid].state = "Live" =>
            \E i \in 1..Len(orders) : orders[i].order_id = oid /\ IsOpen(orders[i])

Exposed(sym, side) ==
  MapThenSumSet(LAMBDA oid : book[oid].qty - book[oid].filled,
                { oid \in OrderIds : /\ book[oid].state = "Live"
                                     /\ book[oid].symbol = sym /\ book[oid].side = side })

Held(sym) ==
  MapThenSumSet(LAMBDA oid : Signed(book[oid].side, book[oid].filled),
                { oid \in OrderIds : book[oid].symbol = sym })

(* README, RiskChecker: FailPositionLimit stops what "would breach max net *)
(* position including open orders".  Whatever of the live orders trades,   *)
(* the position at the exchange stays within the limit.                    *)
WithinLimit ==
  \A sym \in Symbols :
    /\ Held(sym) + Exposed(sym, "Buy") <= MaxNetPosition
    /\ Held(sym) - Exposed(sym, "Sell") >= -MaxNetPosition

(* The projections without the sequence numbers of their last events. *)
Shown(ps, os) ==
  << [i \in 1..Len(ps) |-> [ps[i] EXCEPT !.last_updated_seq = 0]],
     [i \in 1..Len(os) |-> [os[i] EXCEPT !.opened_seq = 0, !.last_seq = 0]] >>

Quiet == up /\ spc \in {"idle", "checking", "passed"} /\ ipc = "idle"

(* README, overview: "All position and order state is a pure projection    *)
(* over this log."  Between bookings, a replay of the log gives the live   *)
(* projections, although the threads apply events in an order of their own.*)
ReplayRebuilds ==
  Quiet => Shown(positions, orders) = Shown(ReplayPositions(log), ReplayOrders(log))

(* RiskChecker.h: the check of the position alone.  Once the exchange has  *)
(* filled, cancelled or refused every order of a symbol and all reports    *)
(* are booked, it gives the verdict of the full check for any order of a   *)
(* symbol that has traded: no such order lingers in the exposure.  One     *)
(* that expired does, and its symbol is left out.                          *)
OverloadsAgree ==
  Quiet /\ inbound = << >> /\ outbound = << >> =>
    \A sym \in Symbols, side \in Sides, qty \in Quantities, px \in Prices :
      LET pos == GetPosition(positions, sym)
      IN  /\ pos # {}
          /\ \A oid \in OrderIds :
               book[oid].symbol = sym => book[oid].state \notin {"Live", "Expired"}
          => CheckPosition(side, qty, px, pos) =
               Check(side, qty, px, NetQty(pos), OpenExposure(orders, sym), pos)
=============================================================================
