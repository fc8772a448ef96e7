---------------------------- MODULE GatewayProofs ----------------------------
(***************************************************************************)
(* Gateway proved for every set of symbols, ids, prices and quantities,    *)
(* every capacity, any number of deaths and either threading of            *)
(* send_order().                                                           *)
(***************************************************************************)
EXTENDS Gateway, OrderLemmas, PositionLemmas

(* What the strategy thread holds between two of its steps: the event of   *)
(* the call, from append() on with an id and in the log.                   *)
Request(r, oid) ==
  \E sym \in Symbols, side \in Sides, qty \in Quantities \ {0}, px \in Prices :
    r = MakeNewOrder(sym, side, qty, px, oid)

RequestOK ==
  /\ spc \in {"checking", "passed"} =>
       Request(req, None) /\ OrdId(order_counter) \in OrderIds
  /\ spc \in {"logged", "booked"} =>
       /\ req.order_id \in OrderIds
       /\ Request(req, req.order_id)
       /\ Logged(req.order_id, req.symbol, req.side, req.qty)

(* What travels to the exchange: the orders of send_order(), and what the  *)
(* killswitch sends when the gateway runs under Shutdown.                  *)
Singles ==
  [ msg_type : {"NewOrderSingle"}, ord_type : {"Limit", "Market"}, cl_ord_id : OrderIds,
    symbol : Symbols, side : Sides, order_qty : Nat, price : Int ]

CancelRequests ==
  [ msg_type : {"OrderCancelRequest"}, orig_cl_ord_id : OrderIds, cl_ord_id : OrderIds,
    symbol : Symbols, side : Sides ]

Messages == Singles \cup CancelRequests

(* What the exchange reports: only a fill has shares, and it has them. *)
ReportOK(r) ==
  /\ r.has_last = (r.last_shares > 0)
  /\ r.last_shares > 0 <=> r.exec_type \in {"PartialFill", "Fill"}

(* onMessage() works on the first report of the session, which stays there *)
(* until it has returned.                                                  *)
ReportAtHand ==
  ipc # "idle" => inbound # << >> /\ ievt \in FromExecutionReport(Head(inbound))

IndInv ==
  /\ TypeOK
  /\ log \in Seq(FillEvents)
  /\ RequestOK
  /\ outbound \in Seq(Messages)
  /\ \A k \in 1..Len(inbound) : ReportOK(inbound[k])
  /\ ReportAtHand

-----------------------------------------------------------------------------
(* The event of a call is one for an order of its id. *)
LEMMA RequestEvent ==
  ASSUME NEW r, NEW oid, Request(r, oid)
  PROVE  /\ r.type = "NewOrder" /\ r.order_id = oid
         /\ r.symbol \in Symbols /\ r.side \in Sides /\ r.qty \in Nat \ {0} /\ r.price \in Nat
         /\ r.fill_qty = 0
         /\ oid \in OrderIds => r \in FillEvents
         /\ \A o : Request([r EXCEPT !.order_id = o], o)
         /\ \A o : [r EXCEPT !.order_id = o].order_id = o
<1>1. PICK sym \in Symbols, side \in Sides, qty \in Quantities \ {0}, px \in Prices :
        r = MakeNewOrder(sym, side, qty, px, oid)
  BY DEF Request
<1>2. qty \in Nat \ {0} /\ px \in Nat
  BY QuantitiesAssumption, GatewayAssumption
<1>3. r = [ type |-> "NewOrder", side |-> side, symbol |-> sym, order_id |-> oid, qty |-> qty,
            price |-> px, fill_qty |-> 0, fill_price |-> 0, sequence |-> 0 ]
  BY <1>1 DEF MakeNewOrder
<1>4. \A o : [r EXCEPT !.order_id = o] = MakeNewOrder(sym, side, qty, px, o)
  BY <1>3 DEF MakeNewOrder
<1>5. \A o : Request([r EXCEPT !.order_id = o], o)
  BY <1>4 DEF Request
<1>6. oid \in OrderIds => r \in FillEvents
  BY <1>2, <1>3 DEF FillEvents, Events, EventTypes
<1> QED BY <1>2, <1>3, <1>5, <1>6

(* The event a report becomes is one for the order of the report, and as   *)
(* many shares.                                                            *)
LEMMA ReportEvent ==
  ASSUME NEW r \in ExecutionReports, NEW e \in FromExecutionReport(r)
  PROVE  /\ e \in FillEvents
         /\ e.type = EventTypeOf[r.exec_type]
         /\ r.exec_type \in {"PartialFill", "Fill", "Canceled", "Rejected"}
         /\ e.order_id = r.cl_ord_id /\ e.symbol = r.symbol /\ e.side = r.side
         /\ ReportOK(r) => e.fill_qty = r.last_shares
<1>1. r.exec_type \in {"PartialFill", "Fill", "Canceled", "Rejected"}
  BY TranslatedNone
<1>2. /\ e.type = EventTypeOf[r.exec_type]
      /\ e.order_id = r.cl_ord_id /\ e.symbol = r.symbol /\ e.side = r.side
      /\ e.fill_qty = IF IsFill(e) /\ r.has_last THEN r.last_shares ELSE 0
      /\ e.fill_price \in IF IsFill(e) /\ r.has_last THEN ToFixed(r.last_px) ELSE {0}
      /\ e = [ type |-> e.type, side |-> e.side, symbol |-> e.symbol, order_id |-> e.order_id,
               qty |-> 0, price |-> 0, fill_qty |-> e.fill_qty, fill_price |-> e.fill_price,
               sequence |-> 0 ]
  BY <1>1, TranslatedEvents
<1>3. /\ r.cl_ord_id \in OrderIds /\ r.symbol \in Symbols /\ r.side \in Sides
      /\ r.last_shares \in Nat /\ r.last_px \in Nat /\ r.has_last \in BOOLEAN
  BY DEF ExecutionReports
<1>4. e.type \in EventTypes /\ e.type \in {"PartialFill", "FullFill", "Cancel", "Reject"}
  BY <1>1, <1>2, EventTypeValues DEF EventTypes
<1>5. e.fill_qty \in Nat
  BY <1>2, <1>3
<1>6. e.fill_price \in Int
  BY <1>2, <1>3 DEF ToFixed
<1>7. e \in FillEvents
  <2> DEFINE t == e.type  sd == e.side  sy == e.symbol  id == e.order_id
             fq == e.fill_qty  fp == e.fill_price
  <2>1. /\ t \in EventTypes /\ sd \in Sides /\ sy \in Symbols /\ id \in OrderIds
        /\ fq \in Nat /\ fp \in Int
    BY <1>2, <1>3, <1>4, <1>5, <1>6
  <2>2. e = [ type |-> t, side |-> sd, symbol |-> sy, order_id |-> id, qty |-> 0, price |-> 0,
              fill_qty |-> fq, fill_price |-> fp, sequence |-> 0 ]
    BY <1>2
  <2> HIDE DEF t, sd, sy, id, fq, fp
  <2> QED BY <2>1, <2>2 DEF FillEvents, Events
<1>8. ASSUME ReportOK(r) PROVE e.fill_qty = r.last_shares
  <2>1. r.exec_type \in {"PartialFill", "Fill"} <=> IsFill(e)
    BY <1>1, <1>2, EventTypeValues DEF IsFill
  <2>2. r.last_shares = 0 \/ r.last_shares > 0
    BY <1>3
  <2> QED BY <1>2, <1>3, <1>8, <2>1, <2>2 DEF ReportOK
<1> QED BY <1>1, <1>2, <1>7, <1>8

(* What append() does to the log. *)
LEMMA LogGrows ==
  ASSUME log \in Seq(FillEvents), Len(log) < MaxEvents, NEW e \in FillEvents,
         log' = Append(log, Stored(e))
  PROVE  /\ log' \in Seq(FillEvents) /\ Len(log') <= MaxEvents /\ log' \in Seq(Events)
         /\ Stored(e) \in FillEvents
         /\ Len(log') = Len(log) + 1 /\ log'[Len(log')] = Stored(e)
         /\ \A k \in 1..Len(log) : log'[k] = log[k]
         /\ Stored(e).type = e.type /\ Stored(e).order_id = e.order_id
         /\ Stored(e).symbol = e.symbol /\ Stored(e).side = e.side
         /\ Stored(e).qty = e.qty /\ Stored(e).fill_qty = e.fill_qty
<1>1. Len(log) \in Nat /\ MaxEvents \in Nat
  BY GatewayAssumption
<1>2. Stored(e) = [e EXCEPT !.sequence = Len(log)]
  BY DEF Stored
<1>3. Stored(e) \in FillEvents
  BY <1>1, <1>2 DEF FillEvents, Events
<1>4. /\ Stored(e).type = e.type /\ Stored(e).order_id = e.order_id
      /\ Stored(e).symbol = e.symbol /\ Stored(e).side = e.side
      /\ Stored(e).qty = e.qty /\ Stored(e).fill_qty = e.fill_qty
  BY <1>2 DEF FillEvents, Events
<1>5. log' \in Seq(FillEvents) /\ Len(log') = Len(log) + 1 /\ log'[Len(log')] = Stored(e)
  BY <1>3
<1>6. log' \in Seq(Events)
  BY <1>5 DEF FillEvents
<1> QED BY <1>1, <1>3, <1>4, <1>5, <1>6
-----------------------------------------------------------------------------
(* An entry stays in the log, and what a step of another part leaves alone *)
(* stays in order.                                                         *)
LEMMA LoggedStays ==
  ASSUME Len(log) \in Nat, Len(log') \in Nat, Len(log') >= Len(log),
         \A k \in 1..Len(log) : log'[k] = log[k],
         NEW oid, NEW sym, NEW side, NEW qty, Logged(oid, sym, side, qty)
  PROVE  Logged(oid, sym, side, qty)'
BY DEF Logged

(* What the strategy thread holds stays right as long as its variables and the log stay. *)
LEMMA RequestStays ==
  ASSUME IndInv, UNCHANGED <<strategy, order_counter, log>>
  PROVE  RequestOK'
BY DEF IndInv, RequestOK, Request, Logged, OrdId, strategy

(* An empty log, empty tables and an exchange without orders satisfy the invariant. *)
LEMMA InitIndInv == Init => IndInv
<1> SUFFICES ASSUME Init PROVE IndInv
  OBVIOUS
<1>1. /\ positions = << >> /\ orders = << >> /\ log = << >> /\ outbound = << >> /\ inbound = << >>
      /\ spc = "idle" /\ ipc = "idle"
  BY DEF Init, InitPositions, InitOrders
<1>2. TypeOK
  <2>1. book \in [OrderIds -> [ state : {"None", "Live", "Filled", "Cancelled", "Expired"},
                                symbol : Symbols, side : Sides, qty : Nat, filled : Nat ]]
    BY DEF Init, Sides
  <2>2. MaxSymbols \in Nat /\ MaxOrders \in Nat /\ MaxEvents \in Nat /\ MaxCrashes \in Nat
    BY MaxSymbolsAssumption, MaxOrdersAssumption, GatewayAssumption
  <2>3. /\ order_counter = 0 /\ net_read = 0 /\ ievt = None /\ crashes = 0
        /\ up \in BOOLEAN /\ connected \in BOOLEAN
    BY DEF Init
  <2>4. /\ positions \in Seq(Position) /\ orders \in Seq(Order) /\ log \in Seq(Events)
        /\ inbound \in Seq(ExecutionReports)
        /\ Len(positions) = 0 /\ Len(orders) = 0 /\ Len(log) = 0
    BY <1>1
  <2> QED BY <1>1, <2>1, <2>2, <2>3, <2>4 DEF TypeOK
<1>3. \A oid \in OrderIds : book[oid].state = "None"
  BY DEF Init
<1> QED BY <1>1, <1>2, <1>3 DEF IndInv, RequestOK, ReportAtHand

(* The strategy thread. *)
LEMMA SendOrderStep ==
  ASSUME IndInv, NEW sym \in Symbols, NEW side \in StrategySides, NEW qty \in Quantities \ {0},
         NEW px \in Prices, SendOrder(sym, side, qty, px)
  PROVE  IndInv'
<1>1. side \in Sides
  BY GatewayAssumption
<1>2. Request(req', None) /\ OrdId(order_counter) \in OrderIds
  BY <1>1 DEF SendOrder, Request
<1>3. net_read' \in Int
  <2> DEFINE pos == GetPosition(positions, sym)
  <2>1. pos \subseteq Position
    BY DEF GetPosition, IndInv, TypeOK
  <2>2. pos # {} => (CHOOSE p \in pos : TRUE) \in pos
    OBVIOUS
  <2>3. pos # {} => (CHOOSE p \in pos : TRUE).net_qty \in Int
    BY <2>1, <2>2 DEF Position
  <2>4. net_read' = NetQty(pos)
    BY DEF SendOrder
  <2> HIDE DEF pos
  <2> QED BY <2>3, <2>4 DEF NetQty
<1>4. UNCHANGED <<positions, orders, log, up, connected, order_counter, io, exchange, crashes>>
  BY DEF SendOrder
<1>5. spc' = "checking"
  BY DEF SendOrder
<1>6. TypeOK'
  BY <1>3, <1>4, <1>5 DEF IndInv, TypeOK, io, exchange
<1>7. RequestOK'
  BY <1>2, <1>4, <1>5 DEF RequestOK, OrdId, Request
<1>8. ReportAtHand'
  BY <1>4 DEF IndInv, ReportAtHand, io, exchange
<1> QED BY <1>4, <1>6, <1>7, <1>8 DEF IndInv, io, exchange

(* check() reads positions and orders and writes neither. *)
LEMMA CheckRiskStep == IndInv /\ CheckRisk => IndInv'
<1> SUFFICES ASSUME IndInv, CheckRisk PROVE IndInv'
  OBVIOUS
<1>1. /\ UNCHANGED <<positions, orders, log, up, connected, order_counter, io, exchange, crashes>>
      /\ spc = "checking" /\ net_read' = 0
      /\ \/ spc' = "passed" /\ req' = req
         \/ spc' = "idle"
  BY DEF CheckRisk
<1>2. TypeOK'
  BY <1>1 DEF IndInv, TypeOK, io, exchange
<1>3. RequestOK'
  BY <1>1 DEF IndInv, RequestOK, OrdId, Request
<1>4. ReportAtHand'
  BY <1>1 DEF IndInv, ReportAtHand, io, exchange
<1> QED BY <1>1, <1>2, <1>3, <1>4 DEF IndInv, io, exchange

(* The order gets its id and is in the log before anything else sees it. *)
LEMMA RecordOrderStep == IndInv /\ RecordOrder => IndInv'
<1> SUFFICES ASSUME IndInv, RecordOrder PROVE IndInv'
  OBVIOUS
<1>1. /\ UNCHANGED <<positions, orders, up, connected, net_read, io, exchange, crashes>>
      /\ spc = "passed" /\ order_counter' = order_counter + 1
  BY DEF RecordOrder
<1>2. CASE Len(log) < MaxEvents
  <2> DEFINE oid == OrdId(order_counter)
  <2>1. /\ spc' = "logged" /\ req' = [req EXCEPT !.order_id = oid] /\ log' = Append(log, Stored(req'))
    BY <1>2 DEF RecordOrder
  <2>2. Request(req, None) /\ oid \in OrderIds
    BY <1>1 DEF IndInv, RequestOK
  <2> HIDE DEF oid
  <2>3. Request(req', oid) /\ req'.order_id = oid
    BY <2>1, <2>2, RequestEvent
  <2>4. req' \in FillEvents /\ req'.type = "NewOrder"
    BY <2>2, <2>3, RequestEvent
  <2> DEFINE e == req'
  <2>5. log \in Seq(FillEvents) /\ e \in FillEvents /\ log' = Append(log, Stored(e))
    BY <2>1, <2>4 DEF IndInv
  <2> HIDE DEF e
  <2>6. /\ log' \in Seq(FillEvents) /\ Len(log') <= MaxEvents /\ log' \in Seq(Events)
        /\ Len(log') = Len(log) + 1 /\ log'[Len(log')] = Stored(e)
        /\ \A k \in 1..Len(log) : log'[k] = log[k]
        /\ Stored(e).type = e.type /\ Stored(e).order_id = e.order_id
        /\ Stored(e).symbol = e.symbol /\ Stored(e).side = e.side /\ Stored(e).qty = e.qty
    BY <1>2, <2>5, LogGrows
  <2>7. Len(log) \in Nat /\ Len(log') \in Nat /\ Len(log') \in 1..Len(log')
    BY <2>5, <2>6
  <2>8. Logged(req.order_id, req.symbol, req.side, req.qty)'
    BY <2>4, <2>6, <2>7 DEF Logged, e
  <2>9. RequestOK'
    BY <2>1, <2>2, <2>3, <2>8 DEF RequestOK, e
  <2>10. TypeOK'
    BY <1>1, <2>1, <2>6 DEF IndInv, TypeOK, io, exchange
  <2> QED BY <1>1, <2>6, <2>9, <2>10 DEF IndInv, ReportAtHand, io, exchange
<1>3. CASE ~(Len(log) < MaxEvents)
  <2>1. spc' = "idle" /\ log' = log
    BY <1>3 DEF RecordOrder
  <2>2. TypeOK'
    BY <1>1, <2>1 DEF IndInv, TypeOK, io, exchange
  <2>3. ReportAtHand'
    BY <1>1, <2>1 DEF IndInv, ReportAtHand, io, exchange
  <2> QED BY <1>1, <2>1, <2>2, <2>3 DEF IndInv, RequestOK, exchange
<1> QED BY <1>2, <1>3

(* The manager books the order that is in the log. *)
LEMMA ProjectOrderStep == IndInv /\ ProjectOrder => IndInv'
<1> SUFFICES ASSUME IndInv, ProjectOrder PROVE IndInv'
  OBVIOUS
<1>1. /\ UNCHANGED <<positions, log, up, connected, order_counter, req, net_read, io, exchange, crashes>>
      /\ spc = "logged" /\ spc' = "booked" /\ orders' = BookOrder(orders, req)
  BY DEF ProjectOrder
<1>2. req \in Events
  <2>1. req \in FillEvents
    BY <1>1, RequestEvent DEF IndInv, RequestOK
  <2> QED BY <2>1 DEF FillEvents
<1>3. orders' \in OrderTable
  <2>1. orders \in OrderTable
    BY DEF IndInv, TypeOK, OrderTable
  <2> QED BY <1>1, <1>2, <2>1, BookOrderType
<1>4. TypeOK'
  BY <1>1, <1>3 DEF IndInv, TypeOK, OrderTable, io, exchange
<1>5. ReportAtHand'
  BY <1>1 DEF IndInv, ReportAtHand, io, exchange
<1>6. RequestOK'
  BY <1>1 DEF IndInv, RequestOK, Request, Logged
<1> QED BY <1>1, <1>4, <1>5, <1>6 DEF IndInv, io, exchange

(* What is handed to the session is the order that is in the log. *)
LEMMA TransmitOrderStep == IndInv /\ TransmitOrder => IndInv'
<1> SUFFICES ASSUME IndInv, TransmitOrder PROVE IndInv'
  OBVIOUS
<1> DEFINE m == ToNewOrderSingle(req)
<1>1. /\ UNCHANGED <<positions, orders, log, up, connected, order_counter, net_read, io, inbound, book, crashes>>
      /\ spc = "booked" /\ spc' = "idle" /\ outbound' = Append(outbound, m)
  BY DEF TransmitOrder
<1>2. /\ req.order_id \in OrderIds /\ Logged(req.order_id, req.symbol, req.side, req.qty)
      /\ req.symbol \in Symbols /\ req.side \in Sides /\ req.qty \in Nat /\ req.price \in Nat
  BY <1>1, RequestEvent DEF IndInv, RequestOK
<1>3. /\ m \in Messages
      /\ m.cl_ord_id = req.order_id /\ m.symbol = req.symbol /\ m.side = req.side
      /\ m.order_qty = req.qty
  BY <1>2 DEF ToNewOrderSingle, Singles, Messages
<1> HIDE DEF m
<1>4. /\ outbound' \in Seq(Messages) /\ Len(outbound') = Len(outbound) + 1
      /\ \A k \in 1..Len(outbound') : \/ outbound'[k] = m
                                      \/ k \in 1..Len(outbound) /\ outbound'[k] = outbound[k]
  BY <1>1, <1>3 DEF IndInv
<1>5. TypeOK'
  BY <1>1 DEF IndInv, TypeOK, io
<1> QED BY <1>1, <1>4, <1>5 DEF IndInv, RequestOK, ReportAtHand, io

-----------------------------------------------------------------------------
(* The I/O thread. *)
LEMMA SessionStep == IndInv /\ (Logon \/ Logout) => IndInv'
<1> SUFFICES ASSUME IndInv, Logon \/ Logout PROVE IndInv'
  OBVIOUS
<1>1. /\ UNCHANGED <<positions, orders, log, up, order_counter, strategy, io, book, crashes>>
      /\ ipc = "idle" /\ connected' \in BOOLEAN
      /\ inbound' = inbound \/ inbound' = << >>
      /\ outbound' = outbound \/ outbound' = << >>
  BY DEF Logon, Logout, exchange
<1>2. /\ inbound' \in Seq(ExecutionReports) /\ outbound' \in Seq(Messages)
      /\ \A k \in 1..Len(inbound') : ReportOK(inbound'[k])
  <2>1. /\ inbound \in Seq(ExecutionReports) /\ outbound \in Seq(Messages)
        /\ \A k \in 1..Len(inbound) : ReportOK(inbound[k])
    BY DEF IndInv, TypeOK
  <2>2. /\ << >> \in Seq(ExecutionReports) /\ << >> \in Seq(Messages)
        /\ \A k \in 1..Len(<< >>) : FALSE
    OBVIOUS
  <2> QED BY <1>1, <2>1, <2>2, Zenon
<1>3. TypeOK'
  BY <1>1, <1>2 DEF IndInv, TypeOK, strategy, io
<1>4. RequestOK'
  BY <1>1, RequestStays
<1>6. ReportAtHand'
  BY <1>1 DEF ReportAtHand, io
<1> QED BY <1>1, <1>2, <1>3, <1>4, <1>6 DEF IndInv

(* The session has one report less, and all of them in order still. *)
LEMMA ReportsTail ==
  ASSUME IndInv, inbound # << >>
  PROVE  /\ Head(inbound) \in ExecutionReports /\ ReportOK(Head(inbound))
         /\ Head(inbound) = inbound[1] /\ 1 \in 1..Len(inbound)
         /\ Tail(inbound) \in Seq(ExecutionReports)
         /\ Len(Tail(inbound)) = Len(inbound) - 1
         /\ \A k \in 1..Len(Tail(inbound)) : /\ k + 1 \in 1..Len(inbound)
                                             /\ Tail(inbound)[k] = inbound[k + 1]
         /\ \A k \in 1..Len(Tail(inbound)) : ReportOK(Tail(inbound)[k])
<1>1. inbound \in Seq(ExecutionReports)
  BY DEF IndInv, TypeOK
<1>2. /\ Head(inbound) = inbound[1] /\ 1 \in 1..Len(inbound)
      /\ Head(inbound) \in ExecutionReports
      /\ Tail(inbound) \in Seq(ExecutionReports)
      /\ Len(Tail(inbound)) = Len(inbound) - 1
      /\ \A k \in 1..Len(Tail(inbound)) : /\ k + 1 \in 1..Len(inbound)
                                          /\ Tail(inbound)[k] = inbound[k + 1]
  BY <1>1
<1> QED BY <1>2 DEF IndInv

(* A report without an event leaves the session and touches nothing else. *)
LEMMA DropReportStep == IndInv /\ DropReport => IndInv'
<1> SUFFICES ASSUME IndInv, DropReport PROVE IndInv'
  OBVIOUS
<1>1. /\ UNCHANGED <<positions, orders, log, up, connected, order_counter, strategy, io, outbound, book, crashes>>
      /\ ipc = "idle" /\ inbound # << >> /\ inbound' = Tail(inbound)
  BY DEF DropReport, Deliverable
<1>2. inbound' \in Seq(ExecutionReports) /\ \A k \in 1..Len(inbound') : ReportOK(inbound'[k])
  BY <1>1, ReportsTail
<1>3. TypeOK'
  BY <1>1, <1>2 DEF IndInv, TypeOK, strategy, io
<1>4. RequestOK'
  BY <1>1, RequestStays
<1>5. ReportAtHand'
  BY <1>1 DEF ReportAtHand, io
<1> QED BY <1>1, <1>2, <1>3, <1>4, <1>5 DEF IndInv

(* onMessage() begins: the translated event belongs to the first report. *)
LEMMA TakeReportStep == IndInv /\ TakeReport => IndInv'
<1> SUFFICES ASSUME IndInv, TakeReport PROVE IndInv'
  OBVIOUS
<1>1. /\ UNCHANGED <<positions, orders, log, up, connected, order_counter, strategy, exchange, crashes>>
      /\ inbound # << >> /\ ievt' \in FromExecutionReport(Head(inbound)) /\ ipc' = "translated"
  BY DEF TakeReport, Deliverable
<1>2. ievt' \in Events
  <2> DEFINE e == ievt'
             r == Head(inbound)
  <2>1. r \in ExecutionReports /\ e \in FromExecutionReport(r)
    BY <1>1, ReportsTail
  <2> HIDE DEF e, r
  <2>2. e \in FillEvents
    BY <2>1, ReportEvent
  <2> QED BY <2>2 DEF FillEvents, e
<1>3. TypeOK'
  BY <1>1, <1>2 DEF IndInv, TypeOK, strategy, exchange
<1>4. RequestOK'
  BY <1>1, RequestStays DEF exchange
<1>5. ReportAtHand'
  BY <1>1 DEF ReportAtHand, exchange
<1> QED BY <1>1, <1>3, <1>4, <1>5 DEF IndInv, exchange

(* The event at hand. *)
LEMMA EventAtHand ==
  ASSUME IndInv, ipc # "idle"
  PROVE  /\ inbound # << >> /\ ievt \in FromExecutionReport(Head(inbound))
         /\ Head(inbound) \in ExecutionReports /\ ReportOK(Head(inbound))
         /\ ievt \in FillEvents /\ ievt \in Events
<1>1. inbound # << >> /\ ievt \in FromExecutionReport(Head(inbound))
  BY DEF IndInv, ReportAtHand
<1>2. Head(inbound) \in ExecutionReports /\ ReportOK(Head(inbound))
  BY <1>1, ReportsTail
<1>3. ievt \in FillEvents
  BY <1>1, <1>2, ReportEvent
<1> QED BY <1>1, <1>2, <1>3 DEF FillEvents

(* append() in onMessage(): the log grows by the event at hand. *)
LEMMA LogReportStep == IndInv /\ LogReport => IndInv'
<1> SUFFICES ASSUME IndInv, LogReport PROVE IndInv'
  OBVIOUS
<1>1. /\ UNCHANGED <<positions, orders, up, connected, order_counter, strategy, ievt, exchange, crashes>>
      /\ ipc = "translated" /\ ipc' = "logged" /\ Len(log) < MaxEvents
      /\ log' = Append(log, Stored(ievt))
  BY DEF LogReport
<1>2. ievt \in FillEvents /\ log \in Seq(FillEvents)
  BY <1>1, EventAtHand DEF IndInv
<1>3. /\ log' \in Seq(FillEvents) /\ Len(log') <= MaxEvents /\ log' \in Seq(Events)
      /\ Len(log') = Len(log) + 1 /\ \A k \in 1..Len(log) : log'[k] = log[k]
  BY <1>1, <1>2, LogGrows
<1>4. Len(log) \in Nat /\ Len(log') \in Nat /\ Len(log') >= Len(log)
  BY <1>2, <1>3
<1>5. TypeOK'
  BY <1>1, <1>3 DEF IndInv, TypeOK, strategy, exchange
<1>7. RequestOK'
  BY <1>1, <1>3, <1>4, LoggedStays DEF IndInv, RequestOK, Request, OrdId, strategy
<1>8. ReportAtHand'
  BY <1>1 DEF IndInv, ReportAtHand, exchange
<1> QED BY <1>1, <1>3, <1>5, <1>7, <1>8 DEF IndInv, exchange

(* The tracker's booking of the event at hand. *)
LEMMA TrackReportStep == IndInv /\ TrackReport => IndInv'
<1> SUFFICES ASSUME IndInv, TrackReport PROVE IndInv'
  OBVIOUS
<1>1. /\ UNCHANGED <<orders, log, up, connected, order_counter, strategy, ievt, exchange, crashes>>
      /\ ipc = "logged" /\ ipc' = "tracked" /\ positions' = BookPosition(positions, ievt)
  BY DEF TrackReport, ApplyEvent
<1>2. positions' \in PositionTable
  <2>1. positions \in PositionTable /\ ievt \in FillEvents
    BY <1>1, EventAtHand DEF IndInv, TypeOK, PositionTable
  <2> QED BY <1>1, <2>1, BookPositionType
<1>3. TypeOK'
  BY <1>1, <1>2 DEF IndInv, TypeOK, PositionTable, strategy, exchange
<1>4. RequestOK'
  BY <1>1, RequestStays DEF exchange
<1>5. ReportAtHand'
  BY <1>1 DEF IndInv, ReportAtHand, exchange
<1> QED BY <1>1, <1>3, <1>4, <1>5 DEF IndInv, exchange

(* The manager's booking, after which the session forgets the report. *)
LEMMA ProjectReportStep == IndInv /\ ProjectReport => IndInv'
<1> SUFFICES ASSUME IndInv, ProjectReport PROVE IndInv'
  OBVIOUS
<1>1. /\ UNCHANGED <<positions, log, up, connected, order_counter, strategy, outbound, book, crashes>>
      /\ ipc = "tracked" /\ ipc' = "idle" /\ ievt' = None
      /\ orders' = BookOrder(orders, ievt) /\ inbound' = Tail(inbound)
  BY DEF ProjectReport
<1>2. orders' \in OrderTable
  <2>1. orders \in OrderTable /\ ievt \in Events
    BY <1>1, EventAtHand DEF IndInv, TypeOK, OrderTable
  <2> QED BY <1>1, <2>1, BookOrderType
<1>3. inbound' \in Seq(ExecutionReports) /\ \A k \in 1..Len(inbound') : ReportOK(inbound'[k])
  BY <1>1, EventAtHand, ReportsTail
<1>4. TypeOK'
  BY <1>1, <1>2, <1>3 DEF IndInv, TypeOK, OrderTable, strategy
<1>5. RequestOK'
  BY <1>1, RequestStays
<1>6. ReportAtHand'
  BY <1>1 DEF ReportAtHand
<1> QED BY <1>1, <1>3, <1>4, <1>5, <1>6 DEF IndInv
-----------------------------------------------------------------------------
(* The process: what a death leaves behind, and what main() rebuilds. *)
LEMMA DownStep ==
  ASSUME IndInv, Down, crashes' \in 0..MaxCrashes
  PROVE  IndInv'
<1>1. /\ up' \in BOOLEAN /\ connected' \in BOOLEAN /\ order_counter' = 0
      /\ positions' = << >> /\ orders' = << >> /\ spc' = "idle" /\ net_read' = 0
      /\ ipc' = "idle" /\ ievt' = None
      /\ UNCHANGED <<log, outbound, inbound, book>>
  BY DEF Down, exchange
<1>2. /\ positions' \in Seq(Position) /\ Len(positions') <= MaxSymbols
      /\ orders' \in Seq(Order) /\ Len(orders') <= MaxOrders
  BY <1>1, MaxSymbolsAssumption, MaxOrdersAssumption
<1>3. TypeOK'
  BY <1>1, <1>2 DEF IndInv, TypeOK
<1> QED BY <1>1, <1>3 DEF IndInv, RequestOK, ReportAtHand

(* A restart has typed projections, since it replays a typed log. *)
LEMMA RestartStep == IndInv /\ Restart => IndInv'
<1> SUFFICES ASSUME IndInv, Restart PROVE IndInv'
  OBVIOUS
<1>1. /\ UNCHANGED <<log, connected, order_counter, strategy, io, exchange, crashes>>
      /\ up' \in BOOLEAN
      /\ positions' = ReplayPositions(log) /\ orders' = ReplayOrders(log)
  BY DEF Restart
<1>2. log \in Seq(FillEvents) /\ log \in Seq(Events)
  BY DEF IndInv, TypeOK
<1>3. positions' \in PositionTable /\ orders' \in OrderTable
  BY <1>1, <1>2, ReplayPositionsType, ReplayOrdersType
<1>4. TypeOK'
  BY <1>1, <1>3 DEF IndInv, TypeOK, PositionTable, OrderTable, strategy, io, exchange
<1>5. RequestOK'
  BY <1>1, RequestStays DEF exchange
<1>6. ReportAtHand'
  BY <1>1 DEF IndInv, ReportAtHand, io, exchange
<1> QED BY <1>1, <1>4, <1>5, <1>6 DEF IndInv, exchange

-----------------------------------------------------------------------------
(* The exchange.  BookEntry is its record of one order. *)
BookEntry ==
  [ state : {"None", "Live", "Filled", "Cancelled", "Expired"}, symbol : Symbols, side : Sides,
    qty : Nat, filled : Nat ]

(* The exchange is done with an order that is not filled, and says so. *)
Ends(oid, st, xt) ==
  /\ \/ st = "Cancelled" /\ xt = "Canceled"
     \/ st = "Expired" /\ xt = "Expired"
  /\ book[oid].state = "Live"
  /\ book' = [book EXCEPT ![oid].state = st]
  /\ inbound' = Append(inbound, Report(xt, oid, book[oid].symbol, book[oid].side, 0, 0))
  /\ UNCHANGED <<positions, orders, log, up, connected, order_counter, strategy, io, outbound, crashes>>

(* Its own cancel and the end of the day. *)
LEMMA OrderEnds ==
  ASSUME NEW oid, CancelOrder(oid) \/ ExpireOrder(oid)
  PROVE  \E st, xt : Ends(oid, st, xt)
<1>1. CASE CancelOrder(oid)
  <2>1. Ends(oid, "Cancelled", "Canceled")
    BY <1>1 DEF CancelOrder, Tell, Ends
  <2> QED BY <2>1
<1>2. CASE ExpireOrder(oid)
  <2>1. Ends(oid, "Expired", "Expired")
    BY <1>2 DEF ExpireOrder, Tell, Ends
  <2> QED BY <2>1
<1> QED BY <1>1, <1>2

(* A report of the exchange, put at the end of the session's queue. *)
LEMMA ReportSent ==
  ASSUME IndInv, NEW exec_type \in ExecTypes, NEW oid \in OrderIds, NEW sym \in Symbols,
         NEW side \in Sides, NEW qty \in Nat, NEW px \in Nat,
         qty > 0 <=> exec_type \in {"PartialFill", "Fill"},
         inbound' = Append(inbound, Report(exec_type, oid, sym, side, qty, px))
  PROVE  LET r == Report(exec_type, oid, sym, side, qty, px)
         IN  /\ r \in ExecutionReports /\ ReportOK(r)
             /\ r.exec_type = exec_type /\ r.cl_ord_id = oid /\ r.last_shares = qty
             /\ r.symbol = sym /\ r.side = side
             /\ inbound \in Seq(ExecutionReports) /\ inbound' \in Seq(ExecutionReports)
             /\ Len(inbound') = Len(inbound) + 1 /\ inbound'[Len(inbound')] = r
             /\ \A k \in 1..Len(inbound) : k \in 1..Len(inbound') /\ inbound'[k] = inbound[k]
             /\ inbound' # << >>
             /\ inbound # << >> => Head(inbound') = Head(inbound)
             /\ \A k \in 1..Len(inbound') : ReportOK(inbound'[k])
<1> DEFINE r == Report(exec_type, oid, sym, side, qty, px)
<1>1. /\ r.exec_type = exec_type /\ r.cl_ord_id = oid /\ r.last_shares = qty
      /\ r.symbol = sym /\ r.side = side /\ r.has_last = (qty > 0)
  BY DEF Report
<1>2. r \in ExecutionReports
  <2>1. (qty > 0) \in BOOLEAN
    OBVIOUS
  <2> QED BY <2>1, Zenon DEF Report, ExecutionReports
<1>3. ReportOK(r)
  BY <1>1 DEF ReportOK
<1> HIDE DEF r
<1>4. /\ inbound \in Seq(ExecutionReports) /\ Len(inbound) \in Nat
      /\ inbound' = Append(inbound, r)
      /\ \A k \in 1..Len(inbound) : ReportOK(inbound[k])
  BY DEF IndInv, TypeOK, r
<1>5. /\ inbound' \in Seq(ExecutionReports)
      /\ Len(inbound') = Len(inbound) + 1 /\ inbound'[Len(inbound')] = r
      /\ \A k \in 1..Len(inbound) : k \in 1..Len(inbound') /\ inbound'[k] = inbound[k]
      /\ inbound' # << >>
      /\ inbound # << >> => Head(inbound') = Head(inbound)
  BY <1>2, <1>4
<1>6. ASSUME NEW k \in 1..Len(inbound') PROVE ReportOK(inbound'[k])
  <2>1. k = Len(inbound') \/ k \in 1..Len(inbound)
    BY <1>4, <1>5
  <2> QED BY <1>3, <1>4, <1>5, <2>1
<1> QED BY <1>1, <1>2, <1>3, <1>4, <1>5, <1>6 DEF r

(* The first message on its way to the exchange. *)
LEMMA OrdersTail ==
  ASSUME IndInv, outbound # << >>
  PROVE  LET o == Head(outbound)
         IN  /\ o \in Messages /\ 1 \in 1..Len(outbound) /\ o = outbound[1]
             /\ o.cl_ord_id \in OrderIds /\ o.symbol \in Symbols /\ o.side \in Sides
             /\ o.msg_type = "NewOrderSingle" => o \in Singles /\ o.order_qty \in Nat
             /\ Tail(outbound) \in Seq(Messages) /\ Len(Tail(outbound)) = Len(outbound) - 1
             /\ \A k \in 1..Len(Tail(outbound)) : /\ k + 1 \in 1..Len(outbound)
                                                  /\ Tail(outbound)[k] = outbound[k + 1]
<1>1. outbound \in Seq(Messages)
  BY DEF IndInv
<1>2. /\ Head(outbound) = outbound[1] /\ 1 \in 1..Len(outbound) /\ Head(outbound) \in Messages
      /\ Tail(outbound) \in Seq(Messages) /\ Len(Tail(outbound)) = Len(outbound) - 1
      /\ \A k \in 1..Len(Tail(outbound)) : /\ k + 1 \in 1..Len(outbound)
                                           /\ Tail(outbound)[k] = outbound[k + 1]
  BY <1>1
<1>3. ASSUME NEW o \in Messages
      PROVE  /\ o.cl_ord_id \in OrderIds /\ o.symbol \in Symbols /\ o.side \in Sides
             /\ o.msg_type = "NewOrderSingle" => o \in Singles /\ o.order_qty \in Nat
  BY DEF Messages, Singles, CancelRequests
<1> QED BY <1>2, <1>3

(* What the exchange does to its record and to the queue of reports leaves *)
(* the rest of the invariant alone.                                        *)
LEMMA ExchangeStep ==
  ASSUME IndInv, UNCHANGED <<positions, orders, log, up, connected, order_counter, strategy, io, crashes>>,
         book' \in [OrderIds -> BookEntry],
         inbound' \in Seq(ExecutionReports), \A k \in 1..Len(inbound') : ReportOK(inbound'[k]),
         inbound' # << >>, inbound # << >> => Head(inbound') = Head(inbound),
         outbound' \in Seq(Messages)
  PROVE  IndInv'
<1>1. TypeOK'
  BY DEF IndInv, TypeOK, BookEntry, strategy, io
<1>2. RequestOK'
  BY RequestStays
<1>3. ReportAtHand'
  BY DEF IndInv, ReportAtHand, io
<1> QED BY <1>1, <1>2, <1>3 DEF IndInv

(* The exchange accepts an order. *)
LEMMA AcceptOrderStep == IndInv /\ AcceptOrder => IndInv'
<1> SUFFICES ASSUME IndInv, AcceptOrder PROVE IndInv'
  OBVIOUS
<1> DEFINE o == Head(outbound)
           b == [ state |-> "Live", symbol |-> o.symbol, side |-> o.side,
                  qty |-> o.order_qty, filled |-> 0 ]
<1>1. /\ outbound # << >> /\ outbound' = Tail(outbound) /\ o.msg_type = "NewOrderSingle"
      /\ book' = [book EXCEPT ![o.cl_ord_id] = b]
      /\ inbound' = Append(inbound, Report("New", o.cl_ord_id, o.symbol, o.side, 0, 0))
      /\ UNCHANGED <<positions, orders, log, up, connected, order_counter, strategy, io, crashes>>
  BY DEF AcceptOrder
<1>2. /\ o.cl_ord_id \in OrderIds /\ o.symbol \in Symbols /\ o.side \in Sides
      /\ o.order_qty \in Nat /\ outbound' \in Seq(Messages)
      /\ \A k \in 1..Len(outbound') : k + 1 \in 1..Len(outbound) /\ outbound'[k] = outbound[k + 1]
  BY <1>1, OrdersTail
<1>3. b \in BookEntry /\ b.symbol = o.symbol /\ b.side = o.side /\ b.qty = o.order_qty
  BY <1>2 DEF BookEntry
<1> HIDE DEF o, b
<1>4. /\ inbound' \in Seq(ExecutionReports) /\ inbound' # << >>
      /\ inbound # << >> => Head(inbound') = Head(inbound)
      /\ \A k \in 1..Len(inbound') : ReportOK(inbound'[k])
  <2>1. /\ "New" \in ExecTypes /\ 0 \in Nat
        /\ 0 > 0 <=> "New" \in {"PartialFill", "Fill"}
    BY DEF ExecTypes
  <2> QED BY <1>1, <1>2, <2>1, ReportSent
<1>5. book \in [OrderIds -> BookEntry] /\ book' \in [OrderIds -> BookEntry]
  BY <1>1, <1>2, <1>3 DEF IndInv, TypeOK, BookEntry
<1> QED BY <1>1, <1>2, <1>4, <1>5, ExchangeStep

(* The exchange refuses an order, known to it or not. *)
LEMMA RefuseOrderStep == IndInv /\ RefuseOrder => IndInv'
<1> SUFFICES ASSUME IndInv, RefuseOrder PROVE IndInv'
  OBVIOUS
<1> DEFINE o == Head(outbound)
<1>1. /\ outbound # << >> /\ outbound' = Tail(outbound)
      /\ inbound' = Append(inbound, Report("Rejected", o.cl_ord_id, o.symbol, o.side, 0, 0))
      /\ UNCHANGED <<positions, orders, log, up, connected, order_counter, strategy, io, crashes>>
      /\ book' = book
  BY DEF RefuseOrder
<1>2. /\ o.cl_ord_id \in OrderIds /\ o.symbol \in Symbols /\ o.side \in Sides
      /\ outbound' \in Seq(Messages)
      /\ \A k \in 1..Len(outbound') : k + 1 \in 1..Len(outbound) /\ outbound'[k] = outbound[k + 1]
  BY <1>1, OrdersTail
<1> HIDE DEF o
<1>3. /\ inbound' \in Seq(ExecutionReports) /\ inbound' # << >>
      /\ inbound # << >> => Head(inbound') = Head(inbound)
      /\ \A k \in 1..Len(inbound') : ReportOK(inbound'[k])
  <2>1. /\ "Rejected" \in ExecTypes /\ 0 \in Nat
        /\ 0 > 0 <=> "Rejected" \in {"PartialFill", "Fill"}
    BY DEF ExecTypes
  <2> QED BY <1>1, <1>2, <2>1, ReportSent
<1>5. book' \in [OrderIds -> BookEntry]
  BY <1>1 DEF IndInv, TypeOK, BookEntry
<1> QED BY <1>1, <1>2, <1>3, <1>5, ExchangeStep

(* A trade reports shares, and only within the quantity of the order. *)
LEMMA TradeStep ==
  ASSUME IndInv, NEW oid \in OrderIds, NEW qty \in Quantities \ {0}, NEW px \in Prices,
         Trade(oid, qty, px)
  PROVE  IndInv'
<1> DEFINE x == book[oid]
           done == x.filled + qty = x.qty
           type == IF done THEN "Fill" ELSE "PartialFill"
           b == [x EXCEPT !.state = IF done THEN "Filled" ELSE "Live", !.filled = x.filled + qty]
<1>1. /\ x.state = "Live" /\ book' = [book EXCEPT ![oid] = b]
      /\ inbound' = Append(inbound, Report(type, oid, x.symbol, x.side, qty, px))
      /\ UNCHANGED <<positions, orders, log, up, connected, order_counter, strategy, io, crashes>>
      /\ outbound' = outbound
  BY DEF Trade, Tell
<1>2. qty \in Nat /\ qty > 0 /\ px \in Nat
  <2>1. Prices \subseteq Nat
    BY GatewayAssumption
  <2> QED BY <2>1, QuantitiesAssumption
<1>3. book \in [OrderIds -> BookEntry] /\ x \in BookEntry
  BY DEF IndInv, TypeOK, BookEntry
<1>4. /\ b \in BookEntry /\ b.symbol = x.symbol /\ b.side = x.side /\ b.qty = x.qty
      /\ x.symbol \in Symbols /\ x.side \in Sides
  <2> DEFINE st == IF done THEN "Filled" ELSE "Live"
             n == x.filled + qty
  <2>1. st \in {"Live", "Filled"} /\ n \in Nat
    BY <1>2, <1>3 DEF BookEntry
  <2>2. b = [x EXCEPT !.state = st, !.filled = n]
    OBVIOUS
  <2> HIDE DEF st, n, b, x
  <2> QED BY <1>3, <2>1, <2>2 DEF BookEntry
<1>5. type \in ExecTypes /\ type \in {"PartialFill", "Fill"}
  BY DEF ExecTypes
<1> HIDE DEF type, b
<1>6. /\ inbound' \in Seq(ExecutionReports) /\ inbound' # << >>
      /\ inbound # << >> => Head(inbound') = Head(inbound)
      /\ \A k \in 1..Len(inbound') : ReportOK(inbound'[k])
  <2> HIDE DEF x
  <2> QED BY <1>1, <1>2, <1>4, <1>5, ReportSent
<1>7. book' \in [OrderIds -> BookEntry]
  BY <1>1, <1>3, <1>4
<1>9. outbound' \in Seq(Messages)
  BY <1>1 DEF IndInv
<1> QED BY <1>1, <1>6, <1>7, <1>9, ExchangeStep

(* A cancel or an expiry reports no shares. *)
LEMMA OrderEndsStep ==
  ASSUME IndInv, NEW oid \in OrderIds, CancelOrder(oid) \/ ExpireOrder(oid)
  PROVE  IndInv'
<1>0. PICK st, xt : Ends(oid, st, xt)
  BY OrderEnds
<1> DEFINE x == book[oid]
           b == [x EXCEPT !.state = st]
<1>1. /\ x.state = "Live" /\ book' = [book EXCEPT ![oid] = b]
      /\ inbound' = Append(inbound, Report(xt, oid, x.symbol, x.side, 0, 0))
      /\ UNCHANGED <<positions, orders, log, up, connected, order_counter, strategy, io, crashes>>
      /\ outbound' = outbound
  BY <1>0 DEF Ends
<1>2. book \in [OrderIds -> BookEntry] /\ x \in BookEntry
  BY DEF IndInv, TypeOK, BookEntry
<1>3. /\ b \in BookEntry /\ b.symbol = x.symbol /\ b.side = x.side /\ b.qty = x.qty
      /\ x.symbol \in Symbols /\ x.side \in Sides
  BY <1>0, <1>2 DEF BookEntry, Ends
<1> HIDE DEF b
<1>4. /\ inbound' \in Seq(ExecutionReports) /\ inbound' # << >>
      /\ inbound # << >> => Head(inbound') = Head(inbound)
      /\ \A k \in 1..Len(inbound') : ReportOK(inbound'[k])
  <2>1. /\ xt \in ExecTypes /\ 0 \in Nat
        /\ 0 > 0 <=> xt \in {"PartialFill", "Fill"}
    BY <1>0 DEF ExecTypes, Ends
  <2> HIDE DEF x
  <2> QED BY <1>1, <1>3, <2>1, ReportSent
<1>5. book' \in [OrderIds -> BookEntry]
  BY <1>1, <1>2, <1>3
<1>7. outbound' \in Seq(Messages)
  BY <1>1 DEF IndInv
<1> QED BY <1>1, <1>4, <1>5, <1>7, ExchangeStep

-----------------------------------------------------------------------------
(* The steps of all parts together. *)
LEMMA NextIndInv == IndInv /\ [Next]_vars => IndInv'
<1> SUFFICES ASSUME IndInv, [Next]_vars PROVE IndInv'
  OBVIOUS
<1>1. CASE Strategy
  BY <1>1, SendOrderStep, CheckRiskStep, RecordOrderStep, ProjectOrderStep, TransmitOrderStep
     DEF Strategy
<1>2. CASE IOThread
  BY <1>2, SessionStep, DropReportStep, TakeReportStep, LogReportStep, TrackReportStep,
     ProjectReportStep DEF IOThread
<1>3. CASE Process
  <2>1. CASE Crash \/ TerminateLogFull
    <3>1. crashes \in 0..MaxCrashes /\ MaxCrashes \in Nat
      BY GatewayAssumption DEF IndInv, TypeOK
    <3>2. Down /\ crashes' \in 0..MaxCrashes
      BY <2>1, <3>1 DEF Crash, TerminateLogFull
    <3> QED BY <3>2, DownStep
  <2> QED BY <1>3, <2>1, RestartStep DEF Process
<1>4. CASE Exchange
  BY <1>4, AcceptOrderStep, RefuseOrderStep, TradeStep, OrderEndsStep DEF Exchange
<1>5. CASE UNCHANGED vars
  <2>1. UNCHANGED <<positions, orders, log, up, connected, order_counter, strategy, io, exchange, crashes>>
    BY <1>5 DEF vars
  <2>2. TypeOK'
    BY <2>1 DEF IndInv, TypeOK, strategy, io, exchange
  <2>3. RequestOK'
    BY <2>1, RequestStays DEF exchange
  <2>4. ReportAtHand'
    BY <2>1 DEF IndInv, ReportAtHand, io, exchange
  <2> QED BY <2>1, <2>2, <2>3, <2>4 DEF IndInv, exchange
<1> QED BY <1>1, <1>2, <1>3, <1>4, <1>5 DEF Next

(* The invariant of the gateway, whatever dies when. *)
THEOREM GatewayInductive == Spec => []IndInv
BY InitIndInv, NextIndInv, PTL DEF Spec

(* Every part keeps its type and capacity through interleavings, deaths    *)
(* and replays: no table and no log is overrun.                            *)
THEOREM GatewayTypeOK == Spec => []TypeOK
<1>1. IndInv => TypeOK
  BY DEF IndInv
<1> QED BY <1>1, GatewayInductive, PTL

(* What left the process stays logged in a step that sends nothing. *)
LEMMA LoggedOrdersStay ==
  ASSUME IndInv, LogBeforeExchange, UNCHANGED <<outbound, book>>,
         \/ log' = log
         \/ \E e : log' = Append(log, e)
  PROVE  LogBeforeExchange'
<1>1. /\ Len(log) \in Nat /\ Len(log') \in Nat /\ Len(log') >= Len(log)
      /\ \A k \in 1..Len(log) : log'[k] = log[k]
  BY DEF IndInv
<1> QED BY <1>1, LoggedStays DEF LogBeforeExchange

(* LogBeforeExchange after a step that leaves the log alone, from the two sets of orders. *)
LEMMA LoggedOrders ==
  ASSUME log' = log,
         \A k \in 1..Len(outbound') : Logged(outbound'[k].cl_ord_id, outbound'[k].symbol,
                                             outbound'[k].side, outbound'[k].order_qty),
         \A id \in OrderIds : book'[id].state # "None" =>
           Logged(id, book'[id].symbol, book'[id].side, book'[id].qty)
  PROVE  LogBeforeExchange'
BY DEF LogBeforeExchange, Logged

(* What is handed to the session is the order that is in the log. *)
LEMMA TransmitOrderLogged == IndInv /\ LogBeforeExchange /\ TransmitOrder => LogBeforeExchange'
<1> SUFFICES ASSUME IndInv, LogBeforeExchange, TransmitOrder PROVE LogBeforeExchange'
  OBVIOUS
<1> DEFINE m == ToNewOrderSingle(req)
<1>1. spc = "booked" /\ outbound' = Append(outbound, m) /\ UNCHANGED <<log, book>>
  BY DEF TransmitOrder
<1>2. Logged(req.order_id, req.symbol, req.side, req.qty)
  BY <1>1 DEF IndInv, RequestOK
<1>3. /\ m.cl_ord_id = req.order_id /\ m.symbol = req.symbol /\ m.side = req.side
      /\ m.order_qty = req.qty
  BY DEF ToNewOrderSingle
<1> HIDE DEF m
<1>4. \A k \in 1..Len(outbound') : \/ outbound'[k] = m
                                   \/ k \in 1..Len(outbound) /\ outbound'[k] = outbound[k]
  BY <1>1 DEF IndInv
<1>5. ASSUME NEW k \in 1..Len(outbound')
      PROVE  Logged(outbound'[k].cl_ord_id, outbound'[k].symbol, outbound'[k].side,
                    outbound'[k].order_qty)
  BY <1>2, <1>3, <1>4 DEF LogBeforeExchange
<1>6. \A id \in OrderIds : book'[id].state # "None" =>
        Logged(id, book'[id].symbol, book'[id].side, book'[id].qty)
  BY <1>1 DEF LogBeforeExchange
<1> QED BY <1>1, <1>5, <1>6, LoggedOrders

(* A session that drops its messages. *)
LEMMA LogonLogged == IndInv /\ LogBeforeExchange /\ Logon => LogBeforeExchange'
<1> SUFFICES ASSUME IndInv, LogBeforeExchange, Logon PROVE LogBeforeExchange'
  OBVIOUS
<1>1. UNCHANGED <<log, book>> /\ (outbound' = outbound \/ outbound' = << >>)
  BY DEF Logon
<1>2. CASE outbound' = outbound
  BY <1>1, <1>2, LoggedOrdersStay
<1>3. CASE outbound' = << >>
  <2>1. 1..Len(outbound') = {}
    BY <1>3
  <2> QED BY <1>1, <2>1 DEF LogBeforeExchange, Logged
<1> QED BY <1>1, <1>2, <1>3

(* The exchange has the orders it had, with what was logged of them, and   *)
(* the one that reaches it.                                                *)
LEMMA ExchangeLogged == IndInv /\ LogBeforeExchange /\ Exchange => LogBeforeExchange'
<1> SUFFICES ASSUME IndInv, LogBeforeExchange, Exchange PROVE LogBeforeExchange'
  OBVIOUS
<1>1. log' = log
  BY DEF Exchange, AcceptOrder, RefuseOrder, Trade, CancelOrder, ExpireOrder
<1>2. book \in [OrderIds -> BookEntry]
  BY DEF IndInv, TypeOK, BookEntry
<1>3. \A k \in 1..Len(outbound) :
        Logged(outbound[k].cl_ord_id, outbound[k].symbol, outbound[k].side, outbound[k].order_qty)
  BY DEF LogBeforeExchange
<1>4. \A k \in 1..Len(outbound') : \E j \in 1..Len(outbound) : outbound'[k] = outbound[j]
  <2>1. CASE outbound' = outbound
    BY <2>1
  <2>2. CASE outbound # << >> /\ outbound' = Tail(outbound)
    BY <2>2, OrdersTail
  <2> QED BY <2>1, <2>2 DEF Exchange, AcceptOrder, RefuseOrder, Trade, CancelOrder, ExpireOrder
<1>5. ASSUME NEW id \in OrderIds, book'[id].state # "None"
      PROVE  Logged(id, book'[id].symbol, book'[id].side, book'[id].qty)
  <2>1. CASE AcceptOrder
    <3> DEFINE o == Head(outbound)
               b == [ state |-> "Live", symbol |-> o.symbol, side |-> o.side,
                      qty |-> o.order_qty, filled |-> 0 ]
    <3>1. outbound # << >> /\ book' = [book EXCEPT ![o.cl_ord_id] = b]
      BY <2>1 DEF AcceptOrder
    <3>2. o = outbound[1] /\ 1 \in 1..Len(outbound) /\ o.cl_ord_id \in OrderIds
      BY <3>1, OrdersTail
    <3>3. Logged(o.cl_ord_id, o.symbol, o.side, o.order_qty)
      BY <1>3, <3>2
    <3>4. b.symbol = o.symbol /\ b.side = o.side /\ b.qty = o.order_qty
      OBVIOUS
    <3> HIDE DEF o, b
    <3>5. CASE id = o.cl_ord_id
      BY <1>2, <3>1, <3>2, <3>3, <3>4, <3>5
    <3>6. CASE id # o.cl_ord_id
      BY <1>2, <1>5, <3>1, <3>6 DEF LogBeforeExchange
    <3> QED BY <3>5, <3>6
  <2>2. CASE RefuseOrder
    BY <1>5, <2>2 DEF RefuseOrder, LogBeforeExchange
  <2>3. ASSUME NEW oid \in OrderIds,
               \/ CancelOrder(oid) \/ ExpireOrder(oid)
               \/ \E qty \in Quantities \ {0}, px \in Prices : Trade(oid, qty, px)
        PROVE  Logged(id, book'[id].symbol, book'[id].side, book'[id].qty)
    <3>1. /\ book[oid].state = "Live" /\ book[id] \in BookEntry /\ book[oid] \in BookEntry
          /\ \/ \E st : book' = [book EXCEPT ![oid].state = st]
             \/ \E st, n : book' = [book EXCEPT ![oid].state = st, ![oid].filled = n]
      BY <1>2, <2>3 DEF CancelOrder, ExpireOrder, Trade
    <3>2. id # oid => book'[id] = book[id]
      BY <1>2, <3>1
    <3>3. /\ book'[id].symbol = book[id].symbol /\ book'[id].side = book[id].side
          /\ book'[id].qty = book[id].qty
      <4>1. ASSUME NEW st, book' = [book EXCEPT ![oid].state = st]
            PROVE  /\ book'[id].symbol = book[id].symbol /\ book'[id].side = book[id].side
                   /\ book'[id].qty = book[id].qty
        BY <1>2, <3>1, <3>2, <4>1 DEF BookEntry
      <4>2. ASSUME NEW st, NEW n, book' = [book EXCEPT ![oid].state = st, ![oid].filled = n]
            PROVE  /\ book'[id].symbol = book[id].symbol /\ book'[id].side = book[id].side
                   /\ book'[id].qty = book[id].qty
        BY <1>2, <3>1, <3>2, <4>2 DEF BookEntry
      <4> QED BY <3>1, <4>1, <4>2
    <3>4. book[id].state # "None"
      BY <1>5, <3>1, <3>2
    <3> QED BY <3>3, <3>4 DEF LogBeforeExchange
  <2> QED BY <2>1, <2>2, <2>3 DEF Exchange
<1> QED BY <1>1, <1>3, <1>4, <1>5, LoggedOrders

(* An order the exchange may know of is in the log, with the quantity the  *)
(* exchange has, at whatever point the process dies.                       *)
THEOREM GatewayLogBeforeExchange == Spec => []LogBeforeExchange
<1>1. Init => LogBeforeExchange
  <2> SUFFICES ASSUME Init PROVE LogBeforeExchange
    OBVIOUS
  <2>1. outbound = << >> /\ \A oid \in OrderIds : book[oid].state = "None"
    BY DEF Init
  <2> QED BY <2>1 DEF LogBeforeExchange
<1>2. IndInv /\ LogBeforeExchange /\ [Next]_vars => LogBeforeExchange'
  <2> SUFFICES ASSUME IndInv, LogBeforeExchange, [Next]_vars PROVE LogBeforeExchange'
    OBVIOUS
  <2>1. CASE Strategy
    <3>1. CASE ~TransmitOrder
      <4>1. UNCHANGED <<outbound, book>> /\ (log' = log \/ \E e : log' = Append(log, e))
        BY <2>1, <3>1 DEF Strategy, SendOrder, CheckRisk, RecordOrder, ProjectOrder, exchange
      <4> QED BY <4>1, LoggedOrdersStay
    <3> QED BY <3>1, TransmitOrderLogged
  <2>2. CASE IOThread
    <3>1. CASE ~Logon
      <4>1. UNCHANGED <<outbound, book>> /\ (log' = log \/ \E e : log' = Append(log, e))
        BY <2>2, <3>1 DEF IOThread, Logout, DropReport, TakeReport, LogReport, TrackReport,
                          ProjectReport, exchange
      <4> QED BY <4>1, LoggedOrdersStay
    <3> QED BY <3>1, LogonLogged
  <2>3. CASE Process \/ UNCHANGED vars
    <3>1. UNCHANGED <<log, outbound, book>>
      BY <2>3 DEF Process, Crash, TerminateLogFull, Down, Restart, vars, exchange
    <3> QED BY <3>1, LoggedOrdersStay
  <2> QED BY <2>1, <2>2, <2>3, ExchangeLogged DEF Next
<1> QED BY <1>1, <1>2, GatewayInductive, PTL DEF Spec
-----------------------------------------------------------------------------
(* The shares of an order in a log and in the reports of a session, entry  *)
(* by entry.                                                               *)
FillsIn(lg, oid) ==
  FoldLeft(LAMBDA sum, e : IF e.order_id = oid THEN sum + e.fill_qty ELSE sum, 0, lg)

EventShares(lg, oid) ==
  [i \in 1..Len(lg) |-> IF lg[i].order_id = oid THEN lg[i].fill_qty ELSE 0]

ReportShares(rs, oid) ==
  [i \in 1..Len(rs) |-> IF rs[i].cl_ord_id = oid THEN rs[i].last_shares ELSE 0]

(* What the log holds of an order is a sum over its entries. *)
LEMMA FillsInIsSum ==
  ASSUME NEW lg \in Seq(FillEvents), NEW oid
  PROVE  /\ EventShares(lg, oid) \in Seq(Nat) /\ EventShares(lg, oid) \in Seq(Int)
         /\ FillsIn(lg, oid) = SumOf(EventShares(lg, oid))
         /\ FillsIn(lg, oid) \in Nat
<1> DEFINE n == Len(lg)
           v == EventShares(lg, oid)
           counts(i) == lg[i].order_id = oid
           Body(g, s) == IF s = {} THEN 0
                         ELSE IF counts(Max(s)) THEN g[s \ {Max(s)}] + lg[Max(s)].fill_qty
                         ELSE g[s \ {Max(s)}]
           It == CHOOSE g : g = [s \in SUBSET (DOMAIN lg) |-> Body(g, s)]
<1>1. n \in Nat /\ DOMAIN lg = 1..n
  OBVIOUS
<1>2. FillsIn(lg, oid) = It[DOMAIN lg]
  BY DEF FillsIn, FoldLeft, MapThenFoldSet
<1>3. ASSUME NEW i \in 1..n PROVE lg[i].fill_qty \in Nat
  <2>1. lg[i] \in FillEvents
    OBVIOUS
  <2> QED BY <2>1 DEF FillEvents
<1>4. /\ v \in [1..n -> Int] /\ v \in Seq(Nat)
      /\ \A i \in 1..n : v[i] = IF counts(i) THEN lg[i].fill_qty ELSE 0
  BY <1>3 DEF EventShares
<1> HIDE DEF v
<1>5. PICK h \in [SUBSET (1..n) -> Int] :
        \A s \in SUBSET (1..n) : h[s] = IF s = {} THEN 0 ELSE h[s \ {Max(s)}] + v[Max(s)]
  <2> HIDE DEF n
  <2> QED BY <1>1, <1>4, SumFoldExists
<1>6. ASSUME NEW s \in SUBSET (1..n), s # {}, NEW g, g[s \ {Max(s)}] \in Int
      PROVE  Body(g, s) = g[s \ {Max(s)}] + v[Max(s)]
  <2>1. Max(s) \in 1..n
    BY <1>1, <1>6, MaxOfPositions
  <2> DEFINE a == g[s \ {Max(s)}]
  <2>2. a \in Int /\ a + 0 = a
    BY <1>6
  <2> HIDE DEF a
  <2>3. v[Max(s)] = IF counts(Max(s)) THEN lg[Max(s)].fill_qty ELSE 0
    BY <1>4, <2>1
  <2>4. Body(g, s) = IF counts(Max(s)) THEN a + lg[Max(s)].fill_qty ELSE a
    BY <1>6 DEF a
  <2>5. Body(g, s) = a + v[Max(s)]
    BY <2>2, <2>3, <2>4
  <2> QED BY <2>5 DEF a
<1>7. h = [s \in SUBSET (DOMAIN lg) |-> Body(h, s)]
  <2> SUFFICES ASSUME NEW s \in SUBSET (1..n) PROVE h[s] = Body(h, s)
    BY <1>1
  <2>1. CASE s = {}
    BY <1>5, <2>1
  <2>2. CASE s # {}
    <3>1. s \ {Max(s)} \in SUBSET (1..n)
      OBVIOUS
    <3>2. h[s \ {Max(s)}] \in Int
      BY <1>5, <3>1
    <3>3. h[s] = h[s \ {Max(s)}] + v[Max(s)]
      BY <1>5, <2>2
    <3> HIDE DEF Body
    <3> QED BY <1>6, <2>2, <3>2, <3>3
  <2> QED BY <2>1, <2>2
<1>8. It = [s \in SUBSET (DOMAIN lg) |-> Body(It, s)]
  BY <1>7
<1> HIDE DEF It
<1>9. It[{}] = 0 /\ \A s \in SUBSET (1..n) : s # {} => It[s] = Body(It, s)
  <2>1. {} \in SUBSET (DOMAIN lg)
    OBVIOUS
  <2> QED BY <1>1, <1>8, <2>1
<1> HIDE DEF Body
<1>10. \A s \in SUBSET (1..n) : s # {} /\ It[s \ {Max(s)}] \in Int
                                  => It[s] = It[s \ {Max(s)}] + v[Max(s)]
  BY <1>6, <1>9
<1>11. It[1..n] = SumOf(v) /\ It[1..n] \in Int
  <2> HIDE DEF n
  <2> QED BY <1>1, <1>4, <1>9, <1>10, FoldIsSum
<1>12. v \in Seq(Int) /\ SumOf(v) \in Nat
  BY <1>4, SumOfNaturals
<1> QED BY <1>1, <1>2, <1>4, <1>11, <1>12 DEF v

(* What the session holds of an order is a sum over its reports. *)
LEMMA QueuedFillsIsSum ==
  ASSUME NEW rs \in Seq(ExecutionReports), NEW oid
  PROVE  /\ ReportShares(rs, oid) \in Seq(Nat) /\ ReportShares(rs, oid) \in Seq(Int)
         /\ QueuedFills(rs, oid) = SumOf(ReportShares(rs, oid))
         /\ QueuedFills(rs, oid) \in Nat
<1> DEFINE n == Len(rs)
           v == ReportShares(rs, oid)
           counts(i) == rs[i].cl_ord_id = oid
           Body(g, s) == IF s = {} THEN 0
                         ELSE IF counts(Max(s)) THEN g[s \ {Max(s)}] + rs[Max(s)].last_shares
                         ELSE g[s \ {Max(s)}]
           It == CHOOSE g : g = [s \in SUBSET (DOMAIN rs) |-> Body(g, s)]
<1>1. n \in Nat /\ DOMAIN rs = 1..n
  OBVIOUS
<1>2. QueuedFills(rs, oid) = It[DOMAIN rs]
  BY DEF QueuedFills, FoldLeft, MapThenFoldSet
<1>3. ASSUME NEW i \in 1..n PROVE rs[i].last_shares \in Nat
  <2>1. rs[i] \in ExecutionReports
    OBVIOUS
  <2> QED BY <2>1 DEF ExecutionReports
<1>4. /\ v \in [1..n -> Int] /\ v \in Seq(Nat)
      /\ \A i \in 1..n : v[i] = IF counts(i) THEN rs[i].last_shares ELSE 0
  BY <1>3 DEF ReportShares
<1> HIDE DEF v
<1>5. PICK h \in [SUBSET (1..n) -> Int] :
        \A s \in SUBSET (1..n) : h[s] = IF s = {} THEN 0 ELSE h[s \ {Max(s)}] + v[Max(s)]
  <2> HIDE DEF n
  <2> QED BY <1>1, <1>4, SumFoldExists
<1>6. ASSUME NEW s \in SUBSET (1..n), s # {}, NEW g, g[s \ {Max(s)}] \in Int
      PROVE  Body(g, s) = g[s \ {Max(s)}] + v[Max(s)]
  <2>1. Max(s) \in 1..n
    BY <1>1, <1>6, MaxOfPositions
  <2> DEFINE a == g[s \ {Max(s)}]
  <2>2. a \in Int /\ a + 0 = a
    BY <1>6
  <2> HIDE DEF a
  <2>3. v[Max(s)] = IF counts(Max(s)) THEN rs[Max(s)].last_shares ELSE 0
    BY <1>4, <2>1
  <2>4. Body(g, s) = IF counts(Max(s)) THEN a + rs[Max(s)].last_shares ELSE a
    BY <1>6 DEF a
  <2>5. Body(g, s) = a + v[Max(s)]
    BY <2>2, <2>3, <2>4
  <2> QED BY <2>5 DEF a
<1>7. h = [s \in SUBSET (DOMAIN rs) |-> Body(h, s)]
  <2> SUFFICES ASSUME NEW s \in SUBSET (1..n) PROVE h[s] = Body(h, s)
    BY <1>1
  <2>1. CASE s = {}
    BY <1>5, <2>1
  <2>2. CASE s # {}
    <3>1. s \ {Max(s)} \in SUBSET (1..n)
      OBVIOUS
    <3>2. h[s \ {Max(s)}] \in Int
      BY <1>5, <3>1
    <3>3. h[s] = h[s \ {Max(s)}] + v[Max(s)]
      BY <1>5, <2>2
    <3> HIDE DEF Body
    <3> QED BY <1>6, <2>2, <3>2, <3>3
  <2> QED BY <2>1, <2>2
<1>8. It = [s \in SUBSET (DOMAIN rs) |-> Body(It, s)]
  BY <1>7
<1> HIDE DEF It
<1>9. It[{}] = 0 /\ \A s \in SUBSET (1..n) : s # {} => It[s] = Body(It, s)
  <2>1. {} \in SUBSET (DOMAIN rs)
    OBVIOUS
  <2> QED BY <1>1, <1>8, <2>1
<1> HIDE DEF Body
<1>10. \A s \in SUBSET (1..n) : s # {} /\ It[s \ {Max(s)}] \in Int
                                  => It[s] = It[s \ {Max(s)}] + v[Max(s)]
  BY <1>6, <1>9
<1>11. It[1..n] = SumOf(v) /\ It[1..n] \in Int
  <2> HIDE DEF n
  <2> QED BY <1>1, <1>4, <1>9, <1>10, FoldIsSum
<1>12. v \in Seq(Int) /\ SumOf(v) \in Nat
  BY <1>4, SumOfNaturals
<1> QED BY <1>1, <1>2, <1>4, <1>11, <1>12 DEF v

(* One more entry, one more report, one report less. *)
LEMMA FillsInAppend ==
  ASSUME NEW lg \in Seq(FillEvents), NEW e \in FillEvents, NEW oid
  PROVE  FillsIn(Append(lg, e), oid) =
           FillsIn(lg, oid) + IF e.order_id = oid THEN e.fill_qty ELSE 0
<1> DEFINE x == IF e.order_id = oid THEN e.fill_qty ELSE 0
           v == EventShares(lg, oid)
<1>1. Append(lg, e) \in Seq(FillEvents) /\ x \in Int
  BY DEF FillEvents
<1>2. v \in Seq(Int)
  BY FillsInIsSum
<1>3. EventShares(Append(lg, e), oid) = Append(v, x)
  <2>1. /\ Len(Append(lg, e)) = Len(lg) + 1 /\ Len(lg) \in Nat
        /\ \A i \in 1..(Len(lg) + 1) :
             Append(lg, e)[i] = IF i = Len(lg) + 1 THEN e ELSE lg[i]
    OBVIOUS
  <2>2. /\ Append(v, x) = [i \in 1..(Len(lg) + 1) |-> IF i = Len(lg) + 1 THEN x ELSE v[i]]
        /\ \A i \in 1..Len(lg) : v[i] = IF lg[i].order_id = oid THEN lg[i].fill_qty ELSE 0
    <3>1. Len(v) = Len(lg)
      BY DEF EventShares
    <3> QED BY <1>2, <3>1 DEF EventShares
  <2> HIDE DEF v
  <2> QED BY <2>1, <2>2 DEF EventShares
<1>4. SumOf(Append(v, x)) = SumOf(v) + x
  <2> HIDE DEF x, v
  <2> QED BY <1>1, <1>2, SumAppend
<1> QED BY <1>1, <1>3, <1>4, FillsInIsSum

(* A report adds its shares to those under way for its order. *)
LEMMA QueuedFillsAppend ==
  ASSUME NEW rs \in Seq(ExecutionReports), NEW r \in ExecutionReports, NEW oid
  PROVE  QueuedFills(Append(rs, r), oid) =
           QueuedFills(rs, oid) + IF r.cl_ord_id = oid THEN r.last_shares ELSE 0
<1> DEFINE x == IF r.cl_ord_id = oid THEN r.last_shares ELSE 0
           v == ReportShares(rs, oid)
<1>1. Append(rs, r) \in Seq(ExecutionReports) /\ x \in Int
  BY DEF ExecutionReports
<1>2. v \in Seq(Int)
  BY QueuedFillsIsSum
<1>3. ReportShares(Append(rs, r), oid) = Append(v, x)
  <2>1. /\ Len(Append(rs, r)) = Len(rs) + 1 /\ Len(rs) \in Nat
        /\ \A i \in 1..(Len(rs) + 1) :
             Append(rs, r)[i] = IF i = Len(rs) + 1 THEN r ELSE rs[i]
    OBVIOUS
  <2>2. /\ Append(v, x) = [i \in 1..(Len(rs) + 1) |-> IF i = Len(rs) + 1 THEN x ELSE v[i]]
        /\ \A i \in 1..Len(rs) : v[i] = IF rs[i].cl_ord_id = oid THEN rs[i].last_shares ELSE 0
    <3>1. Len(v) = Len(rs)
      BY DEF ReportShares
    <3> QED BY <1>2, <3>1 DEF ReportShares
  <2> HIDE DEF v
  <2> QED BY <2>1, <2>2 DEF ReportShares
<1>4. SumOf(Append(v, x)) = SumOf(v) + x
  <2> HIDE DEF x, v
  <2> QED BY <1>1, <1>2, SumAppend
<1> QED BY <1>1, <1>3, <1>4, QueuedFillsIsSum

(* The first report takes its shares from those under way for its order. *)
LEMMA QueuedFillsTail ==
  ASSUME NEW rs \in Seq(ExecutionReports), rs # << >>, NEW oid
  PROVE  /\ Head(rs) \in ExecutionReports /\ Tail(rs) \in Seq(ExecutionReports)
         /\ QueuedFills(rs, oid) =
              QueuedFills(Tail(rs), oid) + IF Head(rs).cl_ord_id = oid
                                           THEN Head(rs).last_shares ELSE 0
<1> DEFINE r == Head(rs)
           x == IF r.cl_ord_id = oid THEN r.last_shares ELSE 0
           v == ReportShares(rs, oid)
<1>1. r \in ExecutionReports /\ r = rs[1] /\ Tail(rs) \in Seq(ExecutionReports)
  OBVIOUS
<1>2. v \in Seq(Int) /\ v # << >> /\ v[1] = x
  <2>1. v \in Seq(Int)
    BY QueuedFillsIsSum
  <2>2. Len(v) = Len(rs) /\ v[1] = x
    BY <1>1 DEF ReportShares
  <2> QED BY <2>1, <2>2
<1>3. ReportShares(Tail(rs), oid) = Tail(v)
  <2>1. /\ Len(Tail(rs)) = Len(rs) - 1 /\ Len(rs) \in Nat
        /\ \A i \in 1..(Len(rs) - 1) : Tail(rs)[i] = rs[i + 1]
    OBVIOUS
  <2>2. /\ Tail(v) = [i \in 1..(Len(rs) - 1) |-> v[i + 1]]
        /\ \A i \in 1..Len(rs) : v[i] = IF rs[i].cl_ord_id = oid THEN rs[i].last_shares ELSE 0
    <3>1. Len(v) = Len(rs)
      BY DEF ReportShares
    <3> QED BY <1>2, <3>1 DEF ReportShares
  <2> HIDE DEF v
  <2> QED BY <2>1, <2>2 DEF ReportShares
<1>4. SumOf(v) = v[1] + SumOf(Tail(v))
  <2> HIDE DEF v
  <2> QED BY <1>2, SumTail
<1>5. QueuedFills(rs, oid) = SumOf(v) /\ SumOf(v) \in Int
  BY QueuedFillsIsSum
<1>6. QueuedFills(Tail(rs), oid) = SumOf(Tail(v)) /\ SumOf(Tail(v)) \in Int
  <2> DEFINE t == Tail(rs)
  <2>1. t \in Seq(ExecutionReports) /\ ReportShares(t, oid) = Tail(v)
    BY <1>1, <1>3
  <2> HIDE DEF t
  <2>2. QueuedFills(t, oid) = SumOf(ReportShares(t, oid)) /\ QueuedFills(t, oid) \in Nat
    BY <2>1, QueuedFillsIsSum
  <2> HIDE DEF v
  <2>3. QueuedFills(t, oid) = SumOf(Tail(v)) /\ SumOf(Tail(v)) \in Int
    BY <2>1, <2>2
  <2> QED BY <2>3 DEF t
<1>7. x \in Int
  BY <1>1 DEF ExecutionReports
<1> HIDE DEF v, x
<1>8. SumOf(v) = SumOf(Tail(v)) + x
  BY <1>2, <1>4, <1>5, <1>6, <1>7
<1>9. QueuedFills(rs, oid) = QueuedFills(Tail(rs), oid) + x
  BY <1>5, <1>6, <1>8
<1> QED BY <1>1, <1>9 DEF x
-----------------------------------------------------------------------------
(* The reports the log has not got.  NoFillLost alone does not survive a   *)
(* death: what matters is that a report leaves these only for the log.     *)
Unlogged == IF ipc \in {"logged", "tracked"} THEN Tail(inbound) ELSE inbound

FillsKept ==
  \A oid \in OrderIds : FillsIn(log, oid) + QueuedFills(Unlogged, oid) >= book[oid].filled

(* The three numbers that FillsKept compares are natural. *)
LEMMA FillNumbers ==
  ASSUME IndInv, NEW oid \in OrderIds
  PROVE  /\ FillsIn(log, oid) \in Nat
         /\ Unlogged \in Seq(ExecutionReports) /\ QueuedFills(Unlogged, oid) \in Nat
         /\ inbound \in Seq(ExecutionReports) /\ QueuedFills(inbound, oid) \in Nat
         /\ QueuedFills(inbound, oid) >= QueuedFills(Unlogged, oid)
         /\ book[oid].filled \in Nat
<1>1. log \in Seq(FillEvents) /\ inbound \in Seq(ExecutionReports)
  BY DEF IndInv, TypeOK
<1>2. FillsIn(log, oid) \in Nat /\ QueuedFills(inbound, oid) \in Nat
  BY <1>1, FillsInIsSum, QueuedFillsIsSum
<1>3. book[oid].filled \in Nat
  BY DEF IndInv, TypeOK
<1>4. CASE ipc \in {"logged", "tracked"}
  <2>1. inbound # << >> /\ Unlogged = Tail(inbound)
    BY <1>4 DEF IndInv, ReportAtHand, Unlogged
  <2> DEFINE x == IF Head(inbound).cl_ord_id = oid THEN Head(inbound).last_shares ELSE 0
             t == Tail(inbound)
  <2>2. /\ Head(inbound) \in ExecutionReports /\ t \in Seq(ExecutionReports)
        /\ QueuedFills(inbound, oid) = QueuedFills(t, oid) + x
    BY <1>1, <2>1, QueuedFillsTail
  <2>3. x \in Nat
    BY <2>2 DEF ExecutionReports
  <2> HIDE DEF x, t
  <2>4. QueuedFills(t, oid) \in Nat
    BY <2>2, QueuedFillsIsSum
  <2>5. QueuedFills(inbound, oid) >= QueuedFills(t, oid)
    BY <2>2, <2>3, <2>4
  <2> QED BY <1>1, <1>2, <1>3, <2>1, <2>2, <2>4, <2>5 DEF t
<1>5. CASE ipc \notin {"logged", "tracked"}
  <2>1. Unlogged = inbound
    BY <1>5 DEF Unlogged
  <2> QED BY <1>1, <1>2, <1>3, <2>1
<1> QED BY <1>4, <1>5

(* A step that touches neither the log nor what is not in it. *)
LEMMA FillsUntouched ==
  ASSUME FillsKept, log' = log, book' = book, Unlogged' = Unlogged
  PROVE  FillsKept'
BY DEF FillsKept

(* send_order() logs no shares. *)
LEMMA RecordOrderFills == IndInv /\ FillsKept /\ RecordOrder => FillsKept'
<1> SUFFICES ASSUME IndInv, FillsKept, RecordOrder PROVE FillsKept'
  OBVIOUS
<1>1. book' = book /\ Unlogged' = Unlogged /\ spc = "passed"
  BY DEF RecordOrder, Unlogged, io, exchange
<1>2. CASE Len(log) < MaxEvents
  <2> DEFINE oid == OrdId(order_counter)
  <2>1. req' = [req EXCEPT !.order_id = oid] /\ log' = Append(log, Stored(req'))
    BY <1>2 DEF RecordOrder
  <2>2. Request(req, None) /\ oid \in OrderIds
    BY <1>1 DEF IndInv, RequestOK
  <2> HIDE DEF oid
  <2>3. Request(req', oid)
    BY <2>1, <2>2, RequestEvent
  <2> DEFINE e == req'
  <2>4. /\ e \in FillEvents /\ e.fill_qty = 0 /\ log \in Seq(FillEvents)
        /\ log' = Append(log, Stored(e))
    BY <2>1, <2>2, <2>3, RequestEvent DEF IndInv
  <2> HIDE DEF e
  <2>5. Stored(e) \in FillEvents /\ Stored(e).fill_qty = 0
    BY <1>2, <2>4, LogGrows
  <2> SUFFICES ASSUME NEW id \in OrderIds
               PROVE  FillsIn(log', id) + QueuedFills(Unlogged, id) >= book[id].filled
    BY <1>1 DEF FillsKept
  <2> DEFINE se == Stored(e)
  <2>6. FillsIn(Append(log, se), id) = FillsIn(log, id) + IF se.order_id = id THEN se.fill_qty ELSE 0
    <3> HIDE DEF se
    <3>1. se \in FillEvents
      BY <2>5 DEF se
    <3> QED BY <2>4, <3>1, FillsInAppend
  <2>7. FillsIn(log, id) \in Nat
    BY FillNumbers
  <2>8. FillsIn(log', id) = FillsIn(log, id)
    BY <2>4, <2>5, <2>6, <2>7
  <2> QED BY <2>8 DEF FillsKept
<1>3. CASE ~(Len(log) < MaxEvents)
  <2>1. log' = log
    BY <1>3 DEF RecordOrder
  <2> QED BY <1>1, <2>1, FillsUntouched
<1> QED BY <1>2, <1>3

(* append() in onMessage() moves the shares of the report to the log. *)
LEMMA LogReportFills == IndInv /\ FillsKept /\ LogReport => FillsKept'
<1> SUFFICES ASSUME IndInv, FillsKept, LogReport PROVE FillsKept'
  OBVIOUS
<1> DEFINE r == Head(inbound)
           e == Stored(ievt)
<1>1. /\ ipc = "translated" /\ ipc' = "logged" /\ Len(log) < MaxEvents /\ log' = Append(log, e)
      /\ book' = book /\ inbound' = inbound /\ inbound # << >> /\ ievt \in FromExecutionReport(r)
  BY DEF LogReport, exchange, IndInv, ReportAtHand
<1>2. /\ log \in Seq(FillEvents) /\ inbound \in Seq(ExecutionReports)
      /\ r \in ExecutionReports /\ ReportOK(r)
  <2>1. inbound \in Seq(ExecutionReports) /\ \A k \in 1..Len(inbound) : ReportOK(inbound[k])
    BY DEF IndInv, TypeOK
  <2> QED BY <1>1, <2>1 DEF IndInv
<1>3. ievt \in FillEvents /\ ievt.order_id = r.cl_ord_id /\ ievt.fill_qty = r.last_shares
  <2> HIDE DEF r
  <2> QED BY <1>1, <1>2, ReportEvent
<1>4. e \in FillEvents /\ e.order_id = r.cl_ord_id /\ e.fill_qty = r.last_shares
  BY <1>1, <1>2, <1>3, LogGrows
<1>5. Unlogged = inbound /\ Unlogged' = Tail(inbound)
  BY <1>1 DEF Unlogged
<1> HIDE DEF r, e
<1> SUFFICES ASSUME NEW id \in OrderIds
             PROVE  FillsIn(log', id) + QueuedFills(Tail(inbound), id) >= book[id].filled
  BY <1>1, <1>5 DEF FillsKept
<1> DEFINE x == IF r.cl_ord_id = id THEN r.last_shares ELSE 0
<1>6. FillsIn(log', id) = FillsIn(log, id) + x
  BY <1>1, <1>2, <1>4, FillsInAppend
<1>7. QueuedFills(inbound, id) = QueuedFills(Tail(inbound), id) + x /\ Tail(inbound) \in Seq(ExecutionReports)
  BY <1>1, <1>2, QueuedFillsTail DEF r
<1>8. x \in Nat
  BY <1>2 DEF ExecutionReports
<1> HIDE DEF x
<1>9. FillsIn(log, id) \in Nat /\ book[id].filled \in Nat
  BY FillNumbers
<1>10. QueuedFills(Tail(inbound), id) \in Nat
  <2> DEFINE t == Tail(inbound)
  <2>1. t \in Seq(ExecutionReports)
    BY <1>7
  <2> HIDE DEF t
  <2>2. QueuedFills(t, id) \in Nat
    BY <2>1, QueuedFillsIsSum
  <2> QED BY <2>2 DEF t
<1>11. FillsIn(log, id) + QueuedFills(inbound, id) >= book[id].filled
  BY <1>5 DEF FillsKept
<1> QED BY <1>6, <1>7, <1>8, <1>9, <1>10, <1>11

(* A report that is no event has no shares to lose. *)
LEMMA DropReportFills == IndInv /\ FillsKept /\ DropReport => FillsKept'
<1> SUFFICES ASSUME IndInv, FillsKept, DropReport PROVE FillsKept'
  OBVIOUS
<1> DEFINE r == Head(inbound)
<1>1. /\ ipc = "idle" /\ ipc' = ipc /\ log' = log /\ book' = book /\ inbound # << >>
      /\ inbound' = Tail(inbound) /\ FromExecutionReport(r) = {}
  BY DEF DropReport, Deliverable, io
<1>2. inbound \in Seq(ExecutionReports) /\ r \in ExecutionReports /\ ReportOK(r)
  <2>1. inbound \in Seq(ExecutionReports) /\ \A k \in 1..Len(inbound) : ReportOK(inbound[k])
    BY DEF IndInv, TypeOK
  <2> QED BY <1>1, <2>1
<1>3. r.last_shares = 0
  <2> HIDE DEF r
  <2>1. r.exec_type \notin {"PartialFill", "Fill"}
    BY <1>1, TranslatedEvents
  <2>2. r.last_shares \in Nat
    BY <1>2 DEF ExecutionReports
  <2> QED BY <1>2, <2>1, <2>2 DEF ReportOK
<1>4. Unlogged = inbound /\ Unlogged' = Tail(inbound)
  BY <1>1 DEF Unlogged
<1> SUFFICES ASSUME NEW id \in OrderIds
             PROVE  FillsIn(log, id) + QueuedFills(Tail(inbound), id) >= book[id].filled
  BY <1>1, <1>4 DEF FillsKept
<1>5. /\ QueuedFills(inbound, id) = QueuedFills(Tail(inbound), id) + IF r.cl_ord_id = id THEN r.last_shares ELSE 0
      /\ Tail(inbound) \in Seq(ExecutionReports)
  BY <1>1, <1>2, QueuedFillsTail
<1>6. QueuedFills(Tail(inbound), id) \in Nat
  <2> DEFINE t == Tail(inbound)
  <2>1. t \in Seq(ExecutionReports)
    BY <1>5
  <2> HIDE DEF t
  <2>2. QueuedFills(t, id) \in Nat
    BY <2>1, QueuedFillsIsSum
  <2> QED BY <2>2 DEF t
<1>7. QueuedFills(inbound, id) = QueuedFills(Tail(inbound), id)
  BY <1>3, <1>5, <1>6
<1>8. FillsIn(log, id) + QueuedFills(inbound, id) >= book[id].filled
  BY <1>4 DEF FillsKept
<1> QED BY <1>7, <1>8

(* A death gives a report that is half done back to the session. *)
LEMMA DownFills == IndInv /\ FillsKept /\ Down => FillsKept'
<1> SUFFICES ASSUME IndInv, FillsKept, Down PROVE FillsKept'
  OBVIOUS
<1>1. log' = log /\ book' = book /\ Unlogged' = inbound
  BY DEF Down, Unlogged, exchange
<1> SUFFICES ASSUME NEW id \in OrderIds
             PROVE  FillsIn(log, id) + QueuedFills(inbound, id) >= book[id].filled
  BY <1>1 DEF FillsKept
<1>2. FillsIn(log, id) + QueuedFills(Unlogged, id) >= book[id].filled
  BY DEF FillsKept
<1> QED BY <1>2, FillNumbers

(* A report of the exchange carries the shares the exchange has booked. *)
LEMMA ReportFills ==
  ASSUME IndInv, FillsKept, NEW r \in ExecutionReports, inbound' = Append(inbound, r),
         UNCHANGED <<log, io>>,
         \A id \in OrderIds :
           book'[id].filled = 0 \/
           book'[id].filled = book[id].filled + IF r.cl_ord_id = id THEN r.last_shares ELSE 0
  PROVE  FillsKept'
<1>1. Unlogged' = Append(Unlogged, r)
  <2>1. inbound \in Seq(ExecutionReports)
    BY DEF IndInv, TypeOK
  <2>2. CASE ipc \in {"logged", "tracked"}
    <3>1. inbound # << >>
      BY <2>2 DEF IndInv, ReportAtHand
    <3>2. Tail(Append(inbound, r)) = Append(Tail(inbound), r)
      BY <2>1, <3>1
    <3> QED BY <2>2, <3>2 DEF Unlogged, io
  <2>3. CASE ipc \notin {"logged", "tracked"}
    BY <2>3 DEF Unlogged, io
  <2> QED BY <2>2, <2>3
<1> SUFFICES ASSUME NEW id \in OrderIds
             PROVE  FillsIn(log, id) + QueuedFills(Append(Unlogged, r), id) >= book'[id].filled
  BY <1>1 DEF FillsKept, io
<1> DEFINE x == IF r.cl_ord_id = id THEN r.last_shares ELSE 0
           u == Unlogged
<1>2. u \in Seq(ExecutionReports) /\ QueuedFills(u, id) \in Nat /\ FillsIn(log, id) \in Nat /\ book[id].filled \in Nat
  BY FillNumbers
<1>3. FillsIn(log, id) + QueuedFills(u, id) >= book[id].filled
  BY DEF FillsKept
<1>4. x \in Nat
  BY DEF ExecutionReports
<1>5. book'[id].filled = 0 \/ book'[id].filled = book[id].filled + x
  OBVIOUS
<1> HIDE DEF u
<1>6. QueuedFills(Append(u, r), id) = QueuedFills(u, id) + x
  BY <1>2, QueuedFillsAppend
<1> HIDE DEF x
<1> QED BY <1>2, <1>3, <1>4, <1>5, <1>6 DEF u

(* The steps of the exchange. *)
LEMMA ExchangeFills == IndInv /\ FillsKept /\ Exchange => FillsKept'
<1> SUFFICES ASSUME IndInv, FillsKept, Exchange PROVE FillsKept'
  OBVIOUS
<1> DEFINE o == Head(outbound)
<1>1. book \in [OrderIds -> BookEntry] /\ \A id \in OrderIds : book[id].filled \in Nat
  BY DEF IndInv, TypeOK, BookEntry
<1>2. CASE AcceptOrder
  <2> DEFINE r == Report("New", o.cl_ord_id, o.symbol, o.side, 0, 0)
  <2>1. /\ outbound # << >> /\ inbound' = Append(inbound, r) /\ UNCHANGED <<log, io>>
        /\ book' = [book EXCEPT ![o.cl_ord_id] =
                      [ state |-> "Live", symbol |-> o.symbol, side |-> o.side,
                        qty |-> o.order_qty, filled |-> 0 ]]
    BY <1>2 DEF AcceptOrder
  <2>2. o.cl_ord_id \in OrderIds /\ o.symbol \in Symbols /\ o.side \in Sides
    BY <2>1, OrdersTail
  <2>3. "New" \in ExecTypes /\ 0 \in Nat /\ (0 > 0 <=> "New" \in {"PartialFill", "Fill"})
    BY DEF ExecTypes
  <2> HIDE DEF o
  <2>4. r \in ExecutionReports /\ r.last_shares = 0
    BY <2>2, <2>3 DEF Report, ExecutionReports
  <2>5. \A id \in OrderIds : book'[id].filled = 0 \/ book'[id].filled = book[id].filled
    BY <1>1, <2>1, <2>2
  <2>6. \A id \in OrderIds :
           book'[id].filled = 0 \/
           book'[id].filled = book[id].filled + IF r.cl_ord_id = id THEN r.last_shares ELSE 0
    BY <1>1, <2>4, <2>5
  <2> HIDE DEF r
  <2> QED BY <2>1, <2>4, <2>6, ReportFills
<1>3. CASE RefuseOrder
  <2> DEFINE r == Report("Rejected", o.cl_ord_id, o.symbol, o.side, 0, 0)
  <2>1. outbound # << >> /\ inbound' = Append(inbound, r) /\ UNCHANGED <<log, io>> /\ book' = book
    BY <1>3 DEF RefuseOrder
  <2>2. o.cl_ord_id \in OrderIds /\ o.symbol \in Symbols /\ o.side \in Sides
    BY <2>1, OrdersTail
  <2>3. "Rejected" \in ExecTypes /\ 0 \in Nat /\ (0 > 0 <=> "Rejected" \in {"PartialFill", "Fill"})
    BY DEF ExecTypes
  <2> HIDE DEF o
  <2>4. r \in ExecutionReports /\ r.last_shares = 0
    BY <2>2, <2>3 DEF Report, ExecutionReports
  <2>5. \A id \in OrderIds :
           book'[id].filled = 0 \/
           book'[id].filled = book[id].filled + IF r.cl_ord_id = id THEN r.last_shares ELSE 0
    BY <1>1, <2>1, <2>4
  <2> HIDE DEF r
  <2> QED BY <2>1, <2>4, <2>5, ReportFills
<1>4. ASSUME NEW oid \in OrderIds, CancelOrder(oid) \/ ExpireOrder(oid) PROVE FillsKept'
  <2>0. PICK st, xt : Ends(oid, st, xt)
    BY <1>4, OrderEnds
  <2> DEFINE r == Report(xt, oid, book[oid].symbol, book[oid].side, 0, 0)
  <2>1. /\ inbound' = Append(inbound, r) /\ UNCHANGED <<log, io>>
        /\ book' = [book EXCEPT ![oid].state = st]
    BY <2>0 DEF Ends
  <2>2. book[oid].symbol \in Symbols /\ book[oid].side \in Sides /\ book[oid] \in BookEntry
    BY <1>1 DEF BookEntry
  <2>3. xt \in ExecTypes /\ 0 \in Nat /\ (0 > 0 <=> xt \in {"PartialFill", "Fill"})
    BY <2>0 DEF ExecTypes, Ends
  <2>4. r \in ExecutionReports /\ r.last_shares = 0
    <3> DEFINE x == book[oid]
    <3>1. /\ x.symbol \in Symbols /\ x.side \in Sides
          /\ inbound' = Append(inbound, Report(xt, oid, x.symbol, x.side, 0, 0))
      BY <2>1, <2>2
    <3>2. r = Report(xt, oid, x.symbol, x.side, 0, 0)
      OBVIOUS
    <3> HIDE DEF x, r
    <3>3. /\ Report(xt, oid, x.symbol, x.side, 0, 0) \in ExecutionReports
          /\ Report(xt, oid, x.symbol, x.side, 0, 0).last_shares = 0
      BY <2>3, <3>1, ReportSent
    <3> QED BY <3>2, <3>3
  <2>5. \A id \in OrderIds : book'[id].filled = book[id].filled
    BY <1>1, <2>1, <2>2 DEF BookEntry
  <2>6. \A id \in OrderIds :
           book'[id].filled = 0 \/
           book'[id].filled = book[id].filled + IF r.cl_ord_id = id THEN r.last_shares ELSE 0
    BY <1>1, <2>4, <2>5
  <2> HIDE DEF r
  <2> QED BY <2>1, <2>4, <2>6, ReportFills
<1>5. ASSUME NEW oid \in OrderIds, NEW qty \in Quantities \ {0}, NEW px \in Prices,
             Trade(oid, qty, px)
      PROVE  FillsKept'
  <2> DEFINE done == book[oid].filled + qty = book[oid].qty
             type == IF done THEN "Fill" ELSE "PartialFill"
             st == IF done THEN "Filled" ELSE "Live"
             n == book[oid].filled + qty
             r == Report(type, oid, book[oid].symbol, book[oid].side, qty, px)
  <2>1. /\ inbound' = Append(inbound, r) /\ UNCHANGED <<log, io>>
        /\ book' = [book EXCEPT ![oid].state = st, ![oid].filled = n]
    BY <1>5 DEF Trade, Tell
  <2>2. book[oid].symbol \in Symbols /\ book[oid].side \in Sides /\ book[oid] \in BookEntry
    BY <1>1 DEF BookEntry
  <2>3. /\ qty \in Nat /\ qty > 0 /\ px \in Nat
        /\ type \in ExecTypes /\ type \in {"PartialFill", "Fill"}
    BY QuantitiesAssumption, GatewayAssumption DEF ExecTypes
  <2> HIDE DEF type, st, n
  <2>4. r \in ExecutionReports /\ r.last_shares = qty /\ r.cl_ord_id = oid
    BY <2>1, <2>2, <2>3, ReportSent
  <2>5. \A id \in OrderIds : book'[id].filled = IF id = oid THEN n ELSE book[id].filled
    BY <1>1, <2>1, <2>2 DEF BookEntry
  <2>6. \A id \in OrderIds :
           book'[id].filled = 0 \/
           book'[id].filled = book[id].filled + IF r.cl_ord_id = id THEN r.last_shares ELSE 0
    BY <1>1, <2>4, <2>5 DEF n
  <2> HIDE DEF r
  <2> QED BY <2>1, <2>4, <2>6, ReportFills
<1> QED BY <1>2, <1>3, <1>4, <1>5 DEF Exchange

(* All steps, in a session that no logon resets (uat.cfg). *)
LEMMA NextFillsKept ==
  ASSUME ~ResetOnLogon
  PROVE  IndInv /\ FillsKept /\ [Next]_vars => FillsKept'
<1> SUFFICES ASSUME IndInv, FillsKept, [Next]_vars PROVE FillsKept'
  OBVIOUS
<1>1. CASE Strategy
  <2>1. ASSUME NEW sym \in Symbols, NEW side \in StrategySides, NEW qty \in Quantities \ {0},
               NEW px \in Prices, SendOrder(sym, side, qty, px)
        PROVE  FillsKept'
    BY <2>1, FillsUntouched DEF SendOrder, Unlogged, io, exchange
  <2>2. CASE CheckRisk
    BY <2>2, FillsUntouched DEF CheckRisk, Unlogged, io, exchange
  <2>3. CASE ProjectOrder
    BY <2>3, FillsUntouched DEF ProjectOrder, Unlogged, io, exchange
  <2>4. CASE TransmitOrder
    BY <2>4, FillsUntouched DEF TransmitOrder, Unlogged, io
  <2> QED BY <1>1, <2>1, <2>2, <2>3, <2>4, RecordOrderFills DEF Strategy
<1>2. CASE IOThread
  <2>1. CASE Logon \/ Logout
    BY <2>1, FillsUntouched DEF Logon, Logout, Unlogged, io, exchange
  <2>2. CASE TakeReport
    BY <2>2, FillsUntouched DEF TakeReport, Deliverable, Unlogged, exchange
  <2>3. CASE TrackReport
    BY <2>3, FillsUntouched DEF TrackReport, Unlogged, exchange
  <2>4. CASE ProjectReport
    BY <2>4, FillsUntouched DEF ProjectReport, Unlogged
  <2> QED BY <1>2, <2>1, <2>2, <2>3, <2>4, LogReportFills, DropReportFills DEF IOThread
<1>3. CASE Process
  <2>1. CASE Restart
    BY <2>1, FillsUntouched DEF Restart, Unlogged, io, exchange
  <2> QED BY <1>3, <2>1, DownFills DEF Process, Crash, TerminateLogFull
<1>4. CASE UNCHANGED vars
  BY <1>4, FillsUntouched DEF vars, Unlogged, io, exchange
<1> QED BY <1>1, <1>2, <1>3, <1>4, ExchangeFills DEF Next

(* In a session that no logon resets, a share the exchange traded is in    *)
(* the log or in a report that will be delivered, at whatever point of     *)
(* onMessage() the process dies and however often.                         *)
THEOREM GatewayNoFillLost ==
  ASSUME ~ResetOnLogon
  PROVE  Spec => []NoFillLost
<1>1. Init => FillsKept
  <2> SUFFICES ASSUME Init, NEW oid \in OrderIds
               PROVE  FillsIn(log, oid) + QueuedFills(Unlogged, oid) >= book[oid].filled
    BY DEF FillsKept
  <2>1. book[oid].filled = 0
    BY DEF Init
  <2>2. FillsIn(log, oid) \in Nat /\ QueuedFills(Unlogged, oid) \in Nat
    BY InitIndInv, FillNumbers
  <2> QED BY <2>1, <2>2
<1>2. IndInv /\ FillsKept => NoFillLost
  <2> SUFFICES ASSUME IndInv, FillsKept, NEW oid \in OrderIds
               PROVE  FillsIn(log, oid) + QueuedFills(inbound, oid) >= book[oid].filled
    BY DEF NoFillLost, LoggedFills, FillsIn
  <2>1. FillsIn(log, oid) + QueuedFills(Unlogged, oid) >= book[oid].filled
    BY DEF FillsKept
  <2> QED BY <2>1, FillNumbers
<1> QED BY <1>1, <1>2, GatewayInductive, NextFillsKept, PTL DEF Spec
-----------------------------------------------------------------------------
(***************************************************************************)
(* One life of the process.  Ids are distinct as long as the counter does  *)
(* not start over and its digits fit the field, 100000 orders.             *)
(***************************************************************************)
OneLife == up /\ order_counter <= 100000

(* The ids of the first n calls, and the ones that are not of send_order(). *)
Issued(oid, n) == oid[1] # "ORD" \/ \E k \in Nat : k < n /\ oid = OrdId(k)

(* How many ids have left send_order() or were given up there. *)
Used == IF spc \in {"logged", "booked"} THEN order_counter - 1 ELSE order_counter

(* The exchange has seen no id but those. *)
IdsIssued ==
  /\ spc \in {"logged", "booked"} => order_counter > 0 /\ req.order_id = OrdId(order_counter - 1)
  /\ \A k \in 1..Len(outbound) : Issued(outbound[k].cl_ord_id, Used)
  /\ \A k \in 1..Len(inbound) : Issued(inbound[k].cl_ord_id, Used)
  /\ \A oid \in OrderIds : book[oid].state # "None" => Issued(oid, Used)

(* An id that was issued is not the next one. *)
LEMMA IssuedIsOther ==
  ASSUME NEW n \in Nat, n < 100000, NEW oid, Issued(oid, n)
  PROVE  oid # OrdId(n)
<1>1. OrdId(n) = <<"ORD", n>> /\ OrdId(n)[1] = "ORD"
  BY DEF OrdId
<1>2. ASSUME NEW k \in Nat, k < n, oid = OrdId(k) PROVE oid # OrdId(n)
  <2>1. OrdId(k) = <<"ORD", k>> /\ k # n
    BY <1>2 DEF OrdId
  <2> QED BY <1>1, <1>2, <2>1
<1> QED BY <1>1, <1>2 DEF Issued

(* An id stays issued. *)
LEMMA IssuedStays ==
  ASSUME NEW n \in Int, NEW m \in Int, n <= m, NEW oid, Issued(oid, n)
  PROVE  Issued(oid, m)
<1>1. ASSUME NEW k \in Nat, k < n PROVE k < m
  BY <1>1
<1> QED BY <1>1 DEF Issued

(* No step takes an id back, and an order or a report on its way has one   *)
(* that was issued before, but for the order that is transmitted.          *)
LEMMA IdsKept ==
  ASSUME IdsIssued, Used \in Int, Used' \in Int, Used <= Used',
         spc' \in {"logged", "booked"} =>
           order_counter' > 0 /\ req'.order_id = OrdId(order_counter' - 1),
         \A k \in 1..Len(outbound') : \/ \E j \in 1..Len(outbound) : outbound'[k] = outbound[j]
                                      \/ Issued(outbound'[k].cl_ord_id, Used'),
         \A k \in 1..Len(inbound') : \/ \E j \in 1..Len(inbound) : inbound'[k] = inbound[j]
                                     \/ Issued(inbound'[k].cl_ord_id, Used),
         \A oid \in OrderIds : book'[oid].state # "None" =>
                                 book[oid].state # "None" \/ Issued(oid, Used)
  PROVE  IdsIssued'
<1>1. \A oid : Issued(oid, Used) => Issued(oid, Used')
  BY IssuedStays
<1>2. ASSUME NEW k \in 1..Len(outbound') PROVE Issued(outbound'[k].cl_ord_id, Used')
  BY <1>1 DEF IdsIssued
<1>3. ASSUME NEW k \in 1..Len(inbound') PROVE Issued(inbound'[k].cl_ord_id, Used')
  BY <1>1 DEF IdsIssued
<1>4. ASSUME NEW oid \in OrderIds, book'[oid].state # "None" PROVE Issued(oid, Used')
  BY <1>1, <1>4 DEF IdsIssued
<1> QED BY <1>2, <1>3, <1>4 DEF IdsIssued

(* As long as the process lives, every id in use is one it has issued. *)
LEMMA NextIdsIssued ==
  ASSUME IndInv, IdsIssued, up, up', [Next]_vars
  PROVE  IdsIssued'
<1>1. /\ order_counter \in Nat /\ Used \in Int
      /\ inbound \in Seq(ExecutionReports) /\ outbound \in Seq(Messages)
  BY DEF IndInv, TypeOK, Used
<1> DEFINE OutKept == \A k \in 1..Len(outbound') : \E j \in 1..Len(outbound) : outbound'[k] = outbound[j]
           InKept == \A k \in 1..Len(inbound') : \E j \in 1..Len(inbound) : inbound'[k] = inbound[j]
           ReqKept == spc' \in {"logged", "booked"} =>
                        order_counter' > 0 /\ req'.order_id = OrdId(order_counter' - 1)
           CountKept == Used' \in Int /\ Used <= Used'
<1>2. ASSUME OutKept \/ \A k \in 1..Len(outbound') : Issued(outbound'[k].cl_ord_id, Used'),
             InKept, ReqKept, CountKept, book' = book
      PROVE  IdsIssued'
  BY <1>1, <1>2, IdsKept
<1>3. outbound' = outbound => OutKept
  OBVIOUS
<1>4. inbound' = inbound \/ inbound' = << >> \/ (inbound # << >> /\ inbound' = Tail(inbound)) => InKept
  <2>1. inbound # << >> => \A k \in 1..Len(Tail(inbound)) : k + 1 \in 1..Len(inbound) /\ Tail(inbound)[k] = inbound[k + 1]
    BY <1>1
  <2> QED BY <2>1
<1>5. outbound # << >> /\ outbound' = Tail(outbound) => OutKept
  <2>1. outbound # << >> => \A k \in 1..Len(Tail(outbound)) : k + 1 \in 1..Len(outbound) /\ Tail(outbound)[k] = outbound[k + 1]
    BY <1>1
  <2> QED BY <2>1
<1>6. UNCHANGED strategy /\ order_counter' = order_counter => ReqKept /\ CountKept
  BY <1>1 DEF IdsIssued, Used, strategy, OrdId
<1>7. CASE Strategy
  <2>1. ASSUME NEW sym \in Symbols, NEW side \in StrategySides, NEW qty \in Quantities \ {0},
               NEW px \in Prices, SendOrder(sym, side, qty, px)
        PROVE  IdsIssued'
    <3>1. ReqKept /\ CountKept
      BY <1>1, <2>1 DEF SendOrder, Used
    <3> QED BY <1>2, <1>3, <1>4, <2>1, <3>1 DEF SendOrder, exchange
  <2>2. CASE CheckRisk
    <3>1. ReqKept /\ CountKept
      BY <1>1, <2>2 DEF CheckRisk, Used
    <3> QED BY <1>2, <1>3, <1>4, <2>2, <3>1 DEF CheckRisk, exchange
  <2>3. CASE RecordOrder
    <3>1. /\ spc = "passed" /\ order_counter' = order_counter + 1
          /\ \/ spc' = "logged" /\ req' = [req EXCEPT !.order_id = OrdId(order_counter)]
             \/ spc' = "idle"
      BY <2>3 DEF RecordOrder
    <3>2. ReqKept
      <4>1. CASE spc' = "logged" /\ req' = [req EXCEPT !.order_id = OrdId(order_counter)]
        <5>1. Request(req, None)
          BY <3>1 DEF IndInv, RequestOK
        <5>2. req'.order_id = OrdId(order_counter)
          <6> DEFINE n == OrdId(order_counter)
          <6>1. req' = [req EXCEPT !.order_id = n]
            BY <4>1
          <6> HIDE DEF n
          <6>2. req'.order_id = n
            BY <5>1, <6>1, RequestEvent
          <6> QED BY <6>2 DEF n
        <5>3. order_counter' - 1 = order_counter /\ order_counter' > 0
          BY <1>1, <3>1
        <5> QED BY <5>2, <5>3
      <4>2. CASE spc' = "idle"
        BY <4>2
      <4> QED BY <3>1, <4>1, <4>2
    <3>3. CountKept
      BY <1>1, <3>1 DEF Used
    <3> QED BY <1>2, <1>3, <1>4, <2>3, <3>2, <3>3 DEF RecordOrder, exchange
  <2>4. CASE ProjectOrder
    <3>1. ReqKept /\ CountKept
      BY <1>1, <2>4 DEF ProjectOrder, Used, IdsIssued
    <3> QED BY <1>2, <1>3, <1>4, <2>4, <3>1 DEF ProjectOrder, exchange
  <2>5. CASE TransmitOrder
    <3> DEFINE m == ToNewOrderSingle(req)
    <3>1. /\ spc = "booked" /\ spc' = "idle" /\ order_counter' = order_counter
          /\ outbound' = Append(outbound, m) /\ inbound' = inbound /\ book' = book
      BY <2>5 DEF TransmitOrder
    <3>2. ReqKept /\ CountKept /\ Used = order_counter - 1 /\ Used' = order_counter
      BY <1>1, <3>1 DEF Used
    <3>3. m.cl_ord_id = OrdId(order_counter - 1) /\ order_counter > 0
      BY <3>1 DEF IdsIssued, ToNewOrderSingle
    <3>4. Issued(m.cl_ord_id, Used')
      <4>1. order_counter - 1 \in Nat /\ order_counter - 1 < Used'
        BY <1>1, <3>2, <3>3
      <4> QED BY <3>3, <4>1 DEF Issued
    <3>5. ASSUME NEW k \in 1..Len(outbound')
          PROVE  Issued(outbound'[k].cl_ord_id, Used')
      <4>1. (k \in 1..Len(outbound) /\ outbound'[k] = outbound[k]) \/ outbound'[k] = m
        BY <1>1, <3>1
      <4>2. \A j \in 1..Len(outbound) : Issued(outbound[j].cl_ord_id, Used')
        BY <1>1, <3>2, IssuedStays DEF IdsIssued
      <4> QED BY <3>4, <4>1, <4>2
    <3> QED BY <1>2, <1>4, <3>1, <3>2, <3>5
  <2> QED BY <1>7, <2>1, <2>2, <2>3, <2>4, <2>5 DEF Strategy
<1>8. CASE IOThread
  <2>1. UNCHANGED strategy /\ order_counter' = order_counter /\ book' = book
    BY <1>8 DEF IOThread, Logon, Logout, DropReport, TakeReport, LogReport, TrackReport,
                ProjectReport, exchange
  <2>2. OutKept
    BY <1>8 DEF IOThread, Logon, Logout, DropReport, TakeReport, LogReport, TrackReport,
                ProjectReport, exchange
  <2>3. inbound' = inbound \/ inbound' = << >> \/ (inbound # << >> /\ inbound' = Tail(inbound))
    BY <1>8 DEF IOThread, Logon, Logout, DropReport, TakeReport, LogReport, TrackReport,
                ProjectReport, exchange, Deliverable, IndInv, ReportAtHand
  <2> QED BY <1>2, <1>4, <1>6, <2>1, <2>2, <2>3
<1>9. CASE Process
  BY <1>9 DEF Process, Crash, TerminateLogFull, Restart, Down
<1>10. ASSUME NEW r, inbound' = Append(inbound, r), Issued(r.cl_ord_id, Used),
              OutKept, UNCHANGED <<strategy, order_counter>>,
              \A oid \in OrderIds : book'[oid].state # "None" =>
                                      book[oid].state # "None" \/ Issued(oid, Used)
       PROVE  IdsIssued'
  <2>1. ReqKept /\ CountKept
    BY <1>6, <1>10
  <2>2. \A k \in 1..Len(inbound') : \/ \E j \in 1..Len(inbound) : inbound'[k] = inbound[j]
                                    \/ Issued(inbound'[k].cl_ord_id, Used)
    <3> SUFFICES ASSUME NEW k \in 1..Len(inbound')
                 PROVE  \/ \E j \in 1..Len(inbound) : inbound'[k] = inbound[j]
                        \/ Issued(inbound'[k].cl_ord_id, Used)
      OBVIOUS
    <3>1. (k \in 1..Len(inbound) /\ inbound'[k] = inbound[k]) \/ inbound'[k] = r
      BY <1>1, <1>10
    <3> QED BY <1>10, <3>1
  <2> QED BY <1>1, <1>10, <2>1, <2>2, IdsKept
<1>11. book \in [OrderIds -> BookEntry]
  BY DEF IndInv, TypeOK, BookEntry
<1>12. CASE AcceptOrder \/ RefuseOrder
  <2> DEFINE o == Head(outbound)
  <2>1. outbound # << >> /\ outbound' = Tail(outbound) /\ UNCHANGED <<strategy, order_counter>>
    BY <1>12 DEF AcceptOrder, RefuseOrder
  <2>2. o = outbound[1] /\ 1 \in 1..Len(outbound) /\ Issued(o.cl_ord_id, Used)
    <3>1. o = outbound[1] /\ 1 \in 1..Len(outbound)
      BY <2>1, OrdersTail
    <3> QED BY <3>1 DEF IdsIssued
  <2>3. PICK r : inbound' = Append(inbound, r) /\ r.cl_ord_id = o.cl_ord_id
    BY <1>12 DEF AcceptOrder, RefuseOrder, Report
  <2>4. \A oid \in OrderIds : book'[oid].state # "None" =>
                                book[oid].state # "None" \/ oid = o.cl_ord_id
    <3> HIDE DEF o
    <3>1. book' = book \/ \E b : book' = [book EXCEPT ![o.cl_ord_id] = b]
      BY <1>12 DEF AcceptOrder, RefuseOrder, o
    <3> QED BY <1>11, <3>1
  <2> HIDE DEF o
  <2>5. \A oid \in OrderIds : book'[oid].state # "None" =>
                                book[oid].state # "None" \/ Issued(oid, Used)
    BY <2>2, <2>4
  <2>6. Issued(r.cl_ord_id, Used)
    BY <2>2, <2>3
  <2> QED BY <1>5, <1>10, <2>1, <2>3, <2>5, <2>6
<1>13. ASSUME NEW oid \in OrderIds,
              \/ CancelOrder(oid) \/ ExpireOrder(oid)
              \/ \E qty \in Quantities \ {0}, px \in Prices : Trade(oid, qty, px)
       PROVE  IdsIssued'
  <2>1. /\ book[oid].state = "Live" /\ outbound' = outbound /\ UNCHANGED <<strategy, order_counter>>
        /\ \E r : inbound' = Append(inbound, r) /\ r.cl_ord_id = oid
    <3>1. \A type, sym, side, qty, px : Report(type, oid, sym, side, qty, px).cl_ord_id = oid
      BY DEF Report
    <3>2. CASE CancelOrder(oid) \/ ExpireOrder(oid)
      BY <3>1, <3>2 DEF CancelOrder, ExpireOrder, Tell
    <3>3. ASSUME NEW qty, NEW px, Trade(oid, qty, px)
          PROVE  /\ book[oid].state = "Live" /\ outbound' = outbound
                 /\ UNCHANGED <<strategy, order_counter>>
                 /\ \E r : inbound' = Append(inbound, r) /\ r.cl_ord_id = oid
      BY <3>1, <3>3 DEF Trade, Tell
    <3> QED BY <1>13, <3>2, <3>3
  <2>2. \A id \in OrderIds : book'[id].state # "None" => book[id].state # "None" \/ id = oid
    <3>1. CASE CancelOrder(oid) \/ ExpireOrder(oid)
      BY <1>11, <3>1 DEF CancelOrder, ExpireOrder
    <3>2. ASSUME NEW qty, NEW px, Trade(oid, qty, px)
          PROVE  \A id \in OrderIds : book'[id].state # "None" => book[id].state # "None" \/ id = oid
      BY <1>11, <3>2 DEF Trade
    <3> QED BY <1>13, <3>1, <3>2
  <2>3. Issued(oid, Used)
    BY <2>1 DEF IdsIssued
  <2> QED BY <1>3, <1>10, <2>1, <2>2, <2>3
<1>14. CASE UNCHANGED vars
  BY <1>2, <1>3, <1>4, <1>6, <1>14 DEF vars, exchange
<1> QED BY <1>7, <1>8, <1>9, <1>12, <1>13, <1>14 DEF Next, Exchange
-----------------------------------------------------------------------------
(***************************************************************************)
(* The projections and the log.  What is logged and not yet booked is the  *)
(* order of send_order() and the event of onMessage(); a replay gives what *)
(* booking these would, whichever is booked first.                         *)
(***************************************************************************)
WithRequest(os) == IF spc = "logged" THEN BookOrder(os, req) ELSE os

WithReport(os) == IF ipc \in {"logged", "tracked"} THEN BookOrder(os, ievt) ELSE os

Tracked == IF ipc = "logged" THEN BookPosition(positions, ievt) ELSE positions

OrdersRebuilt == ShownOrders(ReplayOrders(log)) = ShownOrders(WithReport(WithRequest(orders)))

PositionsRebuilt == ShownPositions(ReplayPositions(log)) = ShownPositions(Tracked)

(* What is booked is an event of the right kind, of another order.         *)
LEMMA RequestAtHand ==
  ASSUME IndInv, spc \in {"logged", "booked"}
  PROVE  req \in FillEvents /\ req \in Events /\ req.type = "NewOrder"
<1>1. req.order_id \in OrderIds /\ Request(req, req.order_id)
  BY DEF IndInv, RequestOK
<1>2. req \in FillEvents /\ req.type = "NewOrder"
  BY <1>1, RequestEvent
<1> QED BY <1>2 DEF FillEvents

(* The event in onMessage() is no NewOrder, and its id is that of the first report. *)
LEMMA HandledReport ==
  ASSUME IndInv, ipc # "idle"
  PROVE  /\ ievt \in FillEvents /\ ievt \in Events /\ ievt.type # "NewOrder"
         /\ inbound # << >> /\ ievt.order_id = inbound[1].cl_ord_id /\ 1 \in 1..Len(inbound)
<1> DEFINE r == Head(inbound)
<1>1. inbound # << >> /\ ievt \in FromExecutionReport(r)
  BY DEF IndInv, ReportAtHand
<1>2. inbound \in Seq(ExecutionReports)
  BY DEF IndInv, TypeOK
<1>3. r \in ExecutionReports /\ r = inbound[1] /\ 1 \in 1..Len(inbound)
  BY <1>1, <1>2
<1> HIDE DEF r
<1>4. /\ ievt \in FillEvents /\ ievt.type = EventTypeOf[r.exec_type]
      /\ r.exec_type \in {"PartialFill", "Fill", "Canceled", "Rejected"}
      /\ ievt.order_id = r.cl_ord_id
  BY <1>1, <1>3, ReportEvent
<1>5. ievt.type # "NewOrder"
  BY <1>4, EventTypeValues
<1> QED BY <1>1, <1>3, <1>4, <1>5 DEF FillEvents

(* The event of onMessage() is not one of the order in send_order().       *)
LEMMA OtherOrder ==
  ASSUME IndInv, IdsIssued, OneLife, ipc # "idle", spc \in {"logged", "booked"}
  PROVE  ievt.order_id # req.order_id
<1> DEFINE n == order_counter - 1
<1>1. ievt.order_id = inbound[1].cl_ord_id /\ 1 \in 1..Len(inbound)
  BY HandledReport
<1>2. Used = n /\ req.order_id = OrdId(n) /\ order_counter > 0
  BY DEF Used, IdsIssued
<1>3. n \in Nat /\ n < 100000
  BY <1>2 DEF IndInv, TypeOK, OneLife
<1>4. Issued(ievt.order_id, n)
  BY <1>1, <1>2 DEF IdsIssued
<1> HIDE DEF n
<1> QED BY <1>2, <1>3, <1>4, IssuedIsOther

(* One more event in the log is the event booked on the shown tables. *)
LEMMA ReplayGrows ==
  ASSUME IndInv, Len(log) < MaxEvents, NEW e \in FillEvents, e.sequence = 0,
         log' = Append(log, Stored(e))
  PROVE  /\ ShownOrders(ReplayOrders(log')) = BookOrder(ShownOrders(ReplayOrders(log)), e)
         /\ ShownPositions(ReplayPositions(log')) = BookPosition(ShownPositions(ReplayPositions(log)), e)
<1> DEFINE s == Stored(e)
<1>1. log \in Seq(FillEvents) /\ log \in Seq(Events)
  BY DEF IndInv, TypeOK
<1>2. s \in FillEvents
  BY <1>1, LogGrows
<1>3. [s EXCEPT !.sequence = 0] = e /\ s \in Events /\ log' = Append(log, s)
  BY <1>2 DEF FillEvents, Events, Stored
<1> HIDE DEF s
<1>4. /\ ReplayOrders(log') = BookOrder(ReplayOrders(log), s)
      /\ ReplayOrders(log) \in OrderTable
  BY <1>1, <1>3, ReplayOrdersAppend, ReplayOrdersType
<1>5. /\ ReplayPositions(log') = BookPosition(ReplayPositions(log), s)
      /\ ReplayPositions(log) \in PositionTable
  BY <1>1, <1>2, <1>3, ReplayPositionsAppend, ReplayPositionsType
<1>6. ShownOrders(BookOrder(ReplayOrders(log), s)) = BookOrder(ShownOrders(ReplayOrders(log)), e)
  BY <1>3, <1>4, ShownBookOrder
<1>7. ShownPositions(BookPosition(ReplayPositions(log), s)) =
        BookPosition(ShownPositions(ReplayPositions(log)), e)
  BY <1>2, <1>3, <1>5, ShownBookPosition
<1> QED BY <1>4, <1>5, <1>6, <1>7

(* The same for a table the event is booked on. *)
LEMMA ShownBooked ==
  ASSUME NEW e \in FillEvents, e.sequence = 0
  PROVE  /\ \A os \in OrderTable : ShownOrders(BookOrder(os, e)) = BookOrder(ShownOrders(os), e)
         /\ \A ps \in PositionTable :
              ShownPositions(BookPosition(ps, e)) = BookPosition(ShownPositions(ps), e)
<1>1. e \in Events /\ [e EXCEPT !.sequence = 0] = e
  BY DEF FillEvents, Events
<1> QED BY <1>1, ShownBookOrder, ShownBookPosition

(* send_order() logs: the replay has the order, the tables have it due. *)
LEMMA RecordOrderRebuilds ==
  ASSUME IndInv, IdsIssued, IndInv', IdsIssued', OneLife', OrdersRebuilt, PositionsRebuilt, RecordOrder
  PROVE  OrdersRebuilt' /\ PositionsRebuilt'
<1>1. /\ spc = "passed" /\ UNCHANGED <<orders, positions, ipc, ievt, inbound>>
  BY DEF RecordOrder, io, exchange
<1>2. CASE Len(log) < MaxEvents
  <2> DEFINE e == req'
             X == WithReport(orders)
  <2>1. spc' = "logged" /\ log' = Append(log, Stored(e))
    BY <1>2 DEF RecordOrder
  <2>2. e \in FillEvents /\ e \in Events /\ e.type = "NewOrder" /\ e.sequence = 0
    <3>1. Request(e, e.order_id) /\ e.order_id \in OrderIds
      BY <2>1 DEF IndInv, RequestOK, Request
    <3> HIDE DEF e
    <3>2. e \in FillEvents /\ e.type = "NewOrder"
      BY <3>1, RequestEvent
    <3>3. e.sequence = 0
      BY <3>1 DEF Request, MakeNewOrder
    <3> QED BY <3>2, <3>3 DEF FillEvents
  <2>3. orders \in OrderTable
    BY DEF IndInv, TypeOK, OrderTable
  <2>4. ipc # "idle" => /\ ievt \in Events /\ ievt.type # "NewOrder" /\ ievt.order_id # e.order_id
    <3>1. ipc # "idle" => ievt \in Events /\ ievt.type # "NewOrder"
      BY HandledReport
    <3>2. ASSUME ipc # "idle" PROVE ievt.order_id # e.order_id
      <4> DEFINE n == order_counter
      <4>1. n \in Nat /\ order_counter' = n + 1 /\ n < 100000
        BY DEF IndInv, TypeOK, RecordOrder, OneLife
      <4>2. e.order_id = OrdId(n)
        <5>1. order_counter' - 1 = n
          BY <4>1
        <5> QED BY <2>1, <5>1 DEF IdsIssued, OrdId
      <4>3. Issued(ievt.order_id, n)
        <5>1. Used = n
          BY <1>1 DEF Used
        <5>2. ievt.order_id = inbound[1].cl_ord_id /\ 1 \in 1..Len(inbound)
          BY <3>2, HandledReport
        <5> QED BY <5>1, <5>2 DEF IdsIssued
      <4> HIDE DEF n, e
      <4> QED BY <4>1, <4>2, <4>3, IssuedIsOther
    <3> QED BY <3>1, <3>2
  <2>5. X \in OrderTable
    BY <2>3, <2>4, BookOrderType DEF WithReport
  <2> HIDE DEF e
  <2>6. WithReport(WithRequest(orders))' = BookOrder(X, e)
    <3>1. WithRequest(orders)' = BookOrder(orders, e)
      BY <1>1, <2>1 DEF WithRequest, e
    <3>2. WithReport(WithRequest(orders))' =
            IF ipc \in {"logged", "tracked"} THEN BookOrder(BookOrder(orders, e), ievt)
            ELSE BookOrder(orders, e)
      BY <1>1, <3>1 DEF WithReport
    <3>3. CASE ipc \in {"logged", "tracked"}
      <4>1. BookOrder(BookOrder(orders, e), ievt) = BookOrder(BookOrder(orders, ievt), e)
        BY <2>2, <2>3, <2>4, <3>3, BooksCommute
      <4> QED BY <3>2, <3>3, <4>1 DEF WithReport
    <3>4. CASE ipc \notin {"logged", "tracked"}
      BY <3>2, <3>4 DEF WithReport
    <3> QED BY <3>3, <3>4
  <2>7. /\ ShownOrders(ReplayOrders(log')) = BookOrder(ShownOrders(ReplayOrders(log)), e)
        /\ ShownPositions(ReplayPositions(log')) = BookPosition(ShownPositions(ReplayPositions(log)), e)
    BY <1>2, <2>1, <2>2, ReplayGrows
  <2>8. ShownOrders(ReplayOrders(log)) = ShownOrders(X)
    BY <1>1 DEF OrdersRebuilt, WithRequest
  <2>9. ShownOrders(BookOrder(X, e)) = BookOrder(ShownOrders(X), e)
    BY <2>2, <2>5, ShownBooked
  <2>10. OrdersRebuilt'
    <3> HIDE DEF X
    <3>1. ShownOrders(ReplayOrders(log')) = ShownOrders(BookOrder(X, e))
      BY <2>7, <2>8, <2>9
    <3> QED BY <2>6, <3>1 DEF OrdersRebuilt
  <2>11. PositionsRebuilt'
    <3>1. \A ps : BookPosition(ps, e) = ps
      BY <2>2 DEF BookPosition, IsFill
    <3>2. Tracked' = Tracked
      BY <1>1 DEF Tracked
    <3> QED BY <2>7, <3>1, <3>2 DEF PositionsRebuilt
  <2> QED BY <2>10, <2>11
<1>3. CASE ~(Len(log) < MaxEvents)
  <2>1. spc' = "idle" /\ log' = log
    BY <1>3 DEF RecordOrder
  <2> QED BY <1>1, <2>1 DEF OrdersRebuilt, PositionsRebuilt, WithReport, WithRequest, Tracked
<1> QED BY <1>2, <1>3

(* onMessage() logs. *)
LEMMA LogReportRebuilds ==
  ASSUME IndInv, OrdersRebuilt, PositionsRebuilt, LogReport
  PROVE  OrdersRebuilt' /\ PositionsRebuilt'
<1> DEFINE X == WithRequest(orders)
<1>1. /\ ipc = "translated" /\ ipc' = "logged" /\ Len(log) < MaxEvents
      /\ UNCHANGED <<orders, positions, spc, req, ievt>> /\ log' = Append(log, Stored(ievt))
  BY DEF LogReport, strategy
<1>2. ievt \in FillEvents /\ ievt.sequence = 0
  <2>1. ievt \in FillEvents
    BY <1>1, HandledReport
  <2>2. ievt \in FromExecutionReport(Head(inbound))
    BY <1>1 DEF IndInv, ReportAtHand
  <2>3. ievt.sequence = 0
    BY <2>2, TranslatedEvents, TranslatedNone
  <2> QED BY <2>1, <2>3
<1>3. orders \in OrderTable /\ positions \in PositionTable
  BY DEF IndInv, TypeOK, OrderTable, PositionTable
<1>4. X \in OrderTable
  BY <1>3, RequestAtHand, BookOrderType DEF WithRequest
<1>5. WithReport(WithRequest(orders))' = BookOrder(X, ievt) /\ Tracked' = BookPosition(positions, ievt)
  BY <1>1 DEF WithReport, WithRequest, Tracked
<1>6. /\ ShownOrders(ReplayOrders(log')) = BookOrder(ShownOrders(ReplayOrders(log)), ievt)
      /\ ShownPositions(ReplayPositions(log')) = BookPosition(ShownPositions(ReplayPositions(log)), ievt)
  BY <1>1, <1>2, ReplayGrows
<1>7. /\ ShownOrders(ReplayOrders(log)) = ShownOrders(X)
      /\ ShownPositions(ReplayPositions(log)) = ShownPositions(positions)
  BY <1>1 DEF OrdersRebuilt, PositionsRebuilt, WithReport, Tracked
<1>8. /\ ShownOrders(BookOrder(X, ievt)) = BookOrder(ShownOrders(X), ievt)
      /\ ShownPositions(BookPosition(positions, ievt)) = BookPosition(ShownPositions(positions), ievt)
  BY <1>2, <1>3, <1>4, ShownBooked
<1> HIDE DEF X
<1> QED BY <1>5, <1>6, <1>7, <1>8 DEF OrdersRebuilt, PositionsRebuilt

(* The projections. *)
LEMMA ProjectReportRebuilds ==
  ASSUME IndInv, IdsIssued, OneLife, OrdersRebuilt, PositionsRebuilt, ProjectReport
  PROVE  OrdersRebuilt' /\ PositionsRebuilt'
<1>1. /\ ipc = "tracked" /\ ipc' = "idle" /\ orders' = BookOrder(orders, ievt)
      /\ UNCHANGED <<positions, log, spc, req>>
  BY DEF ProjectReport, strategy
<1>2. PositionsRebuilt'
  BY <1>1 DEF PositionsRebuilt, Tracked
<1>3. WithReport(WithRequest(orders))' = WithReport(WithRequest(orders))
  <2>1. orders \in OrderTable
    BY DEF IndInv, TypeOK, OrderTable
  <2>2. WithReport(WithRequest(orders))' = WithRequest(orders)' 
    BY <1>1 DEF WithReport
  <2>3. CASE spc = "logged"
    <3>1. WithRequest(orders)' = BookOrder(BookOrder(orders, ievt), req)
      BY <1>1, <2>3 DEF WithRequest
    <3>2. WithReport(WithRequest(orders)) = BookOrder(BookOrder(orders, req), ievt)
      BY <1>1, <2>3 DEF WithRequest, WithReport
    <3>3. /\ req \in Events /\ req.type = "NewOrder" /\ ievt \in Events /\ ievt.type # "NewOrder"
          /\ ievt.order_id # req.order_id
      BY <1>1, <2>3, RequestAtHand, HandledReport, OtherOrder
    <3> QED BY <2>1, <2>2, <3>1, <3>2, <3>3, BooksCommute
  <2>4. CASE spc # "logged"
    BY <1>1, <2>2, <2>4 DEF WithRequest, WithReport
  <2> QED BY <2>3, <2>4
<1> QED BY <1>1, <1>2, <1>3 DEF OrdersRebuilt

(* A step that books nothing and logs nothing. *)
LEMMA RebuiltStays ==
  ASSUME OrdersRebuilt, PositionsRebuilt, UNCHANGED <<orders, positions, log>>,
         UNCHANGED <<spc, req>> \/ (spc # "logged" /\ spc' # "logged"),
         UNCHANGED io \/ ({ipc, ipc'} \subseteq {"idle", "translated"})
  PROVE  OrdersRebuilt' /\ PositionsRebuilt'
<1>1. Tracked' = Tracked
  BY DEF Tracked, io
<1>2. WithRequest(orders)' = WithRequest(orders)
  BY DEF WithRequest
<1>3. WithReport(WithRequest(orders))' = WithReport(WithRequest(orders))
  BY <1>2 DEF WithReport, io
<1> QED BY <1>1, <1>3 DEF OrdersRebuilt, PositionsRebuilt

(* As long as the process lives, every step keeps log and projections in line. *)
LEMMA NextRebuilt ==
  ASSUME IndInv, IdsIssued, OneLife, IndInv', IdsIssued', OneLife', OrdersRebuilt, PositionsRebuilt,
         [Next]_vars
  PROVE  OrdersRebuilt' /\ PositionsRebuilt'
<1>1. CASE Strategy
  <2>1. ASSUME NEW sym \in Symbols, NEW side \in StrategySides, NEW qty \in Quantities \ {0},
               NEW px \in Prices, SendOrder(sym, side, qty, px)
        PROVE  OrdersRebuilt' /\ PositionsRebuilt'
    BY <2>1, RebuiltStays DEF SendOrder
  <2>2. CASE CheckRisk
    BY <2>2, RebuiltStays DEF CheckRisk
  <2>3. CASE ProjectOrder
    <3>1. /\ spc = "logged" /\ spc' = "booked" /\ orders' = BookOrder(orders, req)
          /\ UNCHANGED <<positions, log, io>>
      BY <2>3 DEF ProjectOrder
    <3>2. Tracked' = Tracked
      BY <3>1 DEF Tracked, io
    <3>3. WithRequest(orders)' = WithRequest(orders)
      BY <3>1 DEF WithRequest
    <3>4. WithReport(WithRequest(orders))' = WithReport(WithRequest(orders))
      BY <3>1, <3>3 DEF WithReport, io
    <3> QED BY <3>1, <3>2, <3>4 DEF OrdersRebuilt, PositionsRebuilt
  <2>4. CASE TransmitOrder
    BY <2>4, RebuiltStays DEF TransmitOrder
  <2> QED BY <1>1, <2>1, <2>2, <2>3, <2>4, RecordOrderRebuilds DEF Strategy
<1>2. CASE IOThread
  <2>1. CASE Logon \/ Logout \/ DropReport
    BY <2>1, RebuiltStays DEF Logon, Logout, DropReport, strategy
  <2>2. CASE TakeReport
    BY <2>2, RebuiltStays DEF TakeReport, Deliverable, strategy
  <2>3. CASE TrackReport
    <3>1. /\ ipc = "logged" /\ ipc' = "tracked" /\ positions' = BookPosition(positions, ievt)
          /\ UNCHANGED <<orders, log, spc, req, ievt>>
      BY <2>3 DEF TrackReport, ApplyEvent, strategy
    <3>2. Tracked' = Tracked
      BY <3>1 DEF Tracked
    <3>3. WithRequest(orders)' = WithRequest(orders)
      BY <3>1 DEF WithRequest
    <3>4. WithReport(WithRequest(orders))' = WithReport(WithRequest(orders))
      BY <3>1, <3>3 DEF WithReport
    <3> QED BY <3>1, <3>2, <3>4 DEF OrdersRebuilt, PositionsRebuilt
  <2> QED BY <1>2, <2>1, <2>2, <2>3, LogReportRebuilds, ProjectReportRebuilds DEF IOThread
<1>3. CASE Process
  BY <1>3 DEF Process, Crash, TerminateLogFull, Restart, Down, OneLife
<1>4. CASE Exchange
  <2>1. UNCHANGED <<orders, positions, log, strategy, io>>
    BY <1>4 DEF Exchange, AcceptOrder, RefuseOrder, Trade, CancelOrder, ExpireOrder
  <2> QED BY <2>1, RebuiltStays DEF strategy
<1>5. CASE UNCHANGED vars
  BY <1>5, RebuiltStays DEF vars, strategy
<1> QED BY <1>1, <1>2, <1>3, <1>4, <1>5 DEF Next

(* A life that has just begun. *)
LEMMA InitLife == Init => IdsIssued /\ OrdersRebuilt /\ PositionsRebuilt
<1> SUFFICES ASSUME Init PROVE IdsIssued /\ OrdersRebuilt /\ PositionsRebuilt
  OBVIOUS
<1>1. /\ positions = << >> /\ orders = << >> /\ log = << >> /\ outbound = << >> /\ inbound = << >>
      /\ spc = "idle" /\ ipc = "idle"
  BY DEF Init, InitPositions, InitOrders
<1>2. \A oid \in OrderIds : book[oid].state = "None"
  BY DEF Init
<1>3. IdsIssued
  BY <1>1, <1>2 DEF IdsIssued
<1>4. ReplayOrders(log) = << >> /\ ReplayPositions(log) = << >>
  <2>1. log \in Seq(Events) /\ log \in Seq(FillEvents) /\ Len(log) = 0
    BY <1>1
  <2>2. ReplayOrders(log) = << >>
    BY <2>1, ReplayOrdersFold DEF IsFold
  <2>3. ReplayPositions(log) = << >>
    BY <2>1, ReplayPositionsFold DEF IsFold
  <2> QED BY <2>2, <2>3
<1> QED BY <1>1, <1>3, <1>4 DEF OrdersRebuilt, PositionsRebuilt, WithReport, WithRequest, Tracked

(* As long as the process lives and has given out no more than 100000 ids, *)
(* the tables and a replay of the log agree whenever no booking is under   *)
(* way, although the two threads log and book in orders of their own.      *)
THEOREM GatewayReplayRebuilds == Spec /\ []OneLife => []ReplayRebuilds
<1> DEFINE Inv == IdsIssued /\ OrdersRebuilt /\ PositionsRebuilt
<1>1. IndInv /\ Inv /\ OneLife /\ IndInv' /\ OneLife' /\ [Next]_vars => Inv'
  BY NextIdsIssued, NextRebuilt DEF OneLife
<1>2. Inv => ReplayRebuilds
  BY DEF OrdersRebuilt, PositionsRebuilt, ReplayRebuilds, Quiet, WithReport, WithRequest, Tracked,
         Shown, ShownOrders, ShownPositions, ShownOrder, ShownPosition
<1>3. Init => Inv
  BY InitLife
<1> QED BY <1>1, <1>2, <1>3, GatewayInductive, PTL DEF Spec
-----------------------------------------------------------------------------
(* What the tracker answers for a symbol. *)
Net(ps, sym) == NetQty(GetPosition(ps, sym))

(* With one slot for a symbol, get() has one answer. *)
LEMMA NetOfSlot ==
  ASSUME NEW ps \in Seq(Position), OneSlotEach(ps), NEW sym
  PROVE  /\ \A i \in 1..Len(ps) : ps[i].symbol = sym => Net(ps, sym) = ps[i].net_qty
         /\ (\A i \in 1..Len(ps) : ps[i].symbol # sym) => Net(ps, sym) = 0
         /\ Net(ps, sym) \in Int
<1>1. ASSUME NEW i \in 1..Len(ps), ps[i].symbol = sym
      PROVE  Net(ps, sym) = ps[i].net_qty /\ Net(ps, sym) \in Int
  <2>1. { j \in 1..Len(ps) : ps[j].symbol = sym } = {i}
    BY <1>1 DEF OneSlotEach
  <2>2. GetPosition(ps, sym) = {ps[i]}
    BY <2>1 DEF GetPosition
  <2> DEFINE p == ps[i]
  <2>3. p \in Position
    OBVIOUS
  <2>4. Net(ps, sym) = NetQty({p})
    BY <2>2 DEF Net
  <2> HIDE DEF p
  <2>5. NetQty({p}) = p.net_qty
    BY DEF NetQty
  <2>6. p.net_qty \in Int
    BY <2>3 DEF Position
  <2> QED BY <2>4, <2>5, <2>6 DEF p
<1>2. ASSUME \A i \in 1..Len(ps) : ps[i].symbol # sym PROVE Net(ps, sym) = 0
  <2>1. GetPosition(ps, sym) = {}
    BY <1>2 DEF GetPosition
  <2> QED BY <2>1 DEF Net, NetQty
<1> QED BY <1>1, <1>2

(* A fill moves the answer for its symbol by its signed quantity. *)
LEMMA NetMoves ==
  ASSUME NEW ps \in PositionTable, OneSlotEach(ps), NEW e \in FillEvents, NEW sym \in Symbols,
         IsFiniteSet(Symbols), Cardinality(Symbols) <= MaxSymbols
  PROVE  Net(BookPosition(ps, e), sym) =
           Net(ps, sym) + IF IsFill(e) /\ e.symbol = sym THEN Signed(e.side, e.fill_qty) ELSE 0
<1> DEFINE qs == BookPosition(ps, e)
           i == FindPosition(ps, e.symbol)
           d == Signed(e.side, e.fill_qty)
<1>1. ps \in Seq(Position) /\ Len(ps) \in Nat /\ qs \in Seq(Position)
  BY BookPositionType DEF PositionTable
<1>2. /\ OneSlotEach(qs)
      /\ IsFill(e) /\ i # 0 => qs = [ps EXCEPT ![i] = ApplyFill(ps[i], e)] /\ i \in 1..Len(ps)
      /\ IsFill(e) /\ i = 0 /\ ~(Len(ps) >= MaxSymbols) =>
           qs = Append(ps, ApplyFill(ZeroPosition(e.symbol), e))
      /\ ~IsFill(e) => qs = ps
  BY BookPositionSlots
<1>3. e.symbol \in Symbols /\ e.side \in Sides /\ d \in Int
  BY DEF FillEvents, Events, Signed
<1>4. /\ i # 0 => ps[i].symbol = e.symbol
      /\ i = 0 => \A k \in 1..Len(ps) : ps[k].symbol # e.symbol
  BY <1>1, FindPositionProps
<1>5. Net(ps, sym) \in Int
  BY <1>1, NetOfSlot
<1> HIDE DEF qs, i, d
<1>6. CASE ~IsFill(e)
  BY <1>2, <1>5, <1>6 DEF qs
<1>7. CASE IsFill(e) /\ i # 0
  <2> DEFINE h == ApplyFill(ps[i], e)
  <2>1. i \in 1..Len(ps) /\ ps[i] \in Position /\ qs = [ps EXCEPT ![i] = h]
    BY <1>1, <1>2, <1>7
  <2>2. h.symbol = ps[i].symbol /\ h.net_qty = ps[i].net_qty + d
    BY <2>1, FillMoves DEF d
  <2> HIDE DEF h
  <2>3. /\ Len(qs) = Len(ps) /\ qs[i] = h
        /\ \A k \in 1..Len(ps) : k # i => qs[k] = ps[k]
    BY <1>1, <2>1
  <2>4. CASE e.symbol = sym
    <3>1. Net(ps, sym) = ps[i].net_qty
      BY <1>1, <1>4, <1>7, <2>1, <2>4, NetOfSlot
    <3>2. i \in 1..Len(qs) /\ qs[i].symbol = sym /\ qs[i] = h
      BY <1>4, <1>7, <2>1, <2>2, <2>3, <2>4
    <3>3. Net(qs, sym) = qs[i].net_qty
      BY <1>1, <1>2, <3>2, NetOfSlot
    <3> QED BY <1>7, <2>2, <2>4, <3>1, <3>2, <3>3 DEF qs, d
  <2>5. CASE e.symbol # sym
    <3>1. \A k \in 1..Len(ps) : ps[k].symbol = sym => k # i /\ qs[k] = ps[k]
      BY <1>4, <1>7, <2>3, <2>5
    <3>2. \A k \in 1..Len(ps) : qs[k].symbol = sym => ps[k].symbol = sym
      BY <1>4, <1>7, <2>2, <2>3, <2>5
    <3>3. Net(qs, sym) = Net(ps, sym)
      <4>1. CASE \E k \in 1..Len(ps) : ps[k].symbol = sym
        <5>1. PICK k \in 1..Len(ps) : ps[k].symbol = sym
          BY <4>1
        <5>2. Net(ps, sym) = ps[k].net_qty
          BY <1>1, <5>1, NetOfSlot
        <5>3. Net(qs, sym) = qs[k].net_qty
          BY <1>1, <1>2, <2>3, <3>1, <5>1, NetOfSlot
        <5> QED BY <3>1, <5>1, <5>2, <5>3
      <4>2. CASE \A k \in 1..Len(ps) : ps[k].symbol # sym
        <5>1. Net(ps, sym) = 0
          BY <1>1, <4>2, NetOfSlot
        <5>2. Net(qs, sym) = 0
          BY <1>1, <1>2, <2>3, <3>2, <4>2, NetOfSlot
        <5> QED BY <5>1, <5>2
      <4> QED BY <4>1, <4>2
    <3> QED BY <1>5, <2>5, <3>3 DEF qs
  <2> QED BY <2>4, <2>5
<1>8. CASE IsFill(e) /\ i = 0
  <2> DEFINE z == ZeroPosition(e.symbol)
             h == ApplyFill(z, e)
  <2>1. ~(Len(ps) >= MaxSymbols)
    BY <1>3, <1>8, RoomForSymbol DEF i
  <2>2. qs = Append(ps, h)
    BY <1>2, <1>8, <2>1
  <2>3. z \in Position /\ z.symbol = e.symbol /\ z.net_qty = 0
    BY <1>3, ZeroPositionType
  <2> HIDE DEF z
  <2>4. h.symbol = e.symbol /\ h.net_qty = 0 + d
    BY <2>3, FillMoves DEF d
  <2> HIDE DEF h
  <2>5. /\ Len(qs) = Len(ps) + 1 /\ qs[Len(ps) + 1] = h /\ Len(ps) + 1 \in 1..Len(qs)
        /\ \A k \in 1..Len(ps) : k \in 1..Len(qs) /\ qs[k] = ps[k]
    BY <1>1, <2>2
  <2>6. CASE e.symbol = sym
    <3>1. Net(ps, sym) = 0
      BY <1>1, <1>4, <1>8, <2>6, NetOfSlot
    <3>2. Net(qs, sym) = h.net_qty
      BY <1>1, <1>2, <2>4, <2>5, <2>6, NetOfSlot
    <3> QED BY <1>3, <1>8, <2>4, <2>6, <3>1, <3>2 DEF qs, d
  <2>7. CASE e.symbol # sym
    <3>1. Net(qs, sym) = Net(ps, sym)
      <4>1. CASE \E k \in 1..Len(ps) : ps[k].symbol = sym
        <5>1. PICK k \in 1..Len(ps) : ps[k].symbol = sym
          BY <4>1
        <5>2. Net(ps, sym) = ps[k].net_qty
          BY <1>1, <5>1, NetOfSlot
        <5>3. Net(qs, sym) = qs[k].net_qty
          BY <1>1, <1>2, <2>5, <5>1, NetOfSlot
        <5> QED BY <2>5, <5>1, <5>2, <5>3
      <4>2. CASE \A k \in 1..Len(ps) : ps[k].symbol # sym
        <5>1. Net(ps, sym) = 0
          BY <1>1, <4>2, NetOfSlot
        <5>2. \A k \in 1..Len(qs) : qs[k].symbol # sym
          BY <1>1, <2>4, <2>5, <2>7, <4>2
        <5>3. Net(qs, sym) = 0
          BY <1>1, <1>2, <5>2, NetOfSlot
        <5> QED BY <5>1, <5>3
      <4> QED BY <4>1, <4>2
    <3> QED BY <1>5, <2>7, <3>1 DEF qs
  <2> QED BY <2>6, <2>7
<1> QED BY <1>6, <1>7, <1>8
-----------------------------------------------------------------------------
(* What the exchange has traded of an order, up to the reports that are    *)
(* under way, and the orders of a symbol.                                  *)
SharesOf(bk, rs) ==
  [oid \in OrderIds |-> Signed(bk[oid].side, bk[oid].filled - QueuedFills(rs, oid))]

OrdersOf(bk, sym) == { oid \in OrderIds : bk[oid].symbol = sym }

Reconciled(ps, bk, rs) ==
  \A sym \in Symbols : Net(ps, sym) = SetSum(SharesOf(bk, rs), OrdersOf(bk, sym))

Books == [OrderIds -> BookEntry]

(* Those sums are sums of integers over finite sets. *)
LEMMA SharesType ==
  ASSUME IsFiniteSet(OrderIds), NEW bk \in Books, NEW rs \in Seq(ExecutionReports), NEW sym
  PROVE  /\ \A oid \in OrderIds : /\ SharesOf(bk, rs)[oid] \in Int
                                  /\ SharesOf(bk, rs)[oid] =
                                       Signed(bk[oid].side, bk[oid].filled - QueuedFills(rs, oid))
                                  /\ bk[oid].filled \in Nat /\ bk[oid].symbol \in Symbols
                                  /\ bk[oid].side \in Sides
                                  /\ QueuedFills(rs, oid) \in Nat
         /\ OrdersOf(bk, sym) \subseteq OrderIds
         /\ IsFiniteSet(OrdersOf(bk, sym))
<1>1. ASSUME NEW oid \in OrderIds
      PROVE  /\ SharesOf(bk, rs)[oid] \in Int
             /\ SharesOf(bk, rs)[oid] = Signed(bk[oid].side, bk[oid].filled - QueuedFills(rs, oid))
             /\ bk[oid].filled \in Nat /\ bk[oid].symbol \in Symbols /\ bk[oid].side \in Sides
             /\ QueuedFills(rs, oid) \in Nat
  <2> DEFINE q == QueuedFills(rs, oid)
  <2>1. q \in Nat
    BY QueuedFillsIsSum
  <2>2. bk[oid].filled \in Nat /\ bk[oid].symbol \in Symbols /\ bk[oid].side \in Sides
    BY DEF Books, BookEntry
  <2>3. SharesOf(bk, rs)[oid] = Signed(bk[oid].side, bk[oid].filled - q)
    BY DEF SharesOf
  <2> HIDE DEF q
  <2>4. Signed(bk[oid].side, bk[oid].filled - q) \in Int
    BY <2>1, <2>2 DEF Signed
  <2> QED BY <2>1, <2>2, <2>3, <2>4 DEF q
<1>2. OrdersOf(bk, sym) \subseteq OrderIds
  BY DEF OrdersOf
<1> QED BY <1>1, <1>2, FS_Subset

(* The sum over the book that FillsBookedOnce compares with. *)
LEMMA SharesSum ==
  ASSUME IsFiniteSet(OrderIds), NEW bk \in Books, NEW rs \in Seq(ExecutionReports), NEW sym
  PROVE  MapThenSumSet(LAMBDA oid : Signed(bk[oid].side, bk[oid].filled - QueuedFills(rs, oid)),
                       OrdersOf(bk, sym)) = SetSum(SharesOf(bk, rs), OrdersOf(bk, sym))
<1> DEFINE S == OrdersOf(bk, sym)
           f == SharesOf(bk, rs)
           Of(oid) == Signed(bk[oid].side, bk[oid].filled - QueuedFills(rs, oid))
           It == CHOOSE g : g = [s \in SUBSET S |->
                   IF s = {} THEN 0
                   ELSE Of(CHOOSE x \in s : TRUE) + g[s \ {CHOOSE x \in s : TRUE}]]
<1>1. IsFiniteSet(S) /\ \A oid \in S : f[oid] = Of(oid) /\ f[oid] \in Int
  BY SharesType
<1>2. MapThenSumSet(LAMBDA oid : Signed(bk[oid].side, bk[oid].filled - QueuedFills(rs, oid)), S)
        = It[S]
  BY DEF MapThenSumSet, MapThenFoldSet
<1> HIDE DEF S, f, Of
<1>3. PICK h : IsSetSums(h, S, f)
  BY <1>1, SetSumsExist
<1>4. \A s \in SUBSET S : s # {} => PickOf(s) \in S
  BY PickOfMember
<1>5. h = [s \in SUBSET S |->
             IF s = {} THEN 0
             ELSE Of(CHOOSE x \in s : TRUE) + h[s \ {CHOOSE x \in s : TRUE}]]
  <2>1. h \in [SUBSET S -> Int]
    BY <1>3 DEF IsSetSums
  <2>2. \A s \in SUBSET S : h[s] = IF s = {} THEN 0 ELSE Of(PickOf(s)) + h[s \ {PickOf(s)}]
    BY <1>1, <1>3, <1>4 DEF IsSetSums
  <2> QED BY <2>1, <2>2 DEF PickOf
<1>6. It = [s \in SUBSET S |->
             IF s = {} THEN 0
             ELSE Of(CHOOSE x \in s : TRUE) + It[s \ {CHOOSE x \in s : TRUE}]]
  BY <1>5
<1> HIDE DEF It
<1>7. SolvesSetSums(It, S, f)
  BY <1>1, <1>4, <1>6 DEF SolvesSetSums, PickOf
<1>8. IsSetSums(It, S, f)
  BY <1>1, <1>7, SetSumsTyped
<1>9. PICK e : IsSetSums(e, S, f) /\ SetSum(f, S) = e[S]
  BY <1>1, SetSumBy
<1>10. It[S] = e[S]
  <2>1. S \in SUBSET S
    OBVIOUS
  <2> QED BY <1>1, <1>8, <1>9, <2>1, SetSumsAgree
<1> QED BY <1>2, <1>9, <1>10 DEF S, f

(* A step that moves no order's shares. *)
LEMMA ReconciledStays ==
  ASSUME IsFiniteSet(OrderIds), NEW bk \in Books, NEW bl \in Books,
         NEW rs \in Seq(ExecutionReports), NEW ts \in Seq(ExecutionReports), NEW ps,
         \A oid \in OrderIds : /\ bl[oid].symbol = bk[oid].symbol /\ bl[oid].side = bk[oid].side
                               /\ bl[oid].filled - QueuedFills(ts, oid) =
                                    bk[oid].filled - QueuedFills(rs, oid),
         Reconciled(ps, bk, rs)
  PROVE  Reconciled(ps, bl, ts)
<1> SUFFICES ASSUME NEW sym \in Symbols
             PROVE  Net(ps, sym) = SetSum(SharesOf(bl, ts), OrdersOf(bl, sym))
  BY DEF Reconciled
<1>1. OrdersOf(bl, sym) = OrdersOf(bk, sym)
  BY DEF OrdersOf
<1>2. SharesOf(bl, ts) = SharesOf(bk, rs)
  BY DEF SharesOf
<1> QED BY <1>1, <1>2 DEF Reconciled

(* A step that moves the shares of one order, and the position with them. *)
LEMMA ReconciledMoves ==
  ASSUME IsFiniteSet(OrderIds), NEW bk \in Books, NEW bl \in Books,
         NEW rs \in Seq(ExecutionReports), NEW ts \in Seq(ExecutionReports), NEW ps, NEW qs,
         NEW x \in OrderIds,
         \A oid \in OrderIds \ {x} : bl[oid].symbol = bk[oid].symbol
                                     /\ SharesOf(bl, ts)[oid] = SharesOf(bk, rs)[oid],
         \A sym \in Symbols :
           /\ Net(ps, sym) \in Int
           /\ Net(qs, sym) - (IF bl[x].symbol = sym THEN SharesOf(bl, ts)[x] ELSE 0)
                = Net(ps, sym) - (IF bk[x].symbol = sym THEN SharesOf(bk, rs)[x] ELSE 0)
           /\ Net(qs, sym) \in Int,
         Reconciled(ps, bk, rs)
  PROVE  Reconciled(qs, bl, ts)
<1> SUFFICES ASSUME NEW sym \in Symbols
             PROVE  Net(qs, sym) = SetSum(SharesOf(bl, ts), OrdersOf(bl, sym))
  BY DEF Reconciled
<1> DEFINE S == OrdersOf(bk, sym)
           R == OrdersOf(bl, sym)
           f == SharesOf(bk, rs)
           g == SharesOf(bl, ts)
           a == Net(ps, sym)
           b == Net(qs, sym)
           fx == TermOf(f, S, x)
           gx == TermOf(g, R, x)
<1>1. IsFiniteSet(S) /\ S \subseteq OrderIds /\ \A y \in OrderIds : f[y] \in Int
  BY SharesType
<1>2. IsFiniteSet(R) /\ R \subseteq OrderIds /\ \A y \in OrderIds : g[y] \in Int
  BY SharesType
<1>3. S \ {x} = R \ {x}
  BY DEF OrdersOf
<1>4. \A y \in S \ {x} : f[y] = g[y]
  BY <1>1
<1>5. (x \in S <=> bk[x].symbol = sym) /\ (x \in R <=> bl[x].symbol = sym)
  BY DEF OrdersOf
<1>6. b - gx = a - fx /\ a \in Int /\ b \in Int /\ fx \in Int /\ gx \in Int
  BY <1>1, <1>2, <1>5 DEF TermOf
<1>7. a = SetSum(f, S)
  BY DEF Reconciled
<1> HIDE DEF S, R, f, g, a, b
<1>8. /\ SetSum(f, S) \in Int /\ SetSum(g, R) \in Int
      /\ SetSum(f, S) - fx = SetSum(g, R) - gx
  <2>1. OneTermApart(S, R, x, f, g)
    BY <1>1, <1>2, <1>3, <1>4 DEF OneTermApart
  <2> QED BY <2>1, SetSumOneTerm
<1> HIDE DEF fx, gx
<1>9. b = SetSum(g, R)
  BY <1>6, <1>7, <1>8
<1> QED BY <1>9 DEF b, g, R
-----------------------------------------------------------------------------
(* Reports of shares are about orders of the exchange, and agree with it;  *)
(* an order it has not seen has traded nothing.                            *)
TradesMatch(bk, rs) ==
  \A k \in 1..Len(rs) :
    rs[k].last_shares > 0 => /\ bk[rs[k].cl_ord_id].state # "None"
                             /\ bk[rs[k].cl_ord_id].symbol = rs[k].symbol
                             /\ bk[rs[k].cl_ord_id].side = rs[k].side

UnseenUntraded(bk) == \A oid \in OrderIds : bk[oid].state = "None" => bk[oid].filled = 0

(* Why the position reconciles: besides the equation, that it has one slot *)
(* for a symbol and that a report is booked on the side and the symbol the *)
(* exchange traded.                                                        *)
Reconciles ==
  /\ OneSlotEach(positions)
  /\ TradesMatch(book, inbound)
  /\ UnseenUntraded(book)
  /\ Reconciled(positions, book, Untracked)

(* The reports the tracker has not seen are reports of the session. *)
LEMMA UntrackedReports ==
  ASSUME IndInv
  PROVE  /\ inbound \in Seq(ExecutionReports) /\ Untracked \in Seq(ExecutionReports)
         /\ \A k \in 1..Len(Untracked) : \E j \in 1..Len(inbound) : Untracked[k] = inbound[j]
         /\ book \in Books
         /\ \A r : inbound' = Append(inbound, r) /\ ipc' = ipc => Untracked' = Append(Untracked, r)
<1>1. inbound \in Seq(ExecutionReports) /\ book \in Books
  BY DEF IndInv, TypeOK, Books, BookEntry
<1>2. CASE ipc = "tracked"
  <2>1. inbound # << >> /\ Untracked = Tail(inbound)
    BY <1>2 DEF IndInv, ReportAtHand, Untracked
  <2>2. /\ Tail(inbound) \in Seq(ExecutionReports)
        /\ \A k \in 1..Len(Tail(inbound)) : k + 1 \in 1..Len(inbound) /\ Tail(inbound)[k] = inbound[k + 1]
    BY <1>1, <2>1
  <2>3. ASSUME NEW r, inbound' = Append(inbound, r), ipc' = ipc
        PROVE  Untracked' = Append(Untracked, r)
    <3>1. Tail(Append(inbound, r)) = Append(Tail(inbound), r)
      <4>1. inbound \in Seq(ExecutionReports \cup {r}) /\ r \in ExecutionReports \cup {r}
        BY <1>1
      <4> QED BY <2>1, <4>1
    <3> QED BY <1>2, <2>1, <2>3, <3>1 DEF Untracked
  <2> QED BY <1>1, <2>1, <2>2, <2>3
<1>3. CASE ipc # "tracked"
  BY <1>1, <1>3 DEF Untracked
<1> QED BY <1>2, <1>3

(* A step that touches neither the book nor the reports nor the tracker. *)
LEMMA ReconcilesStays ==
  ASSUME Reconciles, positions' = positions, book' = book, inbound' = inbound,
         Untracked' = Untracked
  PROVE  Reconciles'
BY DEF Reconciles

(* The rest of a queue agrees with the book as the queue does. *)
LEMMA TradesMatchTail ==
  ASSUME NEW rs \in Seq(ExecutionReports), rs # << >>, NEW bk, TradesMatch(bk, rs)
  PROVE  TradesMatch(bk, Tail(rs))
<1>1. \A k \in 1..Len(Tail(rs)) : k + 1 \in 1..Len(rs) /\ Tail(rs)[k] = rs[k + 1]
  OBVIOUS
<1> QED BY <1>1 DEF TradesMatch

(* A report of the exchange carries what the exchange has booked. *)
LEMMA ReportReconciles ==
  ASSUME IsFiniteSet(OrderIds), IndInv, Reconciles, NEW r \in ExecutionReports,
         inbound' = Append(inbound, r), UNCHANGED <<positions, io>>, book' \in Books,
         \A id \in OrderIds :
           /\ book'[id].symbol = book[id].symbol /\ book'[id].side = book[id].side
           /\ book'[id].filled = book[id].filled + IF r.cl_ord_id = id THEN r.last_shares ELSE 0
           /\ book'[id].state = "None" <=> book[id].state = "None",
         r.last_shares > 0 => /\ book[r.cl_ord_id].state # "None"
                              /\ book[r.cl_ord_id].symbol = r.symbol
                              /\ book[r.cl_ord_id].side = r.side
  PROVE  Reconciles'
<1> DEFINE bl == book'
           u == Untracked
           ts == Append(u, r)
<1>1. /\ inbound \in Seq(ExecutionReports) /\ u \in Seq(ExecutionReports) /\ book \in Books
      /\ Untracked' = ts
  BY UntrackedReports DEF io
<1>2. ts \in Seq(ExecutionReports) /\ r.cl_ord_id \in OrderIds /\ r.last_shares \in Nat
  BY <1>1 DEF ExecutionReports
<1> HIDE DEF u, bl
<1>3. \A oid \in OrderIds : /\ bl[oid].symbol = book[oid].symbol /\ bl[oid].side = book[oid].side
                            /\ bl[oid].filled - QueuedFills(ts, oid) =
                                 book[oid].filled - QueuedFills(u, oid)
  <2> SUFFICES ASSUME NEW oid \in OrderIds
               PROVE  bl[oid].filled - QueuedFills(ts, oid) = book[oid].filled - QueuedFills(u, oid)
    BY DEF bl
  <2> DEFINE x == IF r.cl_ord_id = oid THEN r.last_shares ELSE 0
             q == QueuedFills(u, oid)
             n == book[oid].filled
  <2>1. x \in Nat /\ q \in Nat /\ n \in Nat
    BY <1>1, <1>2, QueuedFillsIsSum DEF Books, BookEntry
  <2>2. QueuedFills(ts, oid) = q + x
    BY <1>1, QueuedFillsAppend
  <2>3. bl[oid].filled = n + x
    BY DEF bl
  <2> HIDE DEF x, q, n
  <2>4. bl[oid].filled - QueuedFills(ts, oid) = n - q
    BY <2>1, <2>2, <2>3
  <2> QED BY <2>4 DEF n, q
<1>4. Reconciled(positions, bl, ts)
  <2> HIDE DEF ts
  <2>1. bl \in Books /\ Reconciled(positions, book, u)
    BY DEF Reconciles, bl, u
  <2> QED BY <1>1, <1>2, <1>3, <2>1, ReconciledStays
<1>5. TradesMatch(bl, Append(inbound, r))
  <2> DEFINE rs == Append(inbound, r)
  <2> SUFFICES ASSUME NEW k \in 1..Len(rs), rs[k].last_shares > 0
               PROVE  /\ bl[rs[k].cl_ord_id].state # "None"
                      /\ bl[rs[k].cl_ord_id].symbol = rs[k].symbol
                      /\ bl[rs[k].cl_ord_id].side = rs[k].side
    BY DEF TradesMatch
  <2>1. rs[k] \in ExecutionReports /\ rs[k].cl_ord_id \in OrderIds
    <3>1. rs \in Seq(ExecutionReports)
      BY <1>1
    <3>2. rs[k] \in ExecutionReports
      BY <3>1
    <3> QED BY <3>2 DEF ExecutionReports
  <2>2. /\ book[rs[k].cl_ord_id].state # "None" /\ book[rs[k].cl_ord_id].symbol = rs[k].symbol
        /\ book[rs[k].cl_ord_id].side = rs[k].side
    <3>1. CASE k \in 1..Len(inbound)
      BY <1>1, <3>1 DEF Reconciles, TradesMatch
    <3>2. CASE k = Len(inbound) + 1
      BY <1>1, <3>2
    <3> QED BY <1>1, <3>1, <3>2
  <2> HIDE DEF rs
  <2> QED BY <2>1, <2>2 DEF bl
<1>6. UnseenUntraded(bl)
  <2> SUFFICES ASSUME NEW id \in OrderIds, bl[id].state = "None" PROVE bl[id].filled = 0
    BY DEF UnseenUntraded
  <2>1. book[id].state = "None" /\ book[id].filled = 0
    BY DEF bl, Reconciles, UnseenUntraded
  <2>2. r.cl_ord_id = id => r.last_shares = 0
    BY <1>2, <2>1
  <2> QED BY <1>2, <2>1, <2>2 DEF bl
<1> QED BY <1>1, <1>4, <1>5, <1>6 DEF Reconciles, bl

(* Nothing is queued for an order the exchange has not seen. *)
LEMMA UnseenUnreported ==
  ASSUME NEW bk, NEW oid, bk[oid].state = "None", NEW rs \in Seq(ExecutionReports),
         TradesMatch(bk, rs)
  PROVE  QueuedFills(rs, oid) = 0
<1> DEFINE v == ReportShares(rs, oid)
<1>1. v \in Seq(Int) /\ QueuedFills(rs, oid) = SumOf(v)
  BY QueuedFillsIsSum
<1>2. \A k \in 1..Len(v) : v[k] = 0
  <2>1. Len(v) = Len(rs) /\ \A k \in 1..Len(rs) : v[k] = IF rs[k].cl_ord_id = oid THEN rs[k].last_shares ELSE 0
    BY DEF ReportShares
  <2>2. \A k \in 1..Len(rs) : rs[k].last_shares \in Nat
    <3>1. \A k \in 1..Len(rs) : rs[k] \in ExecutionReports
      OBVIOUS
    <3> QED BY <3>1 DEF ExecutionReports
  <2> HIDE DEF v
  <2> QED BY <2>1, <2>2 DEF TradesMatch
<1> HIDE DEF v
<1> QED BY <1>1, <1>2, SumZero

(* Nothing has no side. *)
LEMMA SignedZero ==
  ASSUME NEW side
  PROVE  Signed(side, 0) = 0
<1> DEFINE q == 0
<1>1. q \in Int /\ q <= 0 /\ q >= 0
  OBVIOUS
<1> HIDE DEF q
<1>2. -q <= 0 /\ -q >= 0 /\ -q \in Int
  BY <1>1
<1>3. q = 0 /\ -q = 0
  BY <1>1, <1>2
<1>4. Signed(side, q) = 0
  BY <1>3 DEF Signed
<1> QED BY <1>4 DEF q

(* An order the exchange accepts starts with nothing traded. *)
LEMMA AcceptReconciles ==
  ASSUME IsFiniteSet(OrderIds), IndInv, IndInv', Reconciles, AcceptOrder,
         IsFiniteSet(Symbols), Cardinality(Symbols) <= MaxSymbols
  PROVE  Reconciles'
<1> DEFINE o == Head(outbound)
           x == o.cl_ord_id
           r == Report("New", x, o.symbol, o.side, 0, 0)
           bl == book'
           u == Untracked
           ts == Append(u, r)
           b == [ state |-> "Live", symbol |-> o.symbol, side |-> o.side, qty |-> o.order_qty,
                  filled |-> 0 ]
<1>1. /\ outbound # << >> /\ inbound' = Append(inbound, r) /\ UNCHANGED <<positions, io>>
      /\ book[x].state = "None" /\ bl = [book EXCEPT ![x] = b]
  BY DEF AcceptOrder
<1>2. x \in OrderIds /\ o.symbol \in Symbols /\ o.side \in Sides
  BY <1>1, OrdersTail
<1>3. "New" \in ExecTypes /\ 0 \in Nat /\ (0 > 0 <=> "New" \in {"PartialFill", "Fill"})
  BY DEF ExecTypes
<1>4. b.filled = 0 /\ b.state = "Live"
  OBVIOUS
<1> HIDE DEF o, x, b
<1>5. r \in ExecutionReports /\ r.last_shares = 0
  <2>1. inbound' = Append(inbound, Report("New", x, o.symbol, o.side, 0, 0))
    BY <1>1
  <2> QED BY <1>2, <1>3, <2>1, ReportSent
<1>6. /\ inbound \in Seq(ExecutionReports) /\ u \in Seq(ExecutionReports) /\ book \in Books
      /\ Untracked' = ts
      /\ \A k \in 1..Len(u) : \E j \in 1..Len(inbound) : u[k] = inbound[j]
  <2> HIDE DEF r
  <2> QED BY <1>1, UntrackedReports DEF io
<1>7. bl \in Books
  BY DEF IndInv, TypeOK, Books, BookEntry
<1> HIDE DEF r, u, bl
<1>8. ts \in Seq(ExecutionReports)
  BY <1>5, <1>6
<1>9. \A id \in OrderIds : QueuedFills(ts, id) = QueuedFills(u, id) /\ QueuedFills(u, id) \in Nat
  <2> SUFFICES ASSUME NEW id \in OrderIds
               PROVE  QueuedFills(ts, id) = QueuedFills(u, id) /\ QueuedFills(u, id) \in Nat
    OBVIOUS
  <2> DEFINE q == QueuedFills(u, id)
  <2>1. q \in Nat
    BY <1>6, QueuedFillsIsSum
  <2>2. QueuedFills(ts, id) = q + IF r.cl_ord_id = id THEN r.last_shares ELSE 0
    BY <1>5, <1>6, QueuedFillsAppend
  <2> HIDE DEF q, ts
  <2>3. QueuedFills(ts, id) = q
    BY <1>5, <2>1, <2>2
  <2> QED BY <2>1, <2>3 DEF q
<1> HIDE DEF ts
<1>10. QueuedFills(u, x) = 0
  <2>1. TradesMatch(book, u)
    BY <1>6 DEF Reconciles, TradesMatch
  <2> QED BY <1>1, <1>6, <2>1, UnseenUnreported
<1>11. \A id \in OrderIds : id # x => bl[id] = book[id]
  BY <1>1, <1>6 DEF Books
<1>12. bl[x] = b /\ book[x].filled = 0
  BY <1>1, <1>2, <1>6 DEF Books, Reconciles, UnseenUntraded
<1>13. Reconciled(positions, bl, ts)
  <2>1. \A id \in OrderIds : /\ SharesOf(bl, ts)[id] = Signed(bl[id].side, bl[id].filled - QueuedFills(ts, id))
                             /\ SharesOf(book, u)[id] = Signed(book[id].side, book[id].filled - QueuedFills(u, id))
    BY DEF SharesOf
  <2>2. \A id \in OrderIds \ {x} : /\ bl[id].symbol = book[id].symbol
                                   /\ SharesOf(bl, ts)[id] = SharesOf(book, u)[id]
    BY <1>9, <1>11, <2>1
  <2>3. SharesOf(bl, ts)[x] = 0 /\ SharesOf(book, u)[x] = 0
    <3>1. Signed(bl[x].side, 0) = 0 /\ Signed(book[x].side, 0) = 0
      BY SignedZero
    <3>2. bl[x].filled - QueuedFills(ts, x) = 0 /\ book[x].filled - QueuedFills(u, x) = 0
      BY <1>2, <1>4, <1>9, <1>10, <1>12
    <3> QED BY <1>2, <2>1, <3>1, <3>2
  <2>4. \A sym \in Symbols : Net(positions, sym) \in Int
    BY NetOfSlot DEF IndInv, TypeOK, Reconciles
  <2>5. \A sym \in Symbols :
          /\ Net(positions, sym) \in Int
          /\ Net(positions, sym) - (IF bl[x].symbol = sym THEN SharesOf(bl, ts)[x] ELSE 0)
               = Net(positions, sym) - (IF book[x].symbol = sym THEN SharesOf(book, u)[x] ELSE 0)
          /\ Net(positions, sym) \in Int
    BY <2>3, <2>4
  <2>6. Reconciled(positions, book, u)
    BY DEF Reconciles, u
  <2> QED BY <1>2, <1>6, <1>7, <1>8, <2>2, <2>5, <2>6, ReconciledMoves
<1>14. TradesMatch(bl, Append(inbound, r))
  <2> DEFINE rs == Append(inbound, r)
  <2>1. rs \in Seq(ExecutionReports)
    BY <1>5, <1>6
  <2> SUFFICES ASSUME NEW k \in 1..Len(rs), rs[k].last_shares > 0
               PROVE  /\ bl[rs[k].cl_ord_id].state # "None"
                      /\ bl[rs[k].cl_ord_id].symbol = rs[k].symbol
                      /\ bl[rs[k].cl_ord_id].side = rs[k].side
    BY DEF TradesMatch
  <2>2. rs[k] \in ExecutionReports
    BY <2>1
  <2>3. rs[k].cl_ord_id \in OrderIds
    BY <2>2 DEF ExecutionReports
  <2>4. k \in 1..Len(inbound) /\ rs[k] = inbound[k]
    BY <1>5, <1>6
  <2> HIDE DEF rs
  <2>5. /\ book[rs[k].cl_ord_id].state # "None" /\ book[rs[k].cl_ord_id].symbol = rs[k].symbol
        /\ book[rs[k].cl_ord_id].side = rs[k].side
    BY <2>4 DEF Reconciles, TradesMatch
  <2>6. rs[k].cl_ord_id # x
    BY <1>1, <2>5
  <2> QED BY <1>11, <2>3, <2>5, <2>6
<1>15. UnseenUntraded(bl)
  BY <1>4, <1>11, <1>12 DEF Reconciles, UnseenUntraded
<1> QED BY <1>1, <1>6, <1>13, <1>14, <1>15 DEF Reconciles, bl

(* The other steps of the exchange. *)
LEMMA ExchangeReconciles ==
  ASSUME IsFiniteSet(OrderIds), IndInv, IndInv', Reconciles, Exchange,
         IsFiniteSet(Symbols), Cardinality(Symbols) <= MaxSymbols
  PROVE  Reconciles'
<1> DEFINE o == Head(outbound)
<1>1. /\ book \in [OrderIds -> BookEntry] /\ book' \in Books
      /\ \A id \in OrderIds : book[id].filled \in Nat /\ book[id] \in BookEntry
  BY DEF IndInv, TypeOK, BookEntry, Books
<1>2. CASE RefuseOrder
  <2> DEFINE r == Report("Rejected", o.cl_ord_id, o.symbol, o.side, 0, 0)
  <2>1. /\ outbound # << >> /\ inbound' = Append(inbound, r) /\ UNCHANGED <<positions, io>>
        /\ book' = book
    BY <1>2 DEF RefuseOrder
  <2>2. o.cl_ord_id \in OrderIds /\ o.symbol \in Symbols /\ o.side \in Sides
    BY <2>1, OrdersTail
  <2>3. "Rejected" \in ExecTypes /\ 0 \in Nat /\ (0 > 0 <=> "Rejected" \in {"PartialFill", "Fill"})
    BY DEF ExecTypes
  <2> HIDE DEF o
  <2>4. r \in ExecutionReports /\ r.last_shares = 0
    BY <2>2, <2>3 DEF Report, ExecutionReports
  <2> HIDE DEF r
  <2>5. \A id \in OrderIds :
           /\ book'[id].symbol = book[id].symbol /\ book'[id].side = book[id].side
           /\ book'[id].filled = book[id].filled + IF r.cl_ord_id = id THEN r.last_shares ELSE 0
           /\ book'[id].state = "None" <=> book[id].state = "None"
    BY <1>1, <2>1, <2>4
  <2>6. ~(r.last_shares > 0)
    BY <2>4
  <2> QED BY <1>1, <2>1, <2>4, <2>5, <2>6, ReportReconciles
<1>3. ASSUME NEW oid \in OrderIds, CancelOrder(oid) \/ ExpireOrder(oid) PROVE Reconciles'
  <2>0. PICK st, xt : Ends(oid, st, xt)
    BY <1>3, OrderEnds
  <2> DEFINE x == book[oid]
             r == Report(xt, oid, x.symbol, x.side, 0, 0)
  <2>1. /\ x.state = "Live" /\ inbound' = Append(inbound, r) /\ UNCHANGED <<positions, io>>
        /\ book' = [book EXCEPT ![oid].state = st]
    BY <2>0 DEF Ends
  <2>2. x.symbol \in Symbols /\ x.side \in Sides /\ x \in BookEntry
    BY <1>1 DEF BookEntry
  <2>3. xt \in ExecTypes /\ 0 \in Nat /\ (0 > 0 <=> xt \in {"PartialFill", "Fill"})
    BY <2>0 DEF ExecTypes, Ends
  <2>4. \A id \in OrderIds : /\ book'[id].symbol = book[id].symbol /\ book'[id].side = book[id].side
                             /\ book'[id].filled = book[id].filled
                             /\ book'[id].state = "None" <=> book[id].state = "None"
    BY <1>1, <2>0, <2>1, <2>2 DEF BookEntry, Ends
  <2> HIDE DEF x
  <2>5. r \in ExecutionReports /\ r.last_shares = 0
    BY <2>2, <2>3 DEF Report, ExecutionReports
  <2> HIDE DEF r
  <2>6. \A id \in OrderIds :
           /\ book'[id].symbol = book[id].symbol /\ book'[id].side = book[id].side
           /\ book'[id].filled = book[id].filled + IF r.cl_ord_id = id THEN r.last_shares ELSE 0
           /\ book'[id].state = "None" <=> book[id].state = "None"
    BY <1>1, <2>4, <2>5
  <2>7. ~(r.last_shares > 0)
    BY <2>5
  <2> QED BY <1>1, <2>1, <2>5, <2>6, <2>7, ReportReconciles
<1>4. ASSUME NEW oid \in OrderIds, NEW qty \in Quantities \ {0}, NEW px \in Prices,
             Trade(oid, qty, px)
      PROVE  Reconciles'
  <2> DEFINE x == book[oid]
             done == x.filled + qty = x.qty
             type == IF done THEN "Fill" ELSE "PartialFill"
             st == IF done THEN "Filled" ELSE "Live"
             n == x.filled + qty
             r == Report(type, oid, x.symbol, x.side, qty, px)
  <2>1. /\ x.state = "Live" /\ inbound' = Append(inbound, r) /\ UNCHANGED <<positions, io>>
        /\ book' = [book EXCEPT ![oid].state = st, ![oid].filled = n]
    BY <1>4 DEF Trade, Tell
  <2>2. x.symbol \in Symbols /\ x.side \in Sides /\ x \in BookEntry
    BY <1>1 DEF BookEntry
  <2>3. /\ qty \in Nat /\ qty > 0 /\ px \in Nat /\ st # "None"
        /\ type \in ExecTypes /\ type \in {"PartialFill", "Fill"}
    BY QuantitiesAssumption, GatewayAssumption DEF ExecTypes
  <2> HIDE DEF type, st, n
  <2>4. \A id \in OrderIds : /\ book'[id].symbol = book[id].symbol /\ book'[id].side = book[id].side
                             /\ book'[id].filled = IF id = oid THEN n ELSE book[id].filled
                             /\ book'[id].state = "None" <=> book[id].state = "None"
    BY <1>1, <2>1, <2>2, <2>3 DEF BookEntry
  <2>5. n = book[oid].filled + qty /\ book[oid].state # "None" /\ x = book[oid]
    BY <2>1 DEF n
  <2> HIDE DEF x
  <2>6. /\ r \in ExecutionReports /\ r.last_shares = qty /\ r.cl_ord_id = oid
        /\ r.symbol = x.symbol /\ r.side = x.side
    BY <2>1, <2>2, <2>3, ReportSent
  <2> HIDE DEF r
  <2>7. \A id \in OrderIds :
           /\ book'[id].symbol = book[id].symbol /\ book'[id].side = book[id].side
           /\ book'[id].filled = book[id].filled + IF r.cl_ord_id = id THEN r.last_shares ELSE 0
           /\ book'[id].state = "None" <=> book[id].state = "None"
    BY <1>1, <2>4, <2>5, <2>6
  <2>8. /\ book[r.cl_ord_id].state # "None" /\ book[r.cl_ord_id].symbol = r.symbol
        /\ book[r.cl_ord_id].side = r.side
    BY <2>5, <2>6
  <2> QED BY <1>1, <2>1, <2>6, <2>7, <2>8, ReportReconciles
<1> QED BY <1>2, <1>3, <1>4, AcceptReconciles DEF Exchange

(* A report that is no event has no shares to book. *)
LEMMA DropReconciles ==
  ASSUME IsFiniteSet(OrderIds), IndInv, Reconciles, DropReport
  PROVE  Reconciles'
<1> DEFINE r == Head(inbound)
           t == Tail(inbound)
<1>1. /\ ipc = "idle" /\ ipc' = ipc /\ positions' = positions /\ book' = book /\ inbound # << >>
      /\ inbound' = t /\ FromExecutionReport(r) = {}
  BY DEF DropReport, Deliverable, io
<1>2. /\ inbound \in Seq(ExecutionReports) /\ r \in ExecutionReports /\ ReportOK(r)
      /\ t \in Seq(ExecutionReports) /\ book \in Books
  <2>1. inbound \in Seq(ExecutionReports) /\ \A k \in 1..Len(inbound) : ReportOK(inbound[k])
    BY DEF IndInv, TypeOK
  <2> QED BY <1>1, <2>1, UntrackedReports
<1>3. Untracked = inbound /\ Untracked' = t
  BY <1>1 DEF Untracked
<1>4. TradesMatch(book, t)
  BY <1>1, <1>2, TradesMatchTail DEF Reconciles
<1>5. r.last_shares = 0
  <2> HIDE DEF r
  <2>1. r.exec_type \notin {"PartialFill", "Fill"}
    BY <1>1, TranslatedEvents
  <2>2. r.last_shares \in Nat
    BY <1>2 DEF ExecutionReports
  <2> QED BY <1>2, <2>1, <2>2 DEF ReportOK
<1>6. \A oid \in OrderIds : QueuedFills(t, oid) = QueuedFills(inbound, oid)
  <2> SUFFICES ASSUME NEW oid \in OrderIds PROVE QueuedFills(t, oid) = QueuedFills(inbound, oid)
    OBVIOUS
  <2>1. QueuedFills(inbound, oid) = QueuedFills(t, oid) + IF r.cl_ord_id = oid THEN r.last_shares ELSE 0
    BY <1>1, <1>2, QueuedFillsTail
  <2> HIDE DEF t, r
  <2>2. QueuedFills(t, oid) \in Nat
    BY <1>2, QueuedFillsIsSum
  <2> QED BY <1>5, <2>1, <2>2
<1> HIDE DEF t, r
<1>7. Reconciled(positions, book, t)
  <2>1. Reconciled(positions, book, inbound)
    BY <1>3 DEF Reconciles
  <2> QED BY <1>2, <1>6, <2>1, ReconciledStays
<1> QED BY <1>1, <1>3, <1>4, <1>7 DEF Reconciles

(* apply_event() books the shares of the report at hand on its symbol. *)
LEMMA TrackReconciles ==
  ASSUME IsFiniteSet(OrderIds), IsFiniteSet(Symbols), Cardinality(Symbols) <= MaxSymbols,
         IndInv, Reconciles, TrackReport
  PROVE  Reconciles'
<1> DEFINE r == Head(inbound)
           t == Tail(inbound)
           e == ievt
           qs == BookPosition(positions, e)
           x == r.cl_ord_id
<1>1. /\ ipc = "logged" /\ ipc' = "tracked" /\ positions' = qs /\ book' = book
      /\ inbound # << >> /\ inbound' = inbound /\ e \in FromExecutionReport(r)
  BY DEF TrackReport, ApplyEvent, exchange, IndInv, ReportAtHand
<1>2. /\ inbound \in Seq(ExecutionReports) /\ r \in ExecutionReports /\ ReportOK(r) /\ r = inbound[1]
      /\ 1 \in 1..Len(inbound) /\ t \in Seq(ExecutionReports) /\ book \in Books
  <2>1. inbound \in Seq(ExecutionReports) /\ \A k \in 1..Len(inbound) : ReportOK(inbound[k])
    BY DEF IndInv, TypeOK
  <2> QED BY <1>1, <2>1, UntrackedReports
<1>3. Untracked = inbound /\ Untracked' = t
  BY <1>1 DEF Untracked
<1>4. positions \in PositionTable /\ OneSlotEach(positions) /\ positions \in Seq(Position)
  BY DEF IndInv, TypeOK, PositionTable, Reconciles
<1>5. r.last_shares > 0 => /\ book[x].state # "None" /\ book[x].symbol = r.symbol
                           /\ book[x].side = r.side
  BY <1>2 DEF Reconciles, TradesMatch
<1>6. \A oid \in OrderIds : QueuedFills(inbound, oid) =
                              QueuedFills(t, oid) + IF x = oid THEN r.last_shares ELSE 0
  BY <1>1, <1>2, QueuedFillsTail
<1> HIDE DEF r, t, e
<1>7. /\ e \in FillEvents /\ e.type = EventTypeOf[r.exec_type]
      /\ r.exec_type \in {"PartialFill", "Fill", "Canceled", "Rejected"}
      /\ e.order_id = x /\ e.symbol = r.symbol /\ e.side = r.side /\ e.fill_qty = r.last_shares
  BY <1>1, <1>2, ReportEvent
<1>8. /\ r.last_shares \in Nat /\ x \in OrderIds /\ r.symbol \in Symbols /\ r.side \in Sides
      /\ \A oid \in OrderIds : QueuedFills(t, oid) \in Nat /\ book[oid].filled \in Nat
  <2>1. \A oid \in OrderIds : QueuedFills(t, oid) \in Nat
    BY <1>2, QueuedFillsIsSum
  <2> QED BY <1>2, <2>1 DEF ExecutionReports, Books, BookEntry
<1>9. IsFill(e) <=> r.last_shares > 0
  <2>1. r.exec_type \in {"PartialFill", "Fill"} <=> IsFill(e)
    BY <1>7, EventTypeValues DEF IsFill
  <2> QED BY <1>2, <2>1 DEF ReportOK
<1>10. OneSlotEach(qs)
  BY <1>4, <1>7, BookPositionSlots
<1> HIDE DEF x
<1>11. Reconciled(qs, book, t)
  <2> DEFINE n == r.last_shares
             d == Signed(r.side, n)
             f == SharesOf(book, inbound)
             g == SharesOf(book, t)
  <2>1. Reconciled(positions, book, inbound)
    BY <1>3 DEF Reconciles
  <2>2. CASE n > 0
    <3>1. \A oid \in OrderIds : oid # x => g[oid] = f[oid]
      <4> SUFFICES ASSUME NEW oid \in OrderIds, oid # x PROVE g[oid] = f[oid]
        OBVIOUS
      <4>1. QueuedFills(inbound, oid) = QueuedFills(t, oid)
        BY <1>6, <1>8
      <4> QED BY <4>1 DEF SharesOf
    <3>2. /\ g[x] = f[x] + d /\ f[x] \in Int /\ d \in Int
      <4> DEFINE c == book[x].filled
                 q == QueuedFills(t, x)
      <4>1. f[x] = Signed(r.side, c - (q + n)) /\ g[x] = Signed(r.side, c - q)
        BY <1>5, <1>6, <1>8, <2>2 DEF SharesOf
      <4>2. c \in Nat /\ q \in Nat /\ n \in Nat
        BY <1>8
      <4> HIDE DEF c, q, n, f, g
      <4> QED BY <1>8, <4>1, <4>2 DEF Signed, Sides
    <3>3. ASSUME NEW sym \in Symbols
          PROVE  /\ Net(positions, sym) \in Int /\ Net(qs, sym) \in Int
                 /\ Net(qs, sym) - (IF book[x].symbol = sym THEN g[x] ELSE 0)
                      = Net(positions, sym) - (IF book[x].symbol = sym THEN f[x] ELSE 0)
      <4>1. Net(positions, sym) \in Int
        BY <1>4, NetOfSlot
      <4>2. Net(qs, sym) = Net(positions, sym) + IF IsFill(e) /\ e.symbol = sym THEN Signed(e.side, e.fill_qty) ELSE 0
        BY <1>4, <1>7, NetMoves
      <4>3. Net(qs, sym) = Net(positions, sym) + IF book[x].symbol = sym THEN d ELSE 0
        BY <1>5, <1>7, <1>9, <2>2, <4>2
      <4> HIDE DEF f, g, d, qs
      <4> QED BY <3>2, <4>1, <4>3
    <3>4. /\ \A oid \in OrderIds \ {x} : book[oid].symbol = book[oid].symbol
                                         /\ SharesOf(book, t)[oid] = SharesOf(book, inbound)[oid]
          /\ \A sym \in Symbols :
               /\ Net(positions, sym) \in Int
               /\ Net(qs, sym) - (IF book[x].symbol = sym THEN SharesOf(book, t)[x] ELSE 0)
                    = Net(positions, sym) - (IF book[x].symbol = sym THEN SharesOf(book, inbound)[x] ELSE 0)
               /\ Net(qs, sym) \in Int
      BY <3>1, <3>3
    <3> HIDE DEF f, g, qs
    <3> QED BY <1>2, <1>8, <2>1, <3>4, ReconciledMoves
  <2>3. CASE ~(n > 0)
    <3>1. n = 0
      BY <1>8, <2>3
    <3>2. qs = positions
      <4>1. ~IsFill(e)
        BY <1>9, <2>3
      <4> QED BY <1>4, <1>7, <4>1, BookPositionSlots
    <3>3. \A oid \in OrderIds : QueuedFills(t, oid) = QueuedFills(inbound, oid)
      BY <1>6, <1>8, <3>1
    <3>4. Reconciled(positions, book, t)
      BY <1>2, <2>1, <3>3, ReconciledStays
    <3> QED BY <3>2, <3>4
  <2> QED BY <2>2, <2>3
<1> QED BY <1>1, <1>3, <1>10, <1>11 DEF Reconciles

(* All steps of a process that lives, in a session that no logon resets. *)
LEMMA NextReconciles ==
  ASSUME ~ResetOnLogon, IsFiniteSet(OrderIds), IsFiniteSet(Symbols),
         Cardinality(Symbols) <= MaxSymbols,
         IndInv, IndInv', up, up', Reconciles, [Next]_vars
  PROVE  Reconciles'
<1>1. CASE Strategy
  <2>1. /\ positions' = positions /\ book' = book /\ inbound' = inbound /\ ipc' = ipc
    BY <1>1 DEF Strategy, SendOrder, CheckRisk, RecordOrder, ProjectOrder, TransmitOrder, io, exchange
  <2> QED BY <2>1, ReconcilesStays DEF Untracked
<1>2. CASE IOThread
  <2>1. CASE Logon \/ Logout \/ TakeReport \/ LogReport
    <3>1. /\ positions' = positions /\ book' = book /\ inbound' = inbound
          /\ ipc # "tracked" /\ ipc' # "tracked"
      BY <2>1 DEF Logon, Logout, TakeReport, LogReport, Deliverable, io, exchange
    <3> QED BY <3>1, ReconcilesStays DEF Untracked
  <2>2. CASE ProjectReport
    <3>1. /\ positions' = positions /\ book' = book /\ inbound' = Tail(inbound) /\ inbound # << >>
          /\ ipc = "tracked" /\ ipc' = "idle"
      BY <2>2 DEF ProjectReport, IndInv, ReportAtHand
    <3>2. Untracked' = Untracked
      BY <3>1 DEF Untracked
    <3>3. TradesMatch(book, Tail(inbound))
      BY <3>1, UntrackedReports, TradesMatchTail DEF Reconciles
    <3> QED BY <3>1, <3>2, <3>3 DEF Reconciles
  <2> QED BY <1>2, <2>1, <2>2, DropReconciles, TrackReconciles DEF IOThread
<1>3. CASE Process
  BY <1>3 DEF Process, Crash, TerminateLogFull, Restart, Down
<1>4. CASE Exchange
  BY <1>4, ExchangeReconciles
<1>5. CASE UNCHANGED vars
  BY <1>5, ReconcilesStays DEF vars, Untracked, io, exchange
<1> QED BY <1>1, <1>2, <1>3, <1>4, <1>5 DEF Next

(* At the start nothing has traded. *)
LEMMA InitReconciles ==
  ASSUME IsFiniteSet(OrderIds)
  PROVE  Init => Reconciles
<1> SUFFICES ASSUME Init PROVE Reconciles
  OBVIOUS
<1>1. /\ positions = << >> /\ inbound = << >> /\ ipc = "idle"
      /\ \A oid \in OrderIds : book[oid].filled = 0
  BY DEF Init, InitPositions
<1>2. IndInv
  BY InitIndInv
<1>3. /\ OneSlotEach(positions) /\ TradesMatch(book, inbound) /\ UnseenUntraded(book)
      /\ Untracked = inbound
  BY <1>1 DEF OneSlotEach, TradesMatch, UnseenUntraded, Untracked
<1>4. inbound \in Seq(ExecutionReports) /\ book \in Books /\ positions \in Seq(Position)
  BY <1>2, UntrackedReports DEF IndInv, TypeOK
<1>5. ASSUME NEW sym \in Symbols
      PROVE  Net(positions, sym) = SetSum(SharesOf(book, inbound), OrdersOf(book, sym))
  <2> DEFINE S == OrdersOf(book, sym)
             f == SharesOf(book, inbound)
  <2>1. Net(positions, sym) = 0
    <3>1. \A i \in 1..Len(positions) : positions[i].symbol # sym
      BY <1>1
    <3> QED BY <1>3, <1>4, <3>1, NetOfSlot
  <2>2. IsFiniteSet(S) /\ S \subseteq OrderIds
    BY <1>4, SharesType
  <2>3. \A oid \in S : f[oid] = 0
    <3> SUFFICES ASSUME NEW oid \in S PROVE f[oid] = 0
      OBVIOUS
    <3>1. QueuedFills(inbound, oid) = 0
      <4> DEFINE v == ReportShares(inbound, oid)
      <4>1. v \in Seq(Int) /\ QueuedFills(inbound, oid) = SumOf(v)
        BY <1>4, QueuedFillsIsSum
      <4>2. Len(v) = 0 /\ \A i \in 1..Len(v) : v[i] = 0
        BY <1>1 DEF ReportShares
      <4> HIDE DEF v
      <4> QED BY <4>1, <4>2, SumZero
    <3>2. oid \in OrderIds /\ book[oid].filled = 0
      BY <1>1, <2>2
    <3>3. f[oid] = Signed(book[oid].side, 0)
      BY <3>1, <3>2 DEF SharesOf
    <3> QED BY <3>3, SignedZero
  <2> HIDE DEF S, f
  <2>4. SetSum(f, S) = 0
    BY <2>2, <2>3, SetSumZero
  <2> QED BY <2>1, <2>4 DEF S, f
<1> QED BY <1>3, <1>5 DEF Reconciles, Reconciled

(* As long as the process lives, in a session that no logon resets and     *)
(* with a slot for every symbol that trades, the position is what the      *)
(* exchange traded, up to the reports under way: no fill is booked twice,  *)
(* on the wrong side or not at all, whatever the threads interleave.       *)
THEOREM GatewayFillsBookedOnce ==
  ASSUME ~ResetOnLogon, IsFiniteSet(OrderIds), IsFiniteSet(Symbols),
         Cardinality(Symbols) <= MaxSymbols
  PROVE  Spec /\ []up => []FillsBookedOnce
<1>1. Init => Reconciles
  BY InitReconciles
<1>2. IndInv /\ IndInv' /\ up /\ up' /\ Reconciles /\ [Next]_vars => Reconciles'
  BY NextReconciles
<1>3. IndInv /\ Reconciles => FillsBookedOnce
  <2> SUFFICES ASSUME IndInv, Reconciles, NEW sym \in Symbols
               PROVE  NetQty(GetPosition(positions, sym)) =
                        MapThenSumSet(LAMBDA oid : Signed(book[oid].side,
                                        book[oid].filled - QueuedFills(Untracked, oid)),
                                      OrdersOf(book, sym))
    BY DEF FillsBookedOnce, OrdersOf
  <2> DEFINE u == Untracked
             b == book
  <2>1. u \in Seq(ExecutionReports) /\ b \in Books
    BY UntrackedReports
  <2>2. Net(positions, sym) = SetSum(SharesOf(b, u), OrdersOf(b, sym))
    BY DEF Reconciles, Reconciled
  <2> HIDE DEF u, b
  <2>3. MapThenSumSet(LAMBDA oid : Signed(b[oid].side, b[oid].filled - QueuedFills(u, oid)),
                      OrdersOf(b, sym)) = SetSum(SharesOf(b, u), OrdersOf(b, sym))
    BY <2>1, SharesSum
  <2> QED BY <2>2, <2>3 DEF u, b, Net
<1> QED BY <1>1, <1>2, <1>3, GatewayInductive, PTL DEF Spec
-----------------------------------------------------------------------------
(***************************************************************************)
(* The orders the exchange has, as the order manager shows them.           *)
(***************************************************************************)

(* The slot find() gives for the order is open and has at most n shares.   *)
OpenSlot(os, oid, sym, side, qty, n) ==
  LET i == FindOrder(os, oid)
  IN  /\ i # 0 /\ IsOpen(os[i])
      /\ os[i].symbol = sym /\ os[i].side = side /\ os[i].original_qty = qty
      /\ os[i].filled_qty <= n

(* The orders of send_order() have slots, those of flatten() have none. *)
KnownSlot(os, oid, sym, side, qty, n) == oid[1] = "ORD" => OpenSlot(os, oid, sym, side, qty, n)

(* No report is about the id. *)
Unreported(rs, x) == \A k \in 1..Len(rs) : rs[k].cl_ord_id # x

(* An order that is on its way: open, and nothing is known of it yet. *)
Awaited(bk, rs, os, oid, sym, side, qty) ==
  /\ bk[oid].state = "None" /\ qty \in Nat \ {0}
  /\ Unreported(rs, oid)
  /\ KnownSlot(os, oid, sym, side, qty, 0)

(* A message that is on its way: its id is new to the exchange. *)
OnTheWay(bk, rs, os, o) ==
  /\ bk[o.cl_ord_id].state = "None" /\ Unreported(rs, o.cl_ord_id)
  /\ o.msg_type = "NewOrderSingle" =>
       Awaited(bk, rs, os, o.cl_ord_id, o.symbol, o.side, o.order_qty)

(* An order that is live, or of whose end the gateway takes no notice:     *)
(* open, with no more shares than the reports that are not under way any   *)
(* more have told, and no report that closes it under way.                 *)
Covered(bk, rs, os, oid) ==
  bk[oid].state \in {"Live", "Expired"} =>
    /\ bk[oid].filled < bk[oid].qty
    /\ \A k \in 1..Len(rs) :
         rs[k].cl_ord_id = oid => rs[k].exec_type \notin {"Fill", "Canceled", "Rejected"}
    /\ KnownSlot(os, oid, bk[oid].symbol, bk[oid].side, bk[oid].qty,
                 bk[oid].filled - QueuedFills(rs, oid))

(* How many ids have reached the order manager or were given up before. *)
Placed == IF spc = "logged" THEN order_counter - 1 ELSE order_counter

OrdersKnown ==
  /\ Len(orders) <= Placed
  /\ \A i \in 1..Len(orders) : orders[i].order_id[1] = "ORD" /\ Issued(orders[i].order_id, Placed)
  /\ spc = "booked" => Awaited(book, inbound, orders, req.order_id, req.symbol, req.side, req.qty)
  /\ \A k \in 1..Len(outbound) : OnTheWay(book, inbound, orders, outbound[k])
  /\ \A j, k \in 1..Len(outbound) : outbound[j].cl_ord_id = outbound[k].cl_ord_id => j = k
  /\ \A oid \in OrderIds : Covered(book, inbound, orders, oid)

(* As long as a slot is left for every id that was given out. *)
SlotForAll == OneLife /\ order_counter <= MaxOrders

(* An event of another order, and a laxer bound. *)
LEMMA OpenSlotOther ==
  ASSUME NEW os \in OrderTable, NEW e \in Events, NEW oid, oid # e.order_id, NEW sym, NEW side,
         NEW qty, NEW n, OpenSlot(os, oid, sym, side, qty, n)
  PROVE  OpenSlot(BookOrder(os, e), oid, sym, side, qty, n)
<1> DEFINE i == FindOrder(os, oid)
           bs == BookOrder(os, e)
<1>1. i # 0
  BY DEF OpenSlot
<1>2. FindOrder(bs, oid) = i /\ bs[i] = os[i]
  BY <1>1, BookOrderOther
<1> HIDE DEF bs
<1> QED BY <1>1, <1>2 DEF OpenSlot, bs

(* A bound on the filled shares may be raised. *)
LEMMA OpenSlotMore ==
  ASSUME NEW os \in OrderTable, NEW oid, NEW sym, NEW side, NEW qty, NEW n \in Int, NEW m \in Int,
         n <= m, OpenSlot(os, oid, sym, side, qty, n)
  PROVE  OpenSlot(os, oid, sym, side, qty, m)
<1> DEFINE i == FindOrder(os, oid)
<1>1. os \in Seq(Order)
  BY DEF OrderTable
<1>2. i # 0 /\ os[i].filled_qty <= n
  BY DEF OpenSlot
<1>3. i \in 1..Len(os)
  BY <1>1, <1>2, FindOrderProps
<1> HIDE DEF i
<1>4. os[i].filled_qty \in Int
  <2>1. os[i] \in Order
    BY <1>1, <1>3
  <2> QED BY <2>1 DEF Order
<1>5. os[i].filled_qty <= m
  BY <1>2, <1>4
<1> QED BY <1>5 DEF OpenSlot, i

(* A part of the order is filled: it stays open. *)
LEMMA OpenSlotFill ==
  ASSUME NEW os \in OrderTable, NEW e \in FillEvents, IsFill(e), NEW sym, NEW side,
         NEW qty \in Int, NEW n \in Int, n + e.fill_qty < qty,
         OpenSlot(os, e.order_id, sym, side, qty, n)
  PROVE  OpenSlot(BookOrder(os, e), e.order_id, sym, side, qty, n + e.fill_qty)
<1> DEFINE i == FindOrder(os, e.order_id)
           bs == BookOrder(os, e)
           o == os[i]
           h == HandleKnown(o, e)
<1>1. e \in Events /\ e.type # "NewOrder" /\ e.type # "Amend" /\ e.fill_qty \in Nat
  BY DEF FillEvents, IsFill
<1>2. /\ i # 0 /\ IsOpen(o) /\ o.symbol = sym /\ o.side = side /\ o.original_qty = qty
      /\ o.filled_qty <= n
  BY DEF OpenSlot
<1>3. FindOrder(bs, e.order_id) = i /\ bs[i] = h /\ o \in Order
  BY <1>1, <1>2, BookOrderKnown
<1> HIDE DEF i, bs, o
<1>4. /\ h.symbol = o.symbol /\ h.side = o.side /\ h.original_qty = o.original_qty
      /\ h.filled_qty = o.filled_qty + e.fill_qty
      /\ h.state = IF o.original_qty - (o.filled_qty + e.fill_qty) <= 0
                   THEN "Filled" ELSE "PartiallyFilled"
  <2>1. /\ h.symbol = o.symbol /\ h.side = o.side
        /\ h.filled_qty = IF IsFill(e) THEN o.filled_qty + e.fill_qty ELSE o.filled_qty
        /\ h.original_qty = IF e.type = "Amend" /\ e.qty > 0 THEN e.qty ELSE o.original_qty
        /\ h.state = CASE IsFill(e) -> IF o.original_qty - (o.filled_qty + e.fill_qty) <= 0
                                       THEN "Filled" ELSE "PartiallyFilled"
                       [] e.type = "Cancel" -> "Cancelled"
                       [] e.type = "Reject" -> "Rejected"
                       [] e.type = "Amend"  -> o.state
    BY <1>1, <1>3, HandleKnownFields, Zenon
  <2>2. e.type # "Cancel" /\ e.type # "Reject"
    BY DEF IsFill
  <2> HIDE DEF h
  <2> QED BY <1>1, <2>1, <2>2
<1> HIDE DEF h
<1> DEFINE a == o.filled_qty
           q == e.fill_qty
<1>5. a \in Int /\ q \in Nat /\ a <= n
  BY <1>1, <1>2, <1>3 DEF Order
<1>6. a + q <= n + q /\ ~(qty - (a + q) <= 0)
  <2>1. n + q < qty
    OBVIOUS
  <2> HIDE DEF a, q
  <2> QED BY <1>5, <2>1
<1>7. h.state = "PartiallyFilled" /\ h.filled_qty <= n + e.fill_qty
  BY <1>2, <1>4, <1>6
<1> QED BY <1>2, <1>3, <1>4, <1>7 DEF OpenSlot, IsOpen, i, bs

(* handle_new() opens a slot for an id it has not seen. *)
LEMMA OpenSlotNew ==
  ASSUME NEW os \in OrderTable, NEW e \in Events, e.type = "NewOrder",
         FindOrder(os, e.order_id) = 0, Len(os) < MaxOrders
  PROVE  OpenSlot(BookOrder(os, e), e.order_id, e.symbol, e.side, e.qty, 0)
<1> DEFINE bs == BookOrder(os, e)
           x == NewOrder(e)
<1>1. Len(bs) = Len(os) + 1 /\ bs[Len(bs)] = x /\ FindOrder(bs, e.order_id) = Len(bs)
  BY BookOrderNew
<1>2. Len(os) \in Nat
  BY DEF OrderTable
<1>3. /\ x.symbol = e.symbol /\ x.side = e.side /\ x.original_qty = e.qty
      /\ x.filled_qty = 0 /\ x.state = "Pending"
  BY NewOrderFields
<1> HIDE DEF bs, x
<1>4. Len(bs) # 0
  BY <1>1, <1>2
<1> QED BY <1>1, <1>3, <1>4 DEF OpenSlot, IsOpen, bs

(* Reports that are dropped, or that are about another order. *)
LEMMA CoveredLess ==
  ASSUME NEW bk \in Books, NEW os \in OrderTable, NEW oid \in OrderIds,
         NEW rs \in Seq(ExecutionReports), NEW ts \in Seq(ExecutionReports),
         \A k \in 1..Len(ts) : \E j \in 1..Len(rs) : ts[k] = rs[j],
         QueuedFills(ts, oid) <= QueuedFills(rs, oid),
         Covered(bk, rs, os, oid)
  PROVE  Covered(bk, ts, os, oid)
<1> SUFFICES ASSUME bk[oid].state \in {"Live", "Expired"} PROVE Covered(bk, ts, os, oid)
  BY DEF Covered
<1> DEFINE b == bk[oid]
           q == QueuedFills(rs, oid)
           s == QueuedFills(ts, oid)
<1>1. b.filled \in Nat
  BY DEF Books, BookEntry
<1>2. q \in Nat /\ s \in Nat /\ s <= q
  BY QueuedFillsIsSum
<1>3. /\ b.filled < b.qty
      /\ \A k \in 1..Len(rs) :
           rs[k].cl_ord_id = oid => rs[k].exec_type \notin {"Fill", "Canceled", "Rejected"}
      /\ KnownSlot(os, oid, b.symbol, b.side, b.qty, b.filled - q)
  BY DEF Covered
<1> HIDE DEF b, q, s
<1>4. b.filled - q \in Int /\ b.filled - s \in Int /\ b.filled - q <= b.filled - s
  BY <1>1, <1>2
<1>5. KnownSlot(os, oid, b.symbol, b.side, b.qty, b.filled - s)
  BY <1>3, <1>4, OpenSlotMore DEF KnownSlot
<1>6. \A k \in 1..Len(ts) :
        ts[k].cl_ord_id = oid => ts[k].exec_type \notin {"Fill", "Canceled", "Rejected"}
  BY <1>3
<1> QED BY <1>3, <1>5, <1>6 DEF Covered, b, s

(* A report on another order leaves an order covered. *)
LEMMA CoveredReport ==
  ASSUME NEW bk, NEW bl, NEW os, NEW oid, bl[oid] = bk[oid],
         NEW rs \in Seq(ExecutionReports), NEW r \in ExecutionReports, r.cl_ord_id # oid,
         Covered(bk, rs, os, oid)
  PROVE  Covered(bl, Append(rs, r), os, oid)
<1> DEFINE ts == Append(rs, r)
<1>1. QueuedFills(ts, oid) = QueuedFills(rs, oid)
  <2> DEFINE q == QueuedFills(rs, oid)
  <2>1. q \in Nat
    BY QueuedFillsIsSum
  <2>2. QueuedFills(ts, oid) = q + 0
    BY QueuedFillsAppend
  <2> HIDE DEF q, ts
  <2>3. QueuedFills(ts, oid) = q
    BY <2>1, <2>2
  <2> QED BY <2>3 DEF q
<1>2. \A k \in 1..Len(ts) : ts[k].cl_ord_id = oid => k \in 1..Len(rs) /\ ts[k] = rs[k]
  OBVIOUS
<1> HIDE DEF ts
<1>3. Covered(bl, ts, os, oid)
  BY <1>1, <1>2 DEF Covered
<1> QED BY <1>3 DEF ts

(* A report on another order leaves an order awaited. *)
LEMMA AwaitedReport ==
  ASSUME NEW bk, NEW bl, NEW os, NEW oid, NEW sym, NEW side, NEW qty, bl[oid].state = "None",
         NEW rs \in Seq(ExecutionReports), NEW r \in ExecutionReports, r.cl_ord_id # oid,
         Awaited(bk, rs, os, oid, sym, side, qty)
  PROVE  Awaited(bl, Append(rs, r), os, oid, sym, side, qty)
<1> DEFINE ts == Append(rs, r)
<1>1. \A k \in 1..Len(ts) : (k \in 1..Len(rs) /\ ts[k] = rs[k]) \/ ts[k] = r
  OBVIOUS
<1> HIDE DEF ts
<1>2. Awaited(bl, ts, os, oid, sym, side, qty)
  BY <1>1 DEF Awaited, Unreported
<1> QED BY <1>2 DEF ts

(* A step that touches none of the orders. *)
LEMMA KnownStays ==
  ASSUME IndInv, OrdersKnown, UNCHANGED <<orders, outbound, inbound, book>>,
         order_counter' \in Nat, Placed <= Placed',
         spc' = "booked" => spc = "booked" /\ req' = req
  PROVE  OrdersKnown'
<1>1. Placed \in Int /\ Placed' \in Int /\ Len(orders) \in Nat
  BY DEF IndInv, TypeOK, Placed
<1>2. \A oid : Issued(oid, Placed) => Issued(oid, Placed')
  BY <1>1, IssuedStays
<1>3. /\ Len(orders') <= Placed'
      /\ \A i \in 1..Len(orders') : orders'[i].order_id[1] = "ORD" /\ Issued(orders'[i].order_id, Placed')
  BY <1>1, <1>2 DEF OrdersKnown
<1>4. spc' = "booked" => Awaited(book, inbound, orders, req.order_id, req.symbol, req.side, req.qty)
  BY DEF OrdersKnown
<1>5. (spc = "booked" => Awaited(book, inbound, orders, req.order_id, req.symbol, req.side, req.qty))'
  BY <1>4
<1> QED BY <1>3, <1>5 DEF OrdersKnown

(* What ids say while the order of a call is not yet transmitted. *)
LEMMA RequestIsOther ==
  ASSUME IndInv, IdsIssued, OneLife, spc \in {"logged", "booked"}
  PROVE  /\ \A oid : Issued(oid, order_counter - 1) => oid # req.order_id
         /\ Used = order_counter - 1 /\ order_counter - 1 \in Nat
         /\ req.order_id \in OrderIds /\ book[req.order_id].state = "None"
         /\ \A k \in 1..Len(inbound) : inbound[k].cl_ord_id # req.order_id
         /\ \A k \in 1..Len(outbound) : outbound[k].cl_ord_id # req.order_id
         /\ Issued(req.order_id, order_counter) /\ req.order_id[1] = "ORD"
<1>1. order_counter \in Nat /\ order_counter > 0 /\ req.order_id = OrdId(order_counter - 1)
  BY DEF IndInv, TypeOK, IdsIssued
<1>2. Used = order_counter - 1
  BY DEF Used
<1> DEFINE n == order_counter - 1
<1>3. n \in Nat /\ n < 100000 /\ n < order_counter
  BY <1>1 DEF OneLife
<1>4. \A oid : Issued(oid, n) => oid # OrdId(n)
  <2> HIDE DEF n
  <2> QED BY <1>3, IssuedIsOther
<1>5. req.order_id \in OrderIds
  BY DEF IndInv, RequestOK
<1>6. /\ \A k \in 1..Len(outbound) : Issued(outbound[k].cl_ord_id, n)
      /\ \A k \in 1..Len(inbound) : Issued(inbound[k].cl_ord_id, n)
      /\ \A oid \in OrderIds : book[oid].state # "None" => Issued(oid, n)
  BY <1>2 DEF IdsIssued
<1>7. Issued(req.order_id, order_counter) /\ req.order_id[1] = "ORD"
  BY <1>1, <1>3 DEF Issued, OrdId
<1> HIDE DEF n
<1>8. \A oid : Issued(oid, n) => oid # req.order_id
  BY <1>1, <1>4 DEF n
<1>9. book[req.order_id].state = "None"
  BY <1>5, <1>6, <1>8
<1>10. \A k \in 1..Len(inbound) : inbound[k].cl_ord_id # req.order_id
  BY <1>6, <1>8
<1>11. \A k \in 1..Len(outbound) : outbound[k].cl_ord_id # req.order_id
  BY <1>6, <1>8
<1> QED BY <1>2, <1>3, <1>5, <1>7, <1>8, <1>9, <1>10, <1>11 DEF n

(* The order of a call has no slot before apply_event(), and one is left. *)
LEMMA NoSlotYet ==
  ASSUME IndInv, IdsIssued, SlotForAll, OrdersKnown, spc = "logged"
  PROVE  FindOrder(orders, req.order_id) = 0 /\ Len(orders) < MaxOrders
<1> DEFINE n == order_counter - 1
           f == FindOrder(orders, req.order_id)
<1>1. OneLife /\ order_counter <= MaxOrders /\ order_counter \in Nat /\ MaxOrders \in Nat
  BY MaxOrdersAssumption DEF SlotForAll, IndInv, TypeOK
<1>2. n \in Nat /\ \A oid : Issued(oid, n) => oid # req.order_id
  BY <1>1, RequestIsOther
<1>3. orders \in Seq(Order) /\ Len(orders) \in Nat
  BY DEF IndInv, TypeOK
<1>4. Len(orders) <= n /\ \A i \in 1..Len(orders) : Issued(orders[i].order_id, n)
  BY DEF OrdersKnown, Placed
<1>5. f \in 0..Len(orders) /\ (f # 0 => orders[f].order_id = req.order_id)
  BY <1>3, FindOrderProps
<1> HIDE DEF n, f
<1>6. f \in 1..Len(orders) => orders[f].order_id # req.order_id
  BY <1>2, <1>4
<1>7. f = 0
  BY <1>3, <1>5, <1>6
<1>8. Len(orders) < MaxOrders
  BY <1>1, <1>2, <1>3, <1>4 DEF n
<1> QED BY <1>7, <1>8 DEF f

(* apply_event() of send_order() opens the order of the call. *)
LEMMA ProjectOrderKnown ==
  ASSUME IndInv, IdsIssued, SlotForAll, OrdersKnown, ProjectOrder
  PROVE  OrdersKnown'
<1> DEFINE os == orders
           bs == BookOrder(os, req)
           n == order_counter - 1
<1>1. /\ spc = "logged" /\ spc' = "booked" /\ orders' = bs
      /\ UNCHANGED <<order_counter, req, outbound, inbound, book>>
  BY DEF ProjectOrder, exchange
<1>2. OneLife /\ order_counter <= MaxOrders /\ order_counter \in Nat /\ MaxOrders \in Nat
  BY MaxOrdersAssumption DEF SlotForAll, IndInv, TypeOK
<1>3. /\ \A oid : Issued(oid, n) => oid # req.order_id
      /\ n \in Nat /\ req.order_id \in OrderIds /\ book[req.order_id].state = "None"
      /\ \A k \in 1..Len(inbound) : inbound[k].cl_ord_id # req.order_id
      /\ \A k \in 1..Len(outbound) : outbound[k].cl_ord_id # req.order_id
      /\ Issued(req.order_id, order_counter) /\ req.order_id[1] = "ORD"
  BY <1>1, <1>2, RequestIsOther
<1>4. req \in Events /\ req.type = "NewOrder" /\ req.qty \in Nat \ {0}
  <2>1. Request(req, req.order_id)
    BY <1>1 DEF IndInv, RequestOK
  <2>2. req \in FillEvents /\ req.type = "NewOrder" /\ req.qty \in Nat \ {0}
    BY <1>3, <2>1, RequestEvent
  <2> QED BY <2>2 DEF FillEvents
<1>5. os \in OrderTable /\ os \in Seq(Order) /\ Len(os) \in Nat
  BY DEF IndInv, TypeOK, OrderTable
<1>6. Placed = n /\ Placed' = order_counter
  BY <1>1 DEF Placed
<1>7. Len(os) <= n /\ \A i \in 1..Len(os) : os[i].order_id[1] = "ORD" /\ Issued(os[i].order_id, n)
  BY <1>6 DEF OrdersKnown
<1> HIDE DEF n
<1>8. FindOrder(os, req.order_id) = 0
  BY <1>1, NoSlotYet
<1>9. Len(os) < MaxOrders
  BY <1>1, NoSlotYet
<1>10. /\ Len(bs) = Len(os) + 1 /\ bs[Len(bs)] = NewOrder(req)
       /\ \A k \in 1..Len(os) : bs[k] = os[k]
  <2> HIDE DEF os
  <2> QED BY <1>4, <1>5, <1>8, <1>9, BookOrderNew
<1>11. OpenSlot(bs, req.order_id, req.symbol, req.side, req.qty, 0)
  <2> HIDE DEF os
  <2> QED BY <1>4, <1>5, <1>8, <1>9, OpenSlotNew
<1>12. \A oid, sym, side, qty, m :
         oid # req.order_id /\ KnownSlot(os, oid, sym, side, qty, m) => KnownSlot(bs, oid, sym, side, qty, m)
  <2> HIDE DEF os
  <2> QED BY <1>4, <1>5, OpenSlotOther DEF KnownSlot
<1>13. NewOrder(req).order_id = req.order_id
  BY <1>4, NewOrderFields
<1> HIDE DEF bs, os
<1>14. Len(bs) <= order_counter
  BY <1>2, <1>5, <1>7, <1>10 DEF n
<1>15. \A i \in 1..Len(bs) : bs[i].order_id[1] = "ORD" /\ Issued(bs[i].order_id, order_counter)
  <2>1. \A oid : Issued(oid, n) => Issued(oid, order_counter)
    BY <1>2, <1>3, IssuedStays DEF n
  <2> SUFFICES ASSUME NEW i \in 1..Len(bs)
               PROVE  bs[i].order_id[1] = "ORD" /\ Issued(bs[i].order_id, order_counter)
    OBVIOUS
  <2>2. CASE i = Len(bs)
    BY <1>3, <1>10, <1>13, <2>2
  <2>3. CASE i # Len(bs)
    <3>1. i \in 1..Len(os)
      BY <1>5, <1>10, <2>3
    <3> QED BY <1>7, <1>10, <2>1, <3>1
  <2> QED BY <2>2, <2>3
<1>16. Awaited(book, inbound, bs, req.order_id, req.symbol, req.side, req.qty)
  BY <1>3, <1>4, <1>11 DEF Awaited, KnownSlot, Unreported
<1>17. ASSUME NEW k \in 1..Len(outbound) PROVE OnTheWay(book, inbound, bs, outbound[k])
  BY <1>3, <1>12 DEF OrdersKnown, OnTheWay, Awaited, os
<1>18. ASSUME NEW oid \in OrderIds PROVE Covered(book, inbound, bs, oid)
  <2>1. Covered(book, inbound, os, oid)
    BY DEF OrdersKnown, os
  <2>2. book[oid].state \in {"Live", "Expired"} => oid # req.order_id
    BY <1>3
  <2> QED BY <1>12, <2>1, <2>2 DEF Covered
<1>19. \A j, k \in 1..Len(outbound) : outbound[j].cl_ord_id = outbound[k].cl_ord_id => j = k
  BY DEF OrdersKnown
<1> QED BY <1>1, <1>6, <1>14, <1>15, <1>16, <1>17, <1>18, <1>19 DEF OrdersKnown

(* The order is on its way. *)
LEMMA TransmitOrderKnown ==
  ASSUME IndInv, IdsIssued, OneLife, OrdersKnown, TransmitOrder
  PROVE  OrdersKnown'
<1> DEFINE m == ToNewOrderSingle(req)
<1>1. /\ spc = "booked" /\ spc' = "idle" /\ outbound' = Append(outbound, m)
      /\ UNCHANGED <<order_counter, orders, inbound, book>>
  BY DEF TransmitOrder
<1>2. m.cl_ord_id = req.order_id /\ m.symbol = req.symbol /\ m.side = req.side /\ m.order_qty = req.qty
  BY DEF ToNewOrderSingle
<1>3. Placed' = Placed
  BY <1>1 DEF Placed
<1>4. outbound \in Seq(Messages) /\ Len(outbound) \in Nat
  BY DEF IndInv
<1>5. \A k \in 1..Len(outbound) : outbound[k].cl_ord_id # m.cl_ord_id
  BY <1>1, <1>2, RequestIsOther
<1>6. OnTheWay(book, inbound, orders, m)
  BY <1>1, <1>2 DEF OrdersKnown, OnTheWay, Awaited
<1> HIDE DEF m
<1>7. /\ Len(outbound') = Len(outbound) + 1 /\ outbound'[Len(outbound) + 1] = m
      /\ \A k \in 1..Len(outbound) : outbound'[k] = outbound[k]
  BY <1>1, <1>4
<1>8. \A k \in 1..Len(outbound') : k \in 1..Len(outbound) \/ k = Len(outbound) + 1
  BY <1>4, <1>7
<1>9. ASSUME NEW k \in 1..Len(outbound') PROVE OnTheWay(book, inbound, orders, outbound'[k])
  BY <1>6, <1>7, <1>8 DEF OrdersKnown
<1>10. ASSUME NEW j \in 1..Len(outbound'), NEW k \in 1..Len(outbound'),
              outbound'[j].cl_ord_id = outbound'[k].cl_ord_id
       PROVE  j = k
  <2>1. CASE j \in 1..Len(outbound) /\ k \in 1..Len(outbound)
    BY <1>7, <1>10, <2>1 DEF OrdersKnown
  <2>2. CASE ~(j \in 1..Len(outbound) /\ k \in 1..Len(outbound))
    BY <1>5, <1>7, <1>8, <1>10, <2>2
  <2> QED BY <2>1, <2>2
<1>11. spc' # "booked"
  BY <1>1
<1> QED BY <1>1, <1>3, <1>9, <1>10, <1>11 DEF OrdersKnown

(* A session that forgets messages, or a report that is no event. *)
LEMMA LessKnown ==
  ASSUME IndInv, OrdersKnown,
         UNCHANGED <<orders, order_counter, book, spc, req>>,
         outbound' = outbound \/ outbound' = << >>,
         NEW t \in Seq(ExecutionReports), inbound' = t,
         \A k \in 1..Len(t) : \E j \in 1..Len(inbound) : t[k] = inbound[j],
         \A oid \in OrderIds : QueuedFills(t, oid) <= QueuedFills(inbound, oid)
  PROVE  OrdersKnown'
<1>1. book \in Books /\ orders \in OrderTable /\ inbound \in Seq(ExecutionReports)
  BY DEF IndInv, TypeOK, Books, BookEntry, OrderTable
<1>2. \A oid \in OrderIds : Covered(book, t, orders, oid)
  BY <1>1, CoveredLess DEF OrdersKnown
<1>3. \A oid, sym, side, qty : Awaited(book, inbound, orders, oid, sym, side, qty) =>
                                 Awaited(book, t, orders, oid, sym, side, qty)
  BY DEF Awaited, Unreported
<1>4. Placed' = Placed
  BY DEF Placed
<1>5. (spc = "booked" => Awaited(book, inbound, orders, req.order_id, req.symbol, req.side, req.qty))'
  BY <1>3 DEF OrdersKnown
<1>6. ASSUME NEW k \in 1..Len(outbound') PROVE OnTheWay(book, t, orders, outbound'[k])
  <2>1. k \in 1..Len(outbound) /\ outbound'[k] = outbound[k]
    OBVIOUS
  <2> QED BY <1>3, <2>1 DEF OrdersKnown, OnTheWay, Unreported
<1>7. \A j, k \in 1..Len(outbound') : outbound'[j].cl_ord_id = outbound'[k].cl_ord_id => j = k
  BY DEF OrdersKnown
<1> QED BY <1>2, <1>4, <1>5, <1>6, <1>7 DEF OrdersKnown

(* The last call of onMessage(): the order of a report that closes it is   *)
(* not live any more, and a part fill leaves it open.                      *)
LEMMA ProjectReportKnown ==
  ASSUME IndInv, OrdersKnown, ProjectReport
  PROVE  OrdersKnown'
<1> DEFINE r == Head(inbound)
           t == Tail(inbound)
           e == ievt
           os == orders
           bs == BookOrder(os, e)
<1>1. /\ ipc = "tracked" /\ orders' = bs /\ inbound' = t /\ inbound # << >>
      /\ e \in FromExecutionReport(r)
      /\ UNCHANGED <<order_counter, spc, req, outbound, book>>
  BY DEF ProjectReport, IndInv, ReportAtHand, strategy
<1>2. /\ inbound \in Seq(ExecutionReports) /\ r \in ExecutionReports /\ ReportOK(r) /\ r = inbound[1]
      /\ 1 \in 1..Len(inbound) /\ t \in Seq(ExecutionReports) /\ book \in Books
      /\ os \in OrderTable
      /\ \A k \in 1..Len(t) : k + 1 \in 1..Len(inbound) /\ t[k] = inbound[k + 1]
  <2>1. inbound \in Seq(ExecutionReports) /\ \A k \in 1..Len(inbound) : ReportOK(inbound[k])
    BY DEF IndInv, TypeOK
  <2>2. os \in OrderTable
    BY DEF IndInv, TypeOK, OrderTable
  <2> QED BY <1>1, <2>1, <2>2, UntrackedReports
<1>3. \A oid \in OrderIds : QueuedFills(inbound, oid) =
                              QueuedFills(t, oid) + IF r.cl_ord_id = oid THEN r.last_shares ELSE 0
  BY <1>1, <1>2, QueuedFillsTail
<1> HIDE DEF r, t, e, os
<1>5. /\ e \in FillEvents /\ e \in Events /\ e.type = EventTypeOf[r.exec_type]
      /\ r.exec_type \in {"PartialFill", "Fill", "Canceled", "Rejected"}
      /\ e.order_id = r.cl_ord_id /\ e.fill_qty = r.last_shares /\ e.type # "NewOrder"
      /\ r.cl_ord_id \in OrderIds /\ r.last_shares \in Nat
      /\ r.exec_type = "PartialFill" => IsFill(e)
  <2>1. /\ e \in FillEvents /\ e.type = EventTypeOf[r.exec_type]
        /\ r.exec_type \in {"PartialFill", "Fill", "Canceled", "Rejected"}
        /\ e.order_id = r.cl_ord_id /\ e.fill_qty = r.last_shares
    BY <1>1, <1>2, ReportEvent
  <2>2. e.type # "NewOrder" /\ (r.exec_type = "PartialFill" => IsFill(e))
    BY <2>1, EventTypeValues DEF IsFill
  <2> QED BY <1>2, <2>1, <2>2 DEF FillEvents, ExecutionReports
<1>6. \A oid, sym, side, qty, m :
        oid # e.order_id /\ KnownSlot(os, oid, sym, side, qty, m) => KnownSlot(bs, oid, sym, side, qty, m)
  BY <1>2, <1>5, OpenSlotOther DEF KnownSlot
<1>7. Len(bs) = Len(os) /\ \A k \in 1..Len(os) : bs[k].order_id = os[k].order_id
  BY <1>2, <1>5, BookOrderKnown
<1>8. \A oid, sym, side, qty : Awaited(book, inbound, os, oid, sym, side, qty) =>
                                 Awaited(book, t, bs, oid, sym, side, qty)
  <2> SUFFICES ASSUME NEW oid, NEW sym, NEW side, NEW qty,
                      Awaited(book, inbound, os, oid, sym, side, qty)
               PROVE  Awaited(book, t, bs, oid, sym, side, qty)
    OBVIOUS
  <2>1. r.cl_ord_id # oid
    BY <1>2 DEF Awaited, Unreported, r
  <2>2. KnownSlot(bs, oid, sym, side, qty, 0)
    BY <1>5, <1>6, <2>1 DEF Awaited
  <2>3. Unreported(t, oid)
    BY <1>2 DEF Awaited, Unreported
  <2> QED BY <2>2, <2>3 DEF Awaited
<1>9. ASSUME NEW oid \in OrderIds PROVE Covered(book, t, bs, oid)
  <2> SUFFICES ASSUME book[oid].state \in {"Live", "Expired"} PROVE Covered(book, t, bs, oid)
    BY DEF Covered
  <2> DEFINE b == book[oid]
             q == QueuedFills(inbound, oid)
             s == QueuedFills(t, oid)
  <2>1. /\ b.filled < b.qty
        /\ \A k \in 1..Len(inbound) :
             inbound[k].cl_ord_id = oid => inbound[k].exec_type \notin {"Fill", "Canceled", "Rejected"}
        /\ KnownSlot(os, oid, b.symbol, b.side, b.qty, b.filled - q)
    BY DEF OrdersKnown, Covered, os
  <2>2. b.filled \in Nat /\ b.qty \in Nat
    BY <1>2 DEF Books, BookEntry
  <2>3. s \in Nat /\ q = s + IF r.cl_ord_id = oid THEN r.last_shares ELSE 0
    BY <1>2, <1>3, QueuedFillsIsSum
  <2>4. \A k \in 1..Len(t) :
          t[k].cl_ord_id = oid => t[k].exec_type \notin {"Fill", "Canceled", "Rejected"}
    BY <1>2, <2>1
  <2> HIDE DEF b, q, s
  <2>5. KnownSlot(bs, oid, b.symbol, b.side, b.qty, b.filled - s)
    <3>1. CASE r.cl_ord_id # oid
      <4>1. q = s
        BY <2>3, <3>1
      <4> QED BY <1>5, <1>6, <2>1, <3>1, <4>1
    <3>2. CASE r.cl_ord_id = oid
      <4> SUFFICES ASSUME oid[1] = "ORD"
                   PROVE  OpenSlot(bs, oid, b.symbol, b.side, b.qty, b.filled - s)
        BY DEF KnownSlot
      <4>1. r.exec_type = "PartialFill"
        BY <1>2, <1>5, <2>1, <3>2
      <4> DEFINE n == b.filled - q
                 f == r.last_shares
      <4>2. f \in Nat /\ q = s + f
        BY <1>5, <2>3, <3>2
      <4>3. e.fill_qty = f /\ IsFill(e) /\ e.order_id = oid
        BY <1>5, <3>2, <4>1
      <4>4. OpenSlot(os, e.order_id, b.symbol, b.side, b.qty, n)
        BY <2>1, <4>3 DEF KnownSlot
      <4> HIDE DEF f
      <4>5. n \in Int /\ n + f = b.filled - s /\ n + f < b.qty /\ b.qty \in Int
        BY <2>1, <2>2, <2>3, <4>2
      <4> HIDE DEF n
      <4>6. OpenSlot(BookOrder(os, e), e.order_id, b.symbol, b.side, b.qty, n + e.fill_qty)
        <5>1. n + e.fill_qty < b.qty
          BY <4>3, <4>5
        <5> QED BY <1>2, <1>5, <4>3, <4>4, <4>5, <5>1, OpenSlotFill
      <4> QED BY <4>3, <4>5, <4>6
    <3> QED BY <3>1, <3>2
  <2> QED BY <2>1, <2>4, <2>5 DEF Covered, b, s
<1>10. Placed' = Placed
  BY <1>1 DEF Placed
<1> HIDE DEF bs
<1>11. /\ Len(bs) <= Placed
       /\ \A i \in 1..Len(bs) : bs[i].order_id[1] = "ORD" /\ Issued(bs[i].order_id, Placed)
  BY <1>7 DEF OrdersKnown, os
<1>12. (spc = "booked" => Awaited(book, inbound, orders, req.order_id, req.symbol, req.side, req.qty))'
  BY <1>1, <1>8 DEF OrdersKnown, os
<1>13. ASSUME NEW k \in 1..Len(outbound) PROVE OnTheWay(book, t, bs, outbound[k])
  <2>1. OnTheWay(book, inbound, os, outbound[k])
    BY DEF OrdersKnown, os
  <2>2. Unreported(t, outbound[k].cl_ord_id)
    BY <1>2, <2>1 DEF OnTheWay, Unreported
  <2> QED BY <1>8, <2>1, <2>2 DEF OnTheWay
<1>14. \A j, k \in 1..Len(outbound) : outbound[j].cl_ord_id = outbound[k].cl_ord_id => j = k
  BY DEF OrdersKnown
<1> QED BY <1>1, <1>9, <1>10, <1>11, <1>12, <1>13, <1>14 DEF OrdersKnown

(* A report of the exchange about one id, none of those on their way.  It  *)
(* may have closed an order of another id, as the answer to a request does.*)
LEMMA ReportKnown ==
  ASSUME IndInv, OrdersKnown, UNCHANGED <<orders, order_counter, spc, req>>,
         NEW r \in ExecutionReports, inbound' = Append(inbound, r),
         \A id \in OrderIds : \/ id = r.cl_ord_id \/ book'[id] = book[id]
                              \/ book[id].state = "Live" /\ book'[id].state = "Cancelled",
         Covered(book', Append(inbound, r), orders, r.cl_ord_id),
         outbound' = outbound \/ (outbound # << >> /\ outbound' = Tail(outbound)),
         \A k \in 1..Len(outbound') : outbound'[k].cl_ord_id # r.cl_ord_id,
         spc = "booked" => req.order_id # r.cl_ord_id
  PROVE  OrdersKnown'
<1> DEFINE bl == book'
           ts == Append(inbound, r)
<1>1. inbound \in Seq(ExecutionReports) /\ outbound \in Seq(Messages)
  BY DEF IndInv, TypeOK
<1>2. PICK d \in {0, 1} : \A k \in 1..Len(outbound') : k + d \in 1..Len(outbound)
                                                       /\ outbound'[k] = outbound[k + d]
  <2>1. CASE outbound' = outbound
    <3>1. \A k \in 1..Len(outbound') : k + 0 \in 1..Len(outbound) /\ outbound'[k] = outbound[k + 0]
      BY <2>1
    <3> QED BY <3>1
  <2>2. CASE outbound # << >> /\ outbound' = Tail(outbound)
    BY <1>1, <2>2, OrdersTail
  <2> QED BY <2>1, <2>2
<1>3. \A k \in 1..Len(outbound') : outbound'[k].cl_ord_id \in OrderIds
  <2>1. \A k \in 1..Len(outbound) : outbound[k] \in Messages
    BY <1>1
  <2> QED BY <1>2, <2>1 DEF Messages, Singles, CancelRequests
<1>4. spc = "booked" => req.order_id \in OrderIds
  BY DEF IndInv, RequestOK
<1>5. \A id \in OrderIds : \A sym, side, qty :
        id # r.cl_ord_id /\ Awaited(book, inbound, orders, id, sym, side, qty) =>
          Awaited(bl, ts, orders, id, sym, side, qty)
  <2> SUFFICES ASSUME NEW id \in OrderIds, NEW sym, NEW side, NEW qty, id # r.cl_ord_id,
                      Awaited(book, inbound, orders, id, sym, side, qty)
               PROVE  Awaited(bl, ts, orders, id, sym, side, qty)
    OBVIOUS
  <2>1. bl[id].state = "None"
    BY DEF Awaited
  <2> HIDE DEF bl
  <2> QED BY <1>1, <2>1, AwaitedReport
<1>6. \A id \in OrderIds : Covered(bl, ts, orders, id)
  <2> SUFFICES ASSUME NEW id \in OrderIds, id # r.cl_ord_id PROVE Covered(bl, ts, orders, id)
    OBVIOUS
  <2>1. Covered(book, inbound, orders, id)
    BY DEF OrdersKnown
  <2>2. bl[id] = book[id] \/ bl[id].state = "Cancelled"
    OBVIOUS
  <2> HIDE DEF bl
  <2>3. CASE bl[id] = book[id]
    BY <1>1, <2>1, <2>3, CoveredReport
  <2>4. CASE bl[id].state = "Cancelled"
    BY <2>4 DEF Covered
  <2> QED BY <2>2, <2>3, <2>4
<1> HIDE DEF ts
<1>7. spc = "booked" => Awaited(bl, ts, orders, req.order_id, req.symbol, req.side, req.qty)
  BY <1>4, <1>5 DEF OrdersKnown
<1>8. ASSUME NEW k \in 1..Len(outbound') PROVE OnTheWay(bl, ts, orders, outbound'[k])
  <2> DEFINE o == outbound'[k]
  <2>1. OnTheWay(book, inbound, orders, o)
    BY <1>2 DEF OrdersKnown
  <2>2. o.cl_ord_id \in OrderIds /\ o.cl_ord_id # r.cl_ord_id
    BY <1>3
  <2>3. bl[o.cl_ord_id].state = "None"
    BY <2>1, <2>2 DEF OnTheWay
  <2>4. Unreported(ts, o.cl_ord_id)
    <3>1. \A j \in 1..Len(ts) : (j \in 1..Len(inbound) /\ ts[j] = inbound[j]) \/ ts[j] = r
      BY <1>1 DEF ts
    <3> QED BY <2>1, <2>2, <3>1 DEF OnTheWay, Unreported
  <2> HIDE DEF o, bl
  <2>5. OnTheWay(bl, ts, orders, o)
    BY <1>5, <2>1, <2>2, <2>3, <2>4 DEF OnTheWay
  <2> QED BY <2>5 DEF o
<1>9. ASSUME NEW j \in 1..Len(outbound'), NEW k \in 1..Len(outbound'),
             outbound'[j].cl_ord_id = outbound'[k].cl_ord_id
      PROVE  j = k
  <2> DEFINE a == j + d
             c == k + d
  <2>1. /\ a \in 1..Len(outbound) /\ c \in 1..Len(outbound)
        /\ outbound'[j] = outbound[a] /\ outbound'[k] = outbound[c]
    BY <1>2
  <2>2. \A x, y \in 1..Len(outbound) : outbound[x].cl_ord_id = outbound[y].cl_ord_id => x = y
    BY DEF OrdersKnown
  <2> HIDE DEF a, c
  <2>3. a = c
    BY <1>9, <2>1, <2>2
  <2>4. j \in Int /\ k \in Int /\ d \in Int
    OBVIOUS
  <2> QED BY <2>3, <2>4 DEF a, c
<1>10. Placed' = Placed
  BY DEF Placed
<1> QED BY <1>6, <1>7, <1>8, <1>9, <1>10 DEF OrdersKnown, bl, ts

(* The exchange takes an order that is on its way, or refuses it. *)
LEMMA TakenKnown ==
  ASSUME IndInv, IdsIssued, OneLife, OrdersKnown, AcceptOrder \/ RefuseOrder
  PROVE  OrdersKnown'
<1> DEFINE o == Head(outbound)
           x == o.cl_ord_id
           type == IF AcceptOrder THEN "New" ELSE "Rejected"
           b == [ state |-> "Live", symbol |-> o.symbol, side |-> o.side, qty |-> o.order_qty,
                  filled |-> 0 ]
<1>1. /\ outbound # << >> /\ outbound' = Tail(outbound) /\ o.msg_type = "NewOrderSingle"
      /\ UNCHANGED <<orders, order_counter, spc, req>>
  BY DEF AcceptOrder, RefuseOrder, strategy
<1>2. /\ o = outbound[1] /\ 1 \in 1..Len(outbound)
      /\ x \in OrderIds /\ o.symbol \in Symbols /\ o.side \in Sides /\ o.order_qty \in Nat
      /\ \A k \in 1..Len(outbound') : k + 1 \in 1..Len(outbound) /\ outbound'[k] = outbound[k + 1]
  BY <1>1, OrdersTail
<1>3. Awaited(book, inbound, orders, x, o.symbol, o.side, o.order_qty)
  BY <1>1, <1>2 DEF OrdersKnown, OnTheWay
<1>4. \A k \in 1..Len(outbound') : outbound'[k].cl_ord_id # x
  <2> SUFFICES ASSUME NEW k \in 1..Len(outbound'), outbound'[k].cl_ord_id = x PROVE FALSE
    OBVIOUS
  <2>1. k + 1 \in 1..Len(outbound) /\ outbound[k + 1].cl_ord_id = outbound[1].cl_ord_id /\ k \in Nat /\ k > 0
    BY <1>2
  <2>2. k + 1 = 1
    BY <1>2, <2>1 DEF OrdersKnown
  <2> QED BY <2>1, <2>2
<1>5. spc = "booked" => req.order_id # x
  BY <1>2, RequestIsOther
<1>6. /\ inbound \in Seq(ExecutionReports) /\ book \in [OrderIds -> BookEntry]
  BY DEF IndInv, TypeOK, BookEntry
<1>7. CASE AcceptOrder
  <2> DEFINE r == Report("New", x, o.symbol, o.side, 0, 0)
             ts == Append(inbound, r)
  <2>1. inbound' = Append(inbound, r) /\ book' = [book EXCEPT ![x] = b]
    BY <1>7 DEF AcceptOrder
  <2>2. "New" \in ExecTypes /\ 0 \in Nat /\ (0 > 0 <=> "New" \in {"PartialFill", "Fill"})
    BY DEF ExecTypes
  <2>3. /\ b.state = "Live" /\ b.filled = 0 /\ b.qty = o.order_qty /\ b.symbol = o.symbol
        /\ b.side = o.side
    OBVIOUS
  <2> HIDE DEF o, x, b
  <2>4. r \in ExecutionReports /\ r.last_shares = 0 /\ r.cl_ord_id = x /\ r.exec_type = "New"
    <3>1. inbound' = Append(inbound, Report("New", x, o.symbol, o.side, 0, 0))
      BY <2>1
    <3> HIDE DEF r
    <3>2. /\ Report("New", x, o.symbol, o.side, 0, 0) \in ExecutionReports
          /\ Report("New", x, o.symbol, o.side, 0, 0).last_shares = 0
          /\ Report("New", x, o.symbol, o.side, 0, 0).cl_ord_id = x
          /\ Report("New", x, o.symbol, o.side, 0, 0).exec_type = "New"
      BY <1>2, <2>2, <3>1, ReportSent
    <3> QED BY <3>2 DEF r
  <2>5. book'[x] = b /\ \A id \in OrderIds : id # x => book'[id] = book[id]
    BY <1>2, <1>6, <2>1
  <2> HIDE DEF r
  <2>6. ts \in Seq(ExecutionReports) /\ \A k \in 1..Len(ts) : (k \in 1..Len(inbound) /\ ts[k] = inbound[k]) \/ ts[k] = r
    BY <1>6, <2>4
  <2>7. QueuedFills(ts, x) = 0
    <3>1. ts \in Seq(ExecutionReports) /\ \A k \in 1..Len(ts) : ts[k].cl_ord_id = x => ts[k].last_shares = 0
      BY <1>3, <2>4, <2>6 DEF Awaited, Unreported
    <3> DEFINE v == ReportShares(ts, x)
    <3>2. v \in Seq(Int) /\ QueuedFills(ts, x) = SumOf(v)
      <4> HIDE DEF ts
      <4> QED BY <3>1, QueuedFillsIsSum
    <3> HIDE DEF ts
    <3>3. \A k \in 1..Len(v) : v[k] = 0
      <4>1. Len(v) = Len(ts) /\ \A k \in 1..Len(ts) : v[k] = IF ts[k].cl_ord_id = x THEN ts[k].last_shares ELSE 0
        BY <3>1 DEF ReportShares
      <4> HIDE DEF v
      <4> QED BY <3>1, <4>1
    <3> HIDE DEF v
    <3> QED BY <3>2, <3>3, SumZero
  <2>8. \A k \in 1..Len(ts) : ts[k].cl_ord_id = x => ts[k].exec_type \notin {"Fill", "Canceled", "Rejected"}
    BY <1>3, <2>4, <2>6 DEF Awaited, Unreported
  <2> HIDE DEF ts
  <2>9. Covered(book', ts, orders, x)
    <3>1. b.filled - QueuedFills(ts, x) = 0 /\ b.filled < b.qty
      BY <1>2, <1>3, <2>3, <2>7 DEF Awaited
    <3>2. KnownSlot(orders, x, b.symbol, b.side, b.qty, 0)
      BY <1>3, <2>3 DEF Awaited
    <3> QED BY <2>5, <2>8, <3>1, <3>2 DEF Covered
  <2> QED BY <1>1, <1>4, <1>5, <2>1, <2>4, <2>5, <2>9, ReportKnown DEF ts
<1>8. CASE RefuseOrder
  <2> DEFINE r == Report("Rejected", x, o.symbol, o.side, 0, 0)
  <2>1. inbound' = Append(inbound, r) /\ book' = book
    BY <1>8 DEF RefuseOrder
  <2>2. "Rejected" \in ExecTypes /\ 0 \in Nat /\ (0 > 0 <=> "Rejected" \in {"PartialFill", "Fill"})
    BY DEF ExecTypes
  <2> HIDE DEF o, x, b
  <2>3. r \in ExecutionReports /\ r.cl_ord_id = x
    <3>1. inbound' = Append(inbound, Report("Rejected", x, o.symbol, o.side, 0, 0))
      BY <2>1
    <3> HIDE DEF r
    <3>2. /\ Report("Rejected", x, o.symbol, o.side, 0, 0) \in ExecutionReports
          /\ Report("Rejected", x, o.symbol, o.side, 0, 0).cl_ord_id = x
      BY <1>2, <2>2, <3>1, ReportSent
    <3> QED BY <3>2 DEF r
  <2>4. Covered(book', Append(inbound, r), orders, x)
    BY <1>3, <2>1 DEF Covered, Awaited
  <2> HIDE DEF r
  <2>5. \A id \in OrderIds : id # x => book'[id] = book[id]
    BY <2>1
  <2> QED BY <1>1, <1>4, <1>5, <2>1, <2>3, <2>4, <2>5, ReportKnown
<1> QED BY <1>7, <1>8

(* A report about an order that is live is about none that is on its way. *)
LEMMA LiveIsOther ==
  ASSUME OrdersKnown, NEW oid \in OrderIds, book[oid].state = "Live"
  PROVE  /\ \A k \in 1..Len(outbound) : outbound[k].cl_ord_id # oid
         /\ spc = "booked" => req.order_id # oid
  BY DEF OrdersKnown, OnTheWay, Awaited

(* A trade that leaves a remainder, and one that leaves none. *)
LEMMA TradeKnown ==
  ASSUME IndInv, OrdersKnown, NEW oid \in OrderIds, NEW qty \in Quantities \ {0},
         NEW px \in Prices, Trade(oid, qty, px)
  PROVE  OrdersKnown'
<1> DEFINE b == book[oid]
           done == book[oid].filled + qty = book[oid].qty
           type == IF done THEN "Fill" ELSE "PartialFill"
           st == IF done THEN "Filled" ELSE "Live"
           n == book[oid].filled + qty
           r == Report(type, oid, book[oid].symbol, book[oid].side, qty, px)
           ts == Append(inbound, r)
<1>1. book \in [OrderIds -> BookEntry] /\ inbound \in Seq(ExecutionReports)
  BY DEF IndInv, TypeOK, BookEntry
<1>2. /\ b.state = "Live" /\ n <= b.qty /\ inbound' = Append(inbound, r)
      /\ book' = [book EXCEPT ![oid].state = st, ![oid].filled = n]
      /\ UNCHANGED <<orders, order_counter, spc, req, outbound>>
  BY DEF Trade, Tell, strategy
<1>3. b \in BookEntry /\ b.symbol \in Symbols /\ b.side \in Sides /\ b.qty \in Nat /\ b.filled \in Nat
  BY <1>1 DEF BookEntry
<1>4. /\ qty \in Nat /\ qty > 0 /\ px \in Nat
      /\ type \in ExecTypes /\ type \in {"PartialFill", "Fill"}
  BY QuantitiesAssumption, GatewayAssumption DEF ExecTypes
<1>5. type = "PartialFill" \/ st # "Live"
  OBVIOUS
<1>6. (st = "Live" => n # b.qty) /\ st # "Expired"
  OBVIOUS
<1>7. n \in Nat /\ n = b.filled + qty
  BY <1>3, <1>4
<1> HIDE DEF type, st, n
<1>8. /\ r \in ExecutionReports /\ r.last_shares = qty /\ r.cl_ord_id = oid /\ r.exec_type = type
  BY <1>2, <1>3, <1>4, ReportSent
<1>9. /\ book'[oid].state = st /\ book'[oid].filled = n /\ book'[oid].qty = b.qty
      /\ book'[oid].symbol = b.symbol /\ book'[oid].side = b.side
      /\ \A id \in OrderIds : id # oid => book'[id] = book[id]
  BY <1>1, <1>2, <1>3 DEF BookEntry
<1>10. /\ b.filled < b.qty
       /\ \A k \in 1..Len(inbound) :
            inbound[k].cl_ord_id = oid => inbound[k].exec_type \notin {"Fill", "Canceled", "Rejected"}
       /\ KnownSlot(orders, oid, b.symbol, b.side, b.qty, b.filled - QueuedFills(inbound, oid))
  BY <1>2 DEF OrdersKnown, Covered
<1> DEFINE q == QueuedFills(inbound, oid)
           s == QueuedFills(ts, oid)
<1> HIDE DEF r, b
<1>11. q \in Nat /\ s = q + qty
  BY <1>1, <1>8, QueuedFillsAppend, QueuedFillsIsSum
<1>12. \A k \in 1..Len(ts) : (k \in 1..Len(inbound) /\ ts[k] = inbound[k]) \/ ts[k] = r
  BY <1>1
<1> HIDE DEF ts
<1>13. Covered(book', ts, orders, oid)
  <2> SUFFICES ASSUME st = "Live" PROVE Covered(book', ts, orders, oid)
    BY <1>6, <1>9 DEF Covered
  <2>1. n < b.qty
    BY <1>2, <1>3, <1>6, <1>7
  <2>2. n - s = b.filled - q
    <3> HIDE DEF q, s
    <3> QED BY <1>3, <1>4, <1>7, <1>11
  <2>3. \A k \in 1..Len(ts) :
          ts[k].cl_ord_id = oid => ts[k].exec_type \notin {"Fill", "Canceled", "Rejected"}
    BY <1>5, <1>8, <1>10, <1>12
  <2>4. KnownSlot(orders, oid, b.symbol, b.side, b.qty, n - s)
    BY <1>10, <2>2
  <2> QED BY <1>9, <2>1, <2>3, <2>4 DEF Covered
<1>14. /\ \A k \in 1..Len(outbound') : outbound'[k].cl_ord_id # oid
       /\ spc = "booked" => req.order_id # oid
  BY <1>2, LiveIsOther DEF b
<1> QED BY <1>2, <1>8, <1>9, <1>13, <1>14, ReportKnown DEF ts

(* An order that is cancelled is closed by its report, one that expires is *)
(* as open as before.                                                      *)
LEMMA EndKnown ==
  ASSUME IndInv, OrdersKnown, NEW oid \in OrderIds, CancelOrder(oid) \/ ExpireOrder(oid)
  PROVE  OrdersKnown'
<1>0. PICK st, xt : Ends(oid, st, xt)
  BY OrderEnds
<1> DEFINE b == book[oid]
           r == Report(xt, oid, b.symbol, b.side, 0, 0)
<1>1. book \in [OrderIds -> BookEntry]
  BY DEF IndInv, TypeOK, BookEntry
<1>2. /\ b.state = "Live" /\ inbound' = Append(inbound, r)
      /\ book' = [book EXCEPT ![oid].state = st]
      /\ UNCHANGED <<orders, order_counter, spc, req, outbound>>
  BY <1>0 DEF Ends, strategy
<1>3. b \in BookEntry /\ b.symbol \in Symbols /\ b.side \in Sides
  BY <1>1 DEF BookEntry
<1>4. xt \in ExecTypes /\ 0 \in Nat /\ (0 > 0 <=> xt \in {"PartialFill", "Fill"})
  BY <1>0 DEF ExecTypes, Ends
<1>5. /\ book'[oid].state = st /\ \A id \in OrderIds : id # oid => book'[id] = book[id]
      /\ book'[oid].symbol = b.symbol /\ book'[oid].side = b.side
      /\ book'[oid].qty = b.qty /\ book'[oid].filled = b.filled
  BY <1>1, <1>2, <1>3 DEF BookEntry
<1>6. /\ \A k \in 1..Len(outbound') : outbound'[k].cl_ord_id # oid
      /\ spc = "booked" => req.order_id # oid
  BY <1>2, LiveIsOther
<1>a. /\ b.filled < b.qty
      /\ \A k \in 1..Len(inbound) :
           inbound[k].cl_ord_id = oid => inbound[k].exec_type \notin {"Fill", "Canceled", "Rejected"}
      /\ KnownSlot(orders, oid, b.symbol, b.side, b.qty, b.filled - QueuedFills(inbound, oid))
      /\ inbound \in Seq(ExecutionReports)
  BY <1>2 DEF OrdersKnown, Covered, IndInv, TypeOK
<1> HIDE DEF b
<1>7. /\ r \in ExecutionReports /\ r.cl_ord_id = oid /\ r.last_shares = 0 /\ r.exec_type = xt
  BY <1>3, <1>4 DEF Report, ExecutionReports
<1> HIDE DEF r
<1>8. Covered(book', Append(inbound, r), orders, oid)
  <2>1. CASE st # "Expired"
    BY <1>0, <1>5, <2>1 DEF Covered, Ends
  <2>2. CASE st = "Expired"
    <3> DEFINE ts == Append(inbound, r)
    <3>1. QueuedFills(inbound, oid) \in Nat /\ QueuedFills(ts, oid) = QueuedFills(inbound, oid) + 0
      BY <1>7, <1>a, QueuedFillsIsSum, QueuedFillsAppend
    <3>2. QueuedFills(ts, oid) = QueuedFills(inbound, oid)
      BY <3>1
    <3>3. r.exec_type = "Expired"
      BY <1>0, <1>7, <2>2 DEF Ends
    <3>4. \A k \in 1..Len(ts) :
            ts[k].cl_ord_id = oid => ts[k].exec_type \notin {"Fill", "Canceled", "Rejected"}
      <4>1. \A k \in 1..Len(ts) : ts[k] = r \/ (k \in 1..Len(inbound) /\ ts[k] = inbound[k])
        BY <1>a
      <4> QED BY <1>a, <3>3, <4>1
    <3> HIDE DEF ts
    <3>5. Covered(book', ts, orders, oid)
      BY <1>5, <1>a, <3>2, <3>4 DEF Covered
    <3> QED BY <3>5 DEF ts
  <2> QED BY <2>1, <2>2
<1> QED BY <1>2, <1>5, <1>6, <1>7, <1>8, ReportKnown

(* The session: a reset empties it, and a report that is no event leaves. *)
LEMMA SessionKnown ==
  ASSUME IndInv, OrdersKnown, Logon \/ DropReport
  PROVE  OrdersKnown'
<1>1. inbound \in Seq(ExecutionReports)
  BY DEF IndInv, TypeOK
<1>2. \A oid : QueuedFills(inbound, oid) \in Nat
  BY <1>1, QueuedFillsIsSum
<1>3. CASE Logon /\ inbound' = inbound
  <2>1. /\ UNCHANGED <<orders, order_counter, book, spc, req>>
        /\ outbound' = outbound \/ outbound' = << >>
    BY <1>3 DEF Logon, strategy
  <2>2. \A oid \in OrderIds : QueuedFills(inbound, oid) <= QueuedFills(inbound, oid)
    BY <1>2
  <2> QED BY <1>1, <1>3, <2>1, <2>2, LessKnown
<1>4. CASE Logon /\ inbound' = << >>
  <2> DEFINE t == << >>
  <2>1. /\ UNCHANGED <<orders, order_counter, book, spc, req>>
        /\ outbound' = outbound \/ outbound' = << >>
    BY <1>4 DEF Logon, strategy
  <2>2. t \in Seq(ExecutionReports) /\ Len(t) = 0
    OBVIOUS
  <2> HIDE DEF t
  <2>3. ASSUME NEW oid \in OrderIds PROVE QueuedFills(t, oid) <= QueuedFills(inbound, oid)
    <3> DEFINE v == ReportShares(t, oid)
    <3>1. v \in Seq(Int) /\ QueuedFills(t, oid) = SumOf(v)
      BY <2>2, QueuedFillsIsSum
    <3>2. Len(v) = 0 /\ \A i \in 1..Len(v) : v[i] = 0
      BY <2>2 DEF ReportShares
    <3> HIDE DEF v
    <3>3. QueuedFills(t, oid) = 0
      BY <3>1, <3>2, SumZero
    <3> QED BY <1>2, <3>3
  <2>4. \A k \in 1..Len(t) : \E j \in 1..Len(inbound) : t[k] = inbound[j]
    BY <2>2
  <2>5. inbound' = t
    BY <1>4 DEF t
  <2> QED BY <2>1, <2>2, <2>3, <2>4, <2>5, LessKnown
<1>5. CASE DropReport
  <2> DEFINE t == Tail(inbound)
  <2>1. /\ UNCHANGED <<orders, order_counter, book, spc, req, outbound>>
        /\ inbound' = t /\ inbound # << >>
    BY <1>5 DEF DropReport, Deliverable, strategy
  <2>2. /\ t \in Seq(ExecutionReports)
        /\ \A k \in 1..Len(t) : k + 1 \in 1..Len(inbound) /\ t[k] = inbound[k + 1]
    BY <1>1, <2>1
  <2>3. ASSUME NEW oid \in OrderIds PROVE QueuedFills(t, oid) <= QueuedFills(inbound, oid)
    <3> DEFINE x == IF Head(inbound).cl_ord_id = oid THEN Head(inbound).last_shares ELSE 0
               s == QueuedFills(t, oid)
    <3>1. QueuedFills(inbound, oid) = s + x /\ Head(inbound) \in ExecutionReports
      BY <1>1, <2>1, QueuedFillsTail
    <3>2. x \in Nat /\ s \in Nat
      BY <2>2, <3>1, QueuedFillsIsSum DEF ExecutionReports
    <3> HIDE DEF x, s
    <3>3. s <= QueuedFills(inbound, oid)
      BY <3>1, <3>2
    <3> QED BY <3>3 DEF s
  <2> HIDE DEF t
  <2> QED BY <2>1, <2>2, <2>3, LessKnown
<1> QED BY <1>3, <1>4, <1>5 DEF Logon

(* Every step of a life of the process with a slot left for every id. *)
LEMMA NextOrdersKnown ==
  ASSUME IndInv, IndInv', IdsIssued, SlotForAll, SlotForAll', OrdersKnown, [Next]_vars
  PROVE  OrdersKnown'
<1>1. order_counter \in Nat /\ order_counter' \in Nat
  BY DEF IndInv, TypeOK
<1>2. CASE Strategy
  <2>1. CASE (\E sym \in Symbols, side \in StrategySides, qty \in Quantities \ {0}, px \in Prices :
                SendOrder(sym, side, qty, px)) \/ CheckRisk \/ RecordOrder
    <3>1. /\ UNCHANGED <<orders, outbound, inbound, book>>
          /\ spc # "logged" /\ spc' # "booked"
          /\ order_counter' = order_counter \/ order_counter' = order_counter + 1
          /\ spc' = "logged" => order_counter' = order_counter + 1
      BY <2>1 DEF SendOrder, CheckRisk, RecordOrder, exchange
    <3> DEFINE p == Placed
               q == Placed'
               c == order_counter
    <3>2. p = c /\ (q = c \/ q = c + 1)
      <4>1. p = c
        BY <3>1 DEF Placed
      <4>2. CASE spc' = "logged"
        <5>1. q = order_counter' - 1 /\ order_counter' = c + 1
          BY <3>1, <4>2 DEF Placed
        <5> QED BY <1>1, <4>1, <5>1
      <4>3. CASE spc' # "logged"
        BY <3>1, <4>1, <4>3 DEF Placed
      <4> QED BY <4>2, <4>3
    <3>3. Placed <= Placed'
      <4> HIDE DEF p, q, c
      <4>1. c \in Nat
        BY <1>1 DEF c
      <4>2. p <= q
        BY <3>2, <4>1
      <4> QED BY <4>2 DEF p, q
    <3> QED BY <1>1, <3>1, <3>3, KnownStays
  <2>2. CASE ProjectOrder
    BY <2>2, ProjectOrderKnown
  <2>3. CASE TransmitOrder
    BY <2>3, TransmitOrderKnown DEF SlotForAll
  <2> QED BY <1>2, <2>1, <2>2, <2>3 DEF Strategy
<1>3. CASE IOThread
  <2>1. CASE Logout \/ TakeReport \/ LogReport \/ TrackReport
    <3>1. UNCHANGED <<orders, outbound, inbound, book, order_counter, spc, req>>
      BY <2>1 DEF Logout, TakeReport, LogReport, TrackReport, strategy, exchange
    <3>2. Placed <= Placed'
      BY <1>1, <3>1 DEF Placed
    <3> QED BY <1>1, <3>1, <3>2, KnownStays
  <2>2. CASE Logon \/ DropReport
    BY <2>2, SessionKnown
  <2>3. CASE ProjectReport
    BY <2>3, ProjectReportKnown
  <2> QED BY <1>3, <2>1, <2>2, <2>3 DEF IOThread
<1>4. CASE Process
  BY <1>4 DEF Process, Crash, TerminateLogFull, Restart, Down, SlotForAll, OneLife
<1>5. CASE Exchange
  <2>1. CASE AcceptOrder \/ RefuseOrder
    BY <2>1, TakenKnown DEF SlotForAll
  <2>2. ASSUME NEW oid \in OrderIds, NEW qty \in Quantities \ {0}, NEW px \in Prices,
               Trade(oid, qty, px)
        PROVE  OrdersKnown'
    BY <2>2, TradeKnown
  <2>3. ASSUME NEW oid \in OrderIds, CancelOrder(oid) \/ ExpireOrder(oid) PROVE OrdersKnown'
    BY <2>3, EndKnown
  <2> QED BY <1>5, <2>1, <2>2, <2>3 DEF Exchange
<1>6. CASE UNCHANGED vars
  <2>1. UNCHANGED <<orders, outbound, inbound, book, order_counter, spc, req>>
    BY <1>6 DEF vars, strategy, exchange
  <2>2. Placed <= Placed'
    BY <1>1, <2>1 DEF Placed
  <2> QED BY <1>1, <2>1, <2>2, KnownStays
<1> QED BY <1>2, <1>3, <1>4, <1>5, <1>6 DEF Next

(* There are no orders at the start. *)
LEMMA InitOrdersKnown == Init => OrdersKnown
<1> SUFFICES ASSUME Init PROVE OrdersKnown
  OBVIOUS
<1>1. orders = << >> /\ outbound = << >> /\ spc = "idle" /\ order_counter = 0
  BY DEF Init, InitOrders
<1>2. \A oid \in OrderIds : book[oid].state = "None"
  BY DEF Init
<1>3. Placed = 0
  BY <1>1 DEF Placed
<1>4. \A oid \in OrderIds : Covered(book, inbound, orders, oid)
  BY <1>2 DEF Covered
<1> QED BY <1>1, <1>3, <1>4 DEF OrdersKnown

(* Every order that is on its way or at the exchange is one of send_order(). *)
OrdOnly ==
  /\ \A k \in 1..Len(outbound) :
       outbound[k].msg_type = "NewOrderSingle" => outbound[k].cl_ord_id[1] = "ORD"
  /\ \A oid \in OrderIds : book[oid].state # "None" => oid[1] = "ORD"

(* As long as the process lives and the killswitch sends nothing, no other *)
(* order appears.                                                          *)
LEMMA NextOrdOnly ==
  ASSUME IndInv, IdsIssued, OrdOnly, up, up', [Next]_vars
  PROVE  OrdOnly'
<1>1. book \in [OrderIds -> BookEntry] /\ outbound \in Seq(Messages)
  BY DEF IndInv, TypeOK, BookEntry
<1>2. CASE UNCHANGED <<outbound, book>>
  BY <1>2 DEF OrdOnly
<1>3. CASE Logon
  BY <1>3 DEF Logon, OrdOnly
<1>4. CASE TransmitOrder
  <2> DEFINE m == ToNewOrderSingle(req)
  <2>1. spc = "booked" /\ outbound' = Append(outbound, m) /\ book' = book
    BY <1>4 DEF TransmitOrder
  <2>2. m.cl_ord_id[1] = "ORD"
    BY <2>1 DEF IdsIssued, ToNewOrderSingle, OrdId
  <2> HIDE DEF m
  <2>3. \A k \in 1..Len(outbound') : \/ outbound'[k] = m
                                     \/ k \in 1..Len(outbound) /\ outbound'[k] = outbound[k]
    BY <1>1, <2>1
  <2> QED BY <2>1, <2>2, <2>3 DEF OrdOnly
<1>5. CASE AcceptOrder \/ RefuseOrder
  <2> DEFINE o == Head(outbound)
  <2>1. /\ outbound # << >> /\ outbound' = Tail(outbound) /\ o.msg_type = "NewOrderSingle"
        /\ book' = book \/ \E b : book' = [book EXCEPT ![o.cl_ord_id] = b]
    BY <1>5 DEF AcceptOrder, RefuseOrder
  <2>2. /\ o = outbound[1] /\ 1 \in 1..Len(outbound) /\ o.cl_ord_id \in OrderIds
        /\ \A k \in 1..Len(outbound') : k + 1 \in 1..Len(outbound) /\ outbound'[k] = outbound[k + 1]
    BY <2>1, OrdersTail
  <2>3. o.cl_ord_id[1] = "ORD"
    BY <2>1, <2>2 DEF OrdOnly
  <2>4. ASSUME NEW k \in 1..Len(outbound'), outbound'[k].msg_type = "NewOrderSingle"
        PROVE  outbound'[k].cl_ord_id[1] = "ORD"
    BY <2>2, <2>4 DEF OrdOnly
  <2> HIDE DEF o
  <2>5. ASSUME NEW oid \in OrderIds, book'[oid].state # "None" PROVE oid[1] = "ORD"
    <3>1. oid = o.cl_ord_id \/ book'[oid] = book[oid]
      BY <1>1, <2>1, <2>2
    <3> QED BY <2>3, <2>5, <3>1 DEF OrdOnly
  <2> QED BY <2>4, <2>5 DEF OrdOnly
<1>6. ASSUME NEW x \in OrderIds,
             \/ CancelOrder(x) \/ ExpireOrder(x)
             \/ \E qty \in Quantities \ {0}, px \in Prices : Trade(x, qty, px)
      PROVE  OrdOnly'
  <2>1. book[x].state = "Live" /\ outbound' = outbound
    BY <1>6 DEF CancelOrder, ExpireOrder, Trade
  <2>2. \A oid \in OrderIds : oid # x => book'[oid] = book[oid]
    BY <1>1, <1>6 DEF CancelOrder, ExpireOrder, Trade
  <2>3. x[1] = "ORD"
    BY <2>1 DEF OrdOnly
  <2> QED BY <2>1, <2>2, <2>3 DEF OrdOnly
<1>7. CASE Strategy
  BY <1>2, <1>4, <1>7 DEF Strategy, SendOrder, CheckRisk, RecordOrder, ProjectOrder, exchange
<1>8. CASE IOThread
  BY <1>2, <1>3, <1>8 DEF IOThread, Logout, DropReport, TakeReport, LogReport, TrackReport,
                          ProjectReport, exchange
<1>9. CASE Process \/ UNCHANGED vars
  BY <1>2, <1>9 DEF Process, Crash, TerminateLogFull, Restart, Down, vars, exchange
<1> QED BY <1>5, <1>6, <1>7, <1>8, <1>9 DEF Next, Exchange

(* There are no orders at the start. *)
LEMMA InitOrdOnly == Init => OrdOnly
<1> SUFFICES ASSUME Init PROVE OrdOnly
  OBVIOUS
<1>1. outbound = << >> /\ \A oid \in OrderIds : book[oid].state = "None"
  BY DEF Init
<1> QED BY <1>1 DEF OrdOnly

(* main.cpp: "positions and open orders are reconstructed correctly".  As  *)
(* long as the process lives, has given out no more than 100000 ids and    *)
(* has a slot for each, every order that is live at the exchange is open   *)
(* in the order manager: no interleaving of the threads, no reset of the   *)
(* session and no report closes it there first, or hides it from cancel    *)
(* and exposure.                                                           *)
THEOREM GatewayLiveOrdersKnown == Spec /\ []SlotForAll => []LiveOrdersKnown
<1> DEFINE Inv == IdsIssued /\ OrdersKnown /\ OrdOnly
<1>1. Init => Inv
  BY InitLife, InitOrdersKnown, InitOrdOnly
<1>2. IndInv /\ IndInv' /\ SlotForAll /\ SlotForAll' /\ Inv /\ [Next]_vars => Inv'
  BY NextIdsIssued, NextOrdersKnown, NextOrdOnly DEF SlotForAll, OneLife
<1>3. IndInv /\ OrdersKnown /\ OrdOnly => LiveOrdersKnown
  <2> SUFFICES ASSUME IndInv, OrdersKnown, OrdOnly, NEW oid \in OrderIds, book[oid].state = "Live"
               PROVE  \E i \in 1..Len(orders) : orders[i].order_id = oid /\ IsOpen(orders[i])
    BY DEF LiveOrdersKnown
  <2> DEFINE i == FindOrder(orders, oid)
  <2>1. orders \in Seq(Order)
    BY DEF IndInv, TypeOK
  <2>2. i # 0 /\ IsOpen(orders[i])
    BY DEF OrdersKnown, OrdOnly, Covered, KnownSlot, OpenSlot
  <2>3. i \in 0..Len(orders) /\ (i # 0 => orders[i].order_id = oid)
    BY <2>1, FindOrderProps
  <2> HIDE DEF i
  <2>4. i \in 1..Len(orders)
    BY <2>2, <2>3
  <2> QED BY <2>2, <2>3, <2>4
<1> QED BY <1>1, <1>2, <1>3, GatewayInductive, PTL DEF Spec
-----------------------------------------------------------------------------
(***************************************************************************)
(* What becomes of the open slots once the exchange is done with an order. *)
(***************************************************************************)

(* The reports after which the exchange has nothing more to say. *)
Closing == {"Fill", "Canceled", "Rejected"}

(* The order of an open slot is with send_order(), on its way, live,       *)
(* expired, or about to be closed by a report.  w are the ids of the call  *)
(* at hand.                                                                *)
Due(bk, rs, out, w, x) ==
  \/ x \in w
  \/ \E k \in 1..Len(out) : out[k].cl_ord_id = x
  \/ bk[x].state \in {"Live", "Expired"}
  \/ \E k \in 1..Len(rs) : rs[k].cl_ord_id = x /\ rs[k].exec_type \in Closing

Booked == IF spc = "booked" THEN {req.order_id} ELSE {}

(* A slot counts what the exchange traded up to the reports under way, and *)
(* is closed by the last report of its order.                              *)
SlotDue(bk, rs, out, w, o) ==
  /\ o.filled_qty + QueuedFills(rs, o.order_id) = bk[o.order_id].filled
  /\ bk[o.order_id].state # "None" => o.original_qty = bk[o.order_id].qty
  /\ IsOpen(o) => Due(bk, rs, out, w, o.order_id)
  /\ ~IsOpen(o) => Unreported(rs, o.order_id)

OrderDue(bk, rs, x) ==
  /\ bk[x].state = "None" => bk[x].filled = 0
  /\ bk[x].state \in {"Cancelled", "Expired"} => bk[x].filled < bk[x].qty
  /\ bk[x].state = "Filled" => bk[x].filled = bk[x].qty
  /\ bk[x].state = "Filled" /\ ~Unreported(rs, x) =>
       \E k \in 1..Len(rs) : rs[k].cl_ord_id = x /\ rs[k].exec_type = "Fill"

ReportsDue(bk, rs) ==
  \A k \in 1..Len(rs) :
    /\ rs[k].exec_type \in Closing =>
         \A j \in 1..Len(rs) : j > k => rs[j].cl_ord_id # rs[k].cl_ord_id
    /\ rs[k].exec_type = "Fill" => bk[rs[k].cl_ord_id].state = "Filled"
    /\ rs[k].last_shares > 0 => bk[rs[k].cl_ord_id].state # "None"

IdsDiffer(os) == \A i, j \in 1..Len(os) : os[i].order_id = os[j].order_id => i = j

LingersIn(os, bk, rs, out, w) ==
  /\ IdsDiffer(os)
  /\ \A i \in 1..Len(os) : SlotDue(bk, rs, out, w, os[i])
  /\ \A oid \in OrderIds : OrderDue(bk, rs, oid)
  /\ ReportsDue(bk, rs)

(* Only the orders in z may be open with nothing due. *)
LingersBut(z) == LingersIn(orders, book, inbound, outbound, Booked \cup z)

NothingLingers == LingersIn(orders, book, inbound, outbound, Booked)

(* With one slot for an id, find() gives that slot. *)
LEMMA SlotFound ==
  ASSUME NEW os \in Seq(Order), IdsDiffer(os), NEW i \in 1..Len(os)
  PROVE  FindOrder(os, os[i].order_id) = i
<1> DEFINE f == FindOrder(os, os[i].order_id)
<1>1. /\ f \in 0..Len(os) /\ (f # 0 => os[f].order_id = os[i].order_id)
      /\ f = 0 => \A j \in 1..Len(os) : os[j].order_id # os[i].order_id
  BY FindOrderProps
<1> HIDE DEF f
<1>2. f # 0
  BY <1>1
<1>3. f = i
  BY <1>1, <1>2 DEF IdsDiffer
<1> QED BY <1>3 DEF f

(* Nothing is under way for an order no report is about. *)
LEMMA UnreportedFills ==
  ASSUME NEW rs \in Seq(ExecutionReports), NEW oid, Unreported(rs, oid)
  PROVE  QueuedFills(rs, oid) = 0
<1> DEFINE v == ReportShares(rs, oid)
<1>1. v \in Seq(Int) /\ QueuedFills(rs, oid) = SumOf(v)
  BY QueuedFillsIsSum
<1>2. \A k \in 1..Len(v) : v[k] = 0
  <2>1. Len(v) = Len(rs) /\ \A k \in 1..Len(rs) : v[k] = IF rs[k].cl_ord_id = oid THEN rs[k].last_shares ELSE 0
    BY DEF ReportShares
  <2> HIDE DEF v
  <2> QED BY <2>1 DEF Unreported
<1> HIDE DEF v
<1> QED BY <1>1, <1>2, SumZero

(* A report under way is part of what is under way for its order. *)
LEMMA ReportedFills ==
  ASSUME NEW rs \in Seq(ExecutionReports), NEW i \in 1..Len(rs)
  PROVE  QueuedFills(rs, rs[i].cl_ord_id) >= rs[i].last_shares
<1> DEFINE oid == rs[i].cl_ord_id
           v == ReportShares(rs, oid)
           w == [v EXCEPT ![i] = 0]
           x == rs[i].last_shares
<1>1. v \in Seq(Nat) /\ v \in Seq(Int) /\ QueuedFills(rs, oid) = SumOf(v)
  BY QueuedFillsIsSum
<1>2. Len(v) = Len(rs) /\ v[i] = x /\ i \in 1..Len(v)
  BY DEF ReportShares
<1>3. x \in Nat
  <2>1. rs[i] \in ExecutionReports
    OBVIOUS
  <2> QED BY <2>1 DEF ExecutionReports
<1> HIDE DEF v, x, oid
<1>4. w \in Seq(Nat)
  <2>1. \A k \in 1..Len(v) : v[k] \in Nat
    BY <1>1
  <2>2. w \in Seq(Int) /\ Len(w) = Len(v) /\ \A k \in 1..Len(w) : w[k] = IF k = i THEN 0 ELSE v[k]
    BY <1>1, <1>2
  <2> HIDE DEF w
  <2>3. Len(w) \in Nat /\ \A k \in 1..Len(w) : w[k] \in Nat
    BY <2>1, <2>2
  <2> QED BY <2>2, <2>3
<1>5. SumOf(w) = (SumOf(v) + 0) - v[i]
  BY <1>1, <1>2, SumExcept
<1>6. SumOf(w) \in Nat /\ SumOf(v) \in Nat
  BY <1>1, <1>4, SumOfNaturals
<1> HIDE DEF w
<1> DEFINE a == SumOf(v)
           b == SumOf(w)
<1>7. a \in Nat /\ b \in Nat /\ b = (a + 0) - x
  BY <1>2, <1>5, <1>6
<1> HIDE DEF a, b
<1>8. a >= x
  BY <1>3, <1>7
<1> QED BY <1>1, <1>8 DEF a, x, oid

(* A step that touches neither the orders nor what is under way. *)
LEMMA LingersStays ==
  ASSUME NEW z, LingersBut(z), UNCHANGED <<orders, outbound, inbound, book, Booked>>
  PROVE  LingersBut(z)'
  BY DEF LingersBut

(* A report r that the exchange sends as its book turns from bk to bl: it  *)
(* says what happened, and nothing comes after a closing one.              *)
ReportFits(bk, bl, rs, os, r) ==
  LET x == r.cl_ord_id
  IN  /\ \A id \in OrderIds : id # x => bl[id] = bk[id]
      /\ bl[x].filled = bk[x].filled + r.last_shares
      /\ bl[x].state = "None" => bk[x].state = "None" /\ bl[x].filled = 0
      /\ bl[x].state \in {"Cancelled", "Expired"} => bl[x].filled < bl[x].qty
      /\ bl[x].state = "Filled" => bl[x].filled = bl[x].qty
      /\ bl[x].state \in {"Live", "Expired"} \/ r.exec_type \in Closing
      /\ r.exec_type = "Fill" <=> bl[x].state = "Filled"
      /\ r.last_shares > 0 => bl[x].state # "None"
      /\ \A k \in 1..Len(rs) : rs[k].cl_ord_id = x => rs[k].exec_type \notin Closing
      /\ \A i \in 1..Len(os) : os[i].order_id = x =>
           /\ IsOpen(os[i])
           /\ bl[x].state # "None" => os[i].original_qty = bl[x].qty

(* Such a report joins the ones under way. *)
LEMMA ReportJoins ==
  ASSUME NEW os \in Seq(Order), NEW bk \in Books, NEW bl, NEW rs \in Seq(ExecutionReports),
         NEW out \in Seq(Messages), NEW ou, NEW w, NEW r \in ExecutionReports,
         LingersIn(os, bk, rs, out, w), ReportFits(bk, bl, rs, os, r),
         \/ ou = out
         \/ out # << >> /\ Head(out).cl_ord_id = r.cl_ord_id /\ ou = Tail(out)
  PROVE  LingersIn(os, bl, Append(rs, r), ou, w)
<1> DEFINE ts == Append(rs, r)
           n == Len(rs)
           x == r.cl_ord_id
<1>1. /\ rs \in Seq(ExecutionReports) /\ bk \in Books /\ os \in Seq(Order) /\ x \in OrderIds
      /\ r.last_shares \in Nat
  BY DEF ExecutionReports
<1>2. /\ n \in Nat /\ Len(ts) = n + 1 /\ ts[n + 1] = r /\ n + 1 \in 1..Len(ts)
      /\ \A k \in 1..n : k \in 1..Len(ts) /\ ts[k] = rs[k]
      /\ \A k \in 1..Len(ts) : k \in 1..n \/ k = n + 1
  BY <1>1
<1>3. \A id \in OrderIds : id # x /\ (\E k \in 1..Len(out) : out[k].cl_ord_id = id) =>
                             \E k \in 1..Len(ou) : ou[k].cl_ord_id = id
  <2>1. CASE ou = out
    BY <2>1
  <2>2. CASE out # << >> /\ Head(out).cl_ord_id = x /\ ou = Tail(out)
    <3> SUFFICES ASSUME NEW k \in 1..Len(out), out[k].cl_ord_id # x
                 PROVE  \E j \in 1..Len(ou) : ou[j] = out[k]
      BY Zenon
    <3>1. out \in Seq(Messages) /\ ou = Tail(out)
      BY <2>2
    <3>2. k # 1
      BY <2>2, <3>1
    <3>3. k - 1 \in 1..Len(ou) /\ ou[k - 1] = out[(k - 1) + 1] /\ (k - 1) + 1 = k
      BY <3>1, <3>2
    <3> QED BY <3>3
  <2> QED BY <2>1, <2>2
<1>4. \A oid : QueuedFills(ts, oid) = QueuedFills(rs, oid) + IF x = oid THEN r.last_shares ELSE 0
  BY <1>1, QueuedFillsAppend
<1>5. \A oid : QueuedFills(rs, oid) \in Nat
  BY <1>1, QueuedFillsIsSum
<1>6. \A id \in OrderIds : bk[id].filled \in Nat
  BY <1>1 DEF Books, BookEntry
<1>7. /\ \A id \in OrderIds : id # x => bl[id] = bk[id]
      /\ bl[x].filled = bk[x].filled + r.last_shares
      /\ bl[x].state = "None" => bk[x].state = "None" /\ bl[x].filled = 0
      /\ bl[x].state \in {"Cancelled", "Expired"} => bl[x].filled < bl[x].qty
      /\ bl[x].state = "Filled" => bl[x].filled = bl[x].qty
      /\ bl[x].state \in {"Live", "Expired"} \/ r.exec_type \in Closing
      /\ r.exec_type = "Fill" <=> bl[x].state = "Filled"
      /\ r.last_shares > 0 => bl[x].state # "None"
      /\ \A k \in 1..n : rs[k].cl_ord_id = x => rs[k].exec_type \notin Closing
      /\ \A i \in 1..Len(os) : os[i].order_id = x =>
           /\ IsOpen(os[i])
           /\ bl[x].state # "None" => os[i].original_qty = bl[x].qty
  BY DEF ReportFits
<1>8. /\ \A i \in 1..Len(os) : SlotDue(bk, rs, out, w, os[i])
      /\ \A oid \in OrderIds : OrderDue(bk, rs, oid)
      /\ ReportsDue(bk, rs) /\ IdsDiffer(os)
  BY DEF LingersIn
<1> HIDE DEF ts, n, x
<1>9. \A id \in OrderIds : id # x =>
        /\ Due(bk, rs, out, w, id) => Due(bl, ts, ou, w, id)
        /\ Unreported(rs, id) <=> Unreported(ts, id)
  <2> SUFFICES ASSUME NEW id \in OrderIds, id # x
               PROVE  /\ Due(bk, rs, out, w, id) => Due(bl, ts, ou, w, id)
                      /\ Unreported(rs, id) <=> Unreported(ts, id)
    BY Zenon
  <2>1. Unreported(rs, id) <=> Unreported(ts, id)
    BY <1>2 DEF Unreported, x, n
  <2>2. (\E k \in 1..Len(rs) : rs[k].cl_ord_id = id /\ rs[k].exec_type \in Closing) =>
          \E k \in 1..Len(ts) : ts[k].cl_ord_id = id /\ ts[k].exec_type \in Closing
    BY <1>2 DEF n
  <2>3. bl[id] = bk[id]
    BY <1>7
  <2>4. Due(bk, rs, out, w, id) => Due(bl, ts, ou, w, id)
    BY <1>3, <2>2, <2>3 DEF Due
  <2> QED BY <2>1, <2>4
<1>10. ASSUME NEW i \in 1..Len(os) PROVE SlotDue(bl, ts, ou, w, os[i])
  <2> DEFINE o == os[i]
             id == o.order_id
             q == QueuedFills(rs, id)
             s == QueuedFills(ts, id)
  <2>1. o \in Order
    BY <1>1
  <2>2. id \in OrderIds /\ o.filled_qty \in Int
    BY <2>1 DEF Order
  <2>3. SlotDue(bk, rs, out, w, o) /\ q \in Nat
    BY <1>5, <1>8
  <2>4. CASE id # x
    <3>1. s = q
      <4>1. s = q + 0
        BY <1>4, <2>4
      <4> HIDE DEF q, s
      <4> QED BY <2>3, <4>1
    <3>2. bl[id] = bk[id]
      BY <1>7, <2>2, <2>4
    <3>3. IsOpen(o) => Due(bl, ts, ou, w, id)
      BY <1>9, <2>2, <2>3, <2>4 DEF SlotDue
    <3>4. ~IsOpen(o) => Unreported(ts, id)
      BY <1>9, <2>2, <2>3, <2>4 DEF SlotDue
    <3> QED BY <2>3, <3>1, <3>2, <3>3, <3>4 DEF SlotDue
  <2>5. CASE id = x
    <3>1. IsOpen(o) /\ (bl[x].state # "None" => o.original_qty = bl[x].qty)
      BY <1>7, <2>5
    <3>2. Due(bl, ts, ou, w, x)
      <4>1. ts[n + 1].cl_ord_id = x /\ ts[n + 1].exec_type = r.exec_type
        BY <1>2 DEF x
      <4> QED BY <1>2, <1>7, <4>1 DEF Due
    <3>3. o.filled_qty + s = bl[x].filled
      <4>1. s = q + r.last_shares /\ o.filled_qty + q = bk[x].filled
        BY <1>4, <2>3, <2>5 DEF SlotDue
      <4> DEFINE a == o.filled_qty
                 c == r.last_shares
                 g == bk[x].filled
      <4>2. a \in Int /\ c \in Nat /\ g \in Nat /\ bl[x].filled = g + c
        BY <1>1, <1>6, <1>7, <2>2
      <4> HIDE DEF a, c, g, q, s
      <4>3. s = q + c /\ a + q = g
        BY <4>1 DEF a, c, g
      <4>4. a + s = g + c
        BY <2>3, <4>2, <4>3
      <4> QED BY <4>2, <4>4 DEF a
    <3> QED BY <2>5, <3>1, <3>2, <3>3 DEF SlotDue
  <2> QED BY <2>4, <2>5
<1>11. ASSUME NEW id \in OrderIds PROVE OrderDue(bl, ts, id)
  <2>1. OrderDue(bk, rs, id)
    BY <1>8
  <2>2. CASE id # x
    <3>1. bl[id] = bk[id] /\ (Unreported(rs, id) <=> Unreported(ts, id))
      BY <1>7, <1>9, <2>2
    <3>2. (\E k \in 1..Len(rs) : rs[k].cl_ord_id = id /\ rs[k].exec_type = "Fill") =>
            \E k \in 1..Len(ts) : ts[k].cl_ord_id = id /\ ts[k].exec_type = "Fill"
      BY <1>2 DEF n
    <3> QED BY <2>1, <3>1, <3>2 DEF OrderDue
  <2>3. CASE id = x
    <3>1. ts[n + 1].cl_ord_id = x /\ ts[n + 1].exec_type = r.exec_type
      BY <1>2 DEF x
    <3> QED BY <1>2, <1>7, <2>3, <3>1 DEF OrderDue
  <2> QED BY <2>2, <2>3
<1>12. ReportsDue(bl, ts)
  <2> SUFFICES ASSUME NEW k \in 1..Len(ts)
               PROVE  /\ ts[k].exec_type \in Closing =>
                           \A j \in 1..Len(ts) : j > k => ts[j].cl_ord_id # ts[k].cl_ord_id
                      /\ ts[k].exec_type = "Fill" => bl[ts[k].cl_ord_id].state = "Filled"
                      /\ ts[k].last_shares > 0 => bl[ts[k].cl_ord_id].state # "None"
    BY DEF ReportsDue
  <2>1. CASE k = n + 1
    <3>1. ts[k] = r /\ r.cl_ord_id = x /\ \A j \in 1..Len(ts) : ~(j > k)
      BY <1>2, <2>1 DEF x
    <3> QED BY <1>7, <3>1
  <2>2. CASE k \in 1..n
    <3> DEFINE id == rs[k].cl_ord_id
    <3>1. ts[k] = rs[k] /\ id \in OrderIds
      <4>1. rs[k] \in ExecutionReports
        BY <1>1, <2>2 DEF n
      <4> QED BY <1>2, <2>2, <4>1 DEF ExecutionReports
    <3>2. /\ rs[k].exec_type \in Closing => \A j \in 1..n : j > k => rs[j].cl_ord_id # id
          /\ rs[k].exec_type = "Fill" => bk[id].state = "Filled"
          /\ rs[k].last_shares > 0 => bk[id].state # "None"
      BY <1>8, <2>2 DEF ReportsDue, n
    <3>3. rs[k].exec_type \in Closing => id # x
      BY <1>7, <2>2
    <3>4. id # x => bl[id] = bk[id]
      BY <1>7, <3>1
    <3>5. rs[k].exec_type \in Closing => \A j \in 1..Len(ts) : j > k => ts[j].cl_ord_id # id
      <4> SUFFICES ASSUME rs[k].exec_type \in Closing, NEW j \in 1..Len(ts), j > k
                   PROVE  ts[j].cl_ord_id # id
        OBVIOUS
      <4>1. CASE j = n + 1
        BY <1>2, <3>3, <4>1 DEF x
      <4>2. CASE j \in 1..n
        BY <1>2, <3>2, <4>2
      <4> QED BY <1>2, <4>1, <4>2
    <3>6. rs[k].exec_type = "Fill" => bl[id].state = "Filled"
      BY <3>2, <3>3, <3>4 DEF Closing
    <3>7. rs[k].last_shares > 0 => bl[id].state # "None"
      BY <1>7, <3>2, <3>4
    <3> QED BY <3>1, <3>5, <3>6, <3>7
  <2> QED BY <1>2, <2>1, <2>2
<1> QED BY <1>8, <1>10, <1>11, <1>12 DEF LingersIn, ts

(* ... in a step of the exchange. *)
LEMMA ReportLingers ==
  ASSUME NEW z, IndInv, LingersBut(z), UNCHANGED <<orders, spc, req>>,
         NEW r \in ExecutionReports, inbound' = Append(inbound, r),
         ReportFits(book, book', inbound, orders, r),
         \/ outbound' = outbound
         \/ outbound # << >> /\ Head(outbound).cl_ord_id = r.cl_ord_id /\ outbound' = Tail(outbound)
  PROVE  LingersBut(z)'
<1>1. /\ orders \in Seq(Order) /\ book \in Books /\ inbound \in Seq(ExecutionReports)
      /\ outbound \in Seq(Messages)
  BY DEF IndInv, TypeOK, Books, BookEntry
<1>2. LingersIn(orders, book, inbound, outbound, Booked \cup z)
  BY DEF LingersBut
<1>3. LingersIn(orders, book', Append(inbound, r), outbound', Booked \cup z)
  BY <1>1, <1>2, ReportJoins
<1>4. Booked' = Booked
  BY DEF Booked
<1> QED BY <1>3, <1>4 DEF LingersBut

(* The slots of an order that find() gives an open slot for. *)
LEMMA SlotIsOpen ==
  ASSUME NEW os \in Seq(Order), IdsDiffer(os), NEW x, NEW sym, NEW side, NEW qty, NEW n,
         KnownSlot(os, x, sym, side, qty, n), NEW i \in 1..Len(os), os[i].order_id = x,
         x[1] = "ORD"
  PROVE  IsOpen(os[i]) /\ os[i].symbol = sym /\ os[i].original_qty = qty
<1>1. FindOrder(os, x) = i
  BY SlotFound
<1> QED BY <1>1 DEF KnownSlot, OpenSlot

(* The exchange takes an order that is on its way, or refuses it. *)
LEMMA TakenLingers ==
  ASSUME NEW z, IndInv, OrdersKnown, LingersBut(z), AcceptOrder \/ RefuseOrder
  PROVE  LingersBut(z)'
<1> DEFINE o == Head(outbound)
           x == o.cl_ord_id
<1>1. /\ outbound # << >> /\ outbound' = Tail(outbound) /\ o.msg_type = "NewOrderSingle"
      /\ UNCHANGED <<orders, spc, req>>
  BY DEF AcceptOrder, RefuseOrder, strategy
<1>2. /\ o = outbound[1] /\ 1 \in 1..Len(outbound)
      /\ x \in OrderIds /\ o.symbol \in Symbols /\ o.side \in Sides /\ o.order_qty \in Nat
  BY <1>1, OrdersTail
<1>3. Awaited(book, inbound, orders, x, o.symbol, o.side, o.order_qty)
  BY <1>1, <1>2 DEF OrdersKnown, OnTheWay
<1>4. /\ orders \in Seq(Order) /\ IdsDiffer(orders) /\ book \in [OrderIds -> BookEntry]
      /\ book[x].filled = 0 /\ book[x].state = "None"
  BY <1>2, <1>3 DEF IndInv, TypeOK, BookEntry, LingersBut, LingersIn, OrderDue, Awaited
<1>5. /\ \A k \in 1..Len(inbound) : inbound[k].cl_ord_id # x
      /\ KnownSlot(orders, x, o.symbol, o.side, o.order_qty, 0)
      /\ \A i \in 1..Len(orders) : orders[i].order_id[1] = "ORD"
  BY <1>3 DEF Awaited, Unreported, OrdersKnown
<1>6. \A i \in 1..Len(orders) :
        orders[i].order_id = x => IsOpen(orders[i]) /\ orders[i].original_qty = o.order_qty
  <2> HIDE DEF x, o
  <2> QED BY <1>4, <1>5, SlotIsOpen
<1>7. CASE AcceptOrder
  <2> DEFINE b == [ state |-> "Live", symbol |-> o.symbol, side |-> o.side, qty |-> o.order_qty,
                    filled |-> 0 ]
             r == Report("New", x, o.symbol, o.side, 0, 0)
  <2>1. inbound' = Append(inbound, r) /\ book' = [book EXCEPT ![x] = b]
    BY <1>7 DEF AcceptOrder
  <2>2. "New" \in ExecTypes /\ 0 \in Nat /\ (0 > 0 <=> "New" \in {"PartialFill", "Fill"})
    BY DEF ExecTypes
  <2>3. b.state = "Live" /\ b.filled = 0 /\ b.qty = o.order_qty
    OBVIOUS
  <2> HIDE DEF o, x, b
  <2>4. r \in ExecutionReports /\ r.last_shares = 0 /\ r.cl_ord_id = x /\ r.exec_type = "New"
    BY <1>2, <2>2 DEF Report, ExecutionReports
  <2>5. book'[x] = b /\ \A id \in OrderIds : id # x => book'[id] = book[id]
    BY <1>2, <1>4, <2>1
  <2> HIDE DEF r
  <2>6. ReportFits(book, book', inbound, orders, r)
    BY <1>4, <1>5, <1>6, <2>3, <2>4, <2>5 DEF ReportFits
  <2>7. Head(outbound).cl_ord_id = r.cl_ord_id
    BY <2>4 DEF x, o
  <2> QED BY <1>1, <2>1, <2>4, <2>6, <2>7, ReportLingers
<1>8. CASE RefuseOrder
  <2> DEFINE r == Report("Rejected", x, o.symbol, o.side, 0, 0)
  <2>1. inbound' = Append(inbound, r) /\ book' = book
    BY <1>8 DEF RefuseOrder
  <2>2. "Rejected" \in ExecTypes /\ 0 \in Nat /\ (0 > 0 <=> "Rejected" \in {"PartialFill", "Fill"})
    BY DEF ExecTypes
  <2> HIDE DEF o, x
  <2>3. r \in ExecutionReports /\ r.last_shares = 0 /\ r.cl_ord_id = x /\ r.exec_type = "Rejected"
    BY <1>2, <2>2 DEF Report, ExecutionReports
  <2> HIDE DEF r
  <2>4. ReportFits(book, book', inbound, orders, r)
    BY <1>4, <1>5, <1>6, <2>1, <2>3 DEF ReportFits, Closing
  <2>5. Head(outbound).cl_ord_id = r.cl_ord_id
    BY <2>3 DEF x, o
  <2> QED BY <1>1, <2>1, <2>3, <2>4, <2>5, ReportLingers
<1> QED BY <1>7, <1>8

(* A trade closes the order when nothing is left of it. *)
LEMMA TradeLingers ==
  ASSUME NEW z, IndInv, OrdersKnown, LingersBut(z), NEW oid \in OrderIds,
         NEW qty \in Quantities \ {0}, NEW px \in Prices, Trade(oid, qty, px)
  PROVE  LingersBut(z)'
<1> DEFINE b == book[oid]
           done == book[oid].filled + qty = book[oid].qty
           type == IF done THEN "Fill" ELSE "PartialFill"
           st == IF done THEN "Filled" ELSE "Live"
           n == book[oid].filled + qty
           r == Report(type, oid, book[oid].symbol, book[oid].side, qty, px)
<1>1. /\ book \in [OrderIds -> BookEntry] /\ orders \in Seq(Order) /\ IdsDiffer(orders)
  BY DEF IndInv, TypeOK, BookEntry, LingersBut, LingersIn
<1>2. /\ b.state = "Live" /\ inbound' = Append(inbound, r)
      /\ book' = [book EXCEPT ![oid].state = st, ![oid].filled = n]
      /\ UNCHANGED <<orders, spc, req, outbound>>
  BY DEF Trade, Tell, strategy
<1>3. b \in BookEntry /\ b.symbol \in Symbols /\ b.side \in Sides
  BY <1>1 DEF BookEntry
<1>4. /\ qty \in Nat /\ qty > 0 /\ px \in Nat
      /\ type \in ExecTypes /\ type \in {"PartialFill", "Fill"}
  BY QuantitiesAssumption, GatewayAssumption DEF ExecTypes
<1>5. /\ st \in {"Live", "Filled"} /\ (type = "Fill" <=> st = "Filled")
      /\ st = "Filled" => n = b.qty
  OBVIOUS
<1>6. n = b.filled + qty
  OBVIOUS
<1> HIDE DEF type, st, n
<1>7. /\ r \in ExecutionReports /\ r.last_shares = qty /\ r.cl_ord_id = oid /\ r.exec_type = type
  BY <1>2, <1>3, <1>4, ReportSent
<1>8. /\ book'[oid].state = st /\ book'[oid].filled = n /\ book'[oid].qty = b.qty
      /\ \A id \in OrderIds : id # oid => book'[id] = book[id]
  BY <1>1, <1>2, <1>3 DEF BookEntry
<1>9. /\ \A k \in 1..Len(inbound) :
           inbound[k].cl_ord_id = oid => inbound[k].exec_type \notin {"Fill", "Canceled", "Rejected"}
      /\ KnownSlot(orders, oid, b.symbol, b.side, b.qty, b.filled - QueuedFills(inbound, oid))
      /\ \A i \in 1..Len(orders) : orders[i].order_id[1] = "ORD"
  BY <1>2 DEF OrdersKnown, Covered
<1> HIDE DEF r, b
<1>10. \A i \in 1..Len(orders) :
         orders[i].order_id = oid => IsOpen(orders[i]) /\ orders[i].original_qty = b.qty
  BY <1>1, <1>9, SlotIsOpen
<1>11. b = book[oid]
  BY DEF b
<1>12. ReportFits(book, book', inbound, orders, r)
  <2>1. /\ book'[oid].filled = book[oid].filled + r.last_shares
        /\ book'[oid].state \notin {"None", "Cancelled", "Expired"}
        /\ book'[oid].state = "Filled" => book'[oid].filled = book'[oid].qty
        /\ book'[oid].state = "Live" \/ r.exec_type \in Closing
        /\ r.exec_type = "Fill" <=> book'[oid].state = "Filled"
    BY <1>5, <1>6, <1>7, <1>8, <1>11 DEF Closing
  <2>2. \A k \in 1..Len(inbound) : inbound[k].cl_ord_id = oid => inbound[k].exec_type \notin Closing
    BY <1>9 DEF Closing
  <2> QED BY <1>7, <1>8, <1>10, <2>1, <2>2 DEF ReportFits
<1> QED BY <1>2, <1>7, <1>12, ReportLingers

(* An order that is cancelled or expires has shares left. *)
LEMMA EndLingers ==
  ASSUME NEW z, IndInv, OrdersKnown, LingersBut(z), NEW oid \in OrderIds,
         CancelOrder(oid) \/ ExpireOrder(oid)
  PROVE  LingersBut(z)'
<1>0. PICK st, xt : Ends(oid, st, xt)
  BY OrderEnds
<1> DEFINE b == book[oid]
           r == Report(xt, oid, b.symbol, b.side, 0, 0)
<1>1. /\ book \in [OrderIds -> BookEntry] /\ orders \in Seq(Order) /\ IdsDiffer(orders)
  BY DEF IndInv, TypeOK, BookEntry, LingersBut, LingersIn
<1>2. /\ b.state = "Live" /\ inbound' = Append(inbound, r)
      /\ book' = [book EXCEPT ![oid].state = st]
      /\ UNCHANGED <<orders, spc, req, outbound>>
  BY <1>0 DEF Ends, strategy
<1>3. b \in BookEntry /\ b.symbol \in Symbols /\ b.side \in Sides /\ b.filled \in Nat
  BY <1>1 DEF BookEntry
<1>4. /\ xt \in ExecTypes /\ 0 \in Nat /\ (0 > 0 <=> xt \in {"PartialFill", "Fill"})
      /\ st \in {"Cancelled", "Expired"} /\ xt # "Fill" /\ (st = "Expired" \/ xt = "Canceled")
  BY <1>0 DEF ExecTypes, Ends
<1>5. /\ book'[oid].state = st /\ book'[oid].filled = b.filled /\ book'[oid].qty = b.qty
      /\ \A id \in OrderIds : id # oid => book'[id] = book[id]
  BY <1>1, <1>2, <1>3 DEF BookEntry
<1>6. /\ b.filled < b.qty
      /\ \A k \in 1..Len(inbound) :
           inbound[k].cl_ord_id = oid => inbound[k].exec_type \notin {"Fill", "Canceled", "Rejected"}
      /\ KnownSlot(orders, oid, b.symbol, b.side, b.qty, b.filled - QueuedFills(inbound, oid))
      /\ \A i \in 1..Len(orders) : orders[i].order_id[1] = "ORD"
  BY <1>2 DEF OrdersKnown, Covered
<1>7. b = book[oid]
  OBVIOUS
<1> HIDE DEF b
<1>8. \A i \in 1..Len(orders) :
        orders[i].order_id = oid => IsOpen(orders[i]) /\ orders[i].original_qty = b.qty
  BY <1>1, <1>6, SlotIsOpen
<1>9. r \in ExecutionReports /\ r.cl_ord_id = oid /\ r.last_shares = 0 /\ r.exec_type = xt
  BY <1>3, <1>4 DEF Report, ExecutionReports
<1> HIDE DEF r
<1>10. ReportFits(book, book', inbound, orders, r)
  BY <1>3, <1>4, <1>5, <1>6, <1>7, <1>8, <1>9 DEF ReportFits, Closing
<1> QED BY <1>2, <1>9, <1>10, ReportLingers

(* The first report leaves: what holds of the rest. *)
LEMMA TailLingers ==
  ASSUME NEW rs \in Seq(ExecutionReports), rs # << >>, NEW bk, ReportsDue(bk, rs),
         NEW x, x = Head(rs).cl_ord_id
  PROVE  LET t == Tail(rs)
         IN  /\ ReportsDue(bk, t)
             /\ \A id : OrderDue(bk, rs, id) => OrderDue(bk, t, id)
             /\ Head(rs).exec_type \in Closing => Unreported(t, x)
             /\ \A id : Unreported(rs, id) => Unreported(t, id) /\ id # x
             /\ \A id, out, w :
                  Due(bk, rs, out, w, id) /\ (id # x \/ Head(rs).exec_type \notin Closing) =>
                    Due(bk, t, out, w, id)
<1> DEFINE t == Tail(rs)
           r == Head(rs)
<1>1. /\ r = rs[1] /\ 1 \in 1..Len(rs) /\ Len(rs) \in Nat /\ Len(t) = Len(rs) - 1
      /\ \A k \in 1..Len(t) : k + 1 \in 1..Len(rs) /\ t[k] = rs[k + 1]
  OBVIOUS
<1>2. \A k \in 1..Len(rs) : k # 1 => k - 1 \in 1..Len(t) /\ t[k - 1] = rs[k]
  BY <1>1
<1> HIDE DEF t, r
<1>3. r.exec_type \in Closing => Unreported(t, x)
  <2> SUFFICES ASSUME r.exec_type \in Closing, NEW k \in 1..Len(t) PROVE t[k].cl_ord_id # x
    BY DEF Unreported
  <2>1. \A j \in 1..Len(rs) : j > 1 => rs[j].cl_ord_id # rs[1].cl_ord_id
    BY <1>1 DEF ReportsDue
  <2>2. k + 1 \in 1..Len(rs) /\ k + 1 > 1 /\ t[k] = rs[k + 1]
    BY <1>1
  <2>3. rs[k + 1].cl_ord_id # rs[1].cl_ord_id
    BY <2>1, <2>2
  <2> QED BY <1>1, <2>2, <2>3 DEF r
<1>4. ReportsDue(bk, t)
  <2> SUFFICES ASSUME NEW k \in 1..Len(t)
               PROVE  /\ t[k].exec_type \in Closing =>
                           \A j \in 1..Len(t) : j > k => t[j].cl_ord_id # t[k].cl_ord_id
                      /\ t[k].exec_type = "Fill" => bk[t[k].cl_ord_id].state = "Filled"
                      /\ t[k].last_shares > 0 => bk[t[k].cl_ord_id].state # "None"
    BY DEF ReportsDue
  <2> DEFINE i == k + 1
  <2>1. i \in 1..Len(rs) /\ t[k] = rs[i]
    BY <1>1
  <2>2. \A j \in 1..Len(t) : j > k => j + 1 \in 1..Len(rs) /\ t[j] = rs[j + 1] /\ j + 1 > i
    BY <1>1
  <2> HIDE DEF i
  <2>3. /\ rs[i].exec_type \in Closing =>
             \A j \in 1..Len(rs) : j > i => rs[j].cl_ord_id # rs[i].cl_ord_id
        /\ rs[i].exec_type = "Fill" => bk[rs[i].cl_ord_id].state = "Filled"
        /\ rs[i].last_shares > 0 => bk[rs[i].cl_ord_id].state # "None"
    BY <2>1 DEF ReportsDue
  <2> QED BY <2>1, <2>2, <2>3
<1>5. \A id : Unreported(rs, id) => Unreported(t, id) /\ id # x
  BY <1>1 DEF Unreported, r
<1>6. ASSUME NEW id, OrderDue(bk, rs, id) PROVE OrderDue(bk, t, id)
  <2> SUFFICES ASSUME bk[id].state = "Filled", ~Unreported(t, id)
               PROVE  \E k \in 1..Len(t) : t[k].cl_ord_id = id /\ t[k].exec_type = "Fill"
    BY <1>6 DEF OrderDue
  <2>1. ~Unreported(rs, id)
    BY <1>5
  <2>2. PICK k \in 1..Len(rs) : rs[k].cl_ord_id = id /\ rs[k].exec_type = "Fill"
    BY <1>6, <2>1 DEF OrderDue
  <2>3. k # 1
    <3> SUFFICES ASSUME k = 1 PROVE FALSE
      OBVIOUS
    <3>1. r.exec_type \in Closing /\ x = id
      BY <1>1, <2>2 DEF r, Closing
    <3> QED BY <1>3, <3>1
  <2> QED BY <1>2, <2>2, <2>3
<1>7. ASSUME NEW id, NEW out, NEW w, Due(bk, rs, out, w, id), id # x \/ r.exec_type \notin Closing
      PROVE  Due(bk, t, out, w, id)
  <2> SUFFICES ASSUME NEW k \in 1..Len(rs), rs[k].cl_ord_id = id, rs[k].exec_type \in Closing
               PROVE  \E j \in 1..Len(t) : t[j].cl_ord_id = id /\ t[j].exec_type \in Closing
    BY <1>7 DEF Due
  <2>1. k # 1
    BY <1>1, <1>7 DEF r
  <2> QED BY <1>2, <2>1
<1> QED BY <1>3, <1>4, <1>5, <1>6, <1>7 DEF t, r

(* A report that is no event closes nothing and has no shares. *)
LEMMA DropLingers ==
  ASSUME NEW z, IndInv, LingersBut(z), DropReport
  PROVE  LingersBut(z)'
<1> DEFINE r == Head(inbound)
           t == Tail(inbound)
           rs == inbound
<1>1. /\ inbound # << >> /\ inbound' = t /\ FromExecutionReport(r) = {}
      /\ UNCHANGED <<orders, book, outbound, spc, req>>
  BY DEF DropReport, Deliverable, strategy
<1>2. rs \in Seq(ExecutionReports) /\ r \in ExecutionReports /\ t \in Seq(ExecutionReports) /\ ReportOK(r)
  <2>1. inbound \in Seq(ExecutionReports) /\ \A k \in 1..Len(inbound) : ReportOK(inbound[k])
    BY DEF IndInv, TypeOK
  <2> QED BY <1>1, <2>1
<1>3. r.exec_type \notin {"PartialFill", "Fill", "Canceled", "Rejected"}
  BY <1>1, TranslatedEvents
<1>4. r.last_shares = 0 /\ r.exec_type \notin Closing
  BY <1>2, <1>3 DEF ReportOK, Closing, ExecutionReports
<1>5. \A oid : QueuedFills(rs, oid) = QueuedFills(t, oid)
  <2> SUFFICES ASSUME NEW oid PROVE QueuedFills(rs, oid) = QueuedFills(t, oid)
    OBVIOUS
  <2> DEFINE s == QueuedFills(t, oid)
  <2>1. s \in Nat
    BY <1>2, QueuedFillsIsSum
  <2>2. QueuedFills(rs, oid) = s + 0
    BY <1>1, <1>2, <1>4, QueuedFillsTail
  <2> HIDE DEF s, rs
  <2>3. QueuedFills(rs, oid) = s
    BY <2>1, <2>2
  <2> QED BY <2>3 DEF s
<1>6. ReportsDue(book, rs) /\ \A oid \in OrderIds : OrderDue(book, rs, oid)
  BY DEF LingersBut, LingersIn
<1>7. /\ ReportsDue(book, t)
      /\ \A id : OrderDue(book, rs, id) => OrderDue(book, t, id)
      /\ \A id : Unreported(rs, id) => Unreported(t, id)
      /\ \A id, out, w : Due(book, rs, out, w, id) => Due(book, t, out, w, id)
  BY <1>1, <1>2, <1>4, <1>6, TailLingers
<1> HIDE DEF t, r, rs
<1>8. \A i \in 1..Len(orders) : SlotDue(book, t, outbound, Booked \cup z, orders[i])
  BY <1>5, <1>7 DEF LingersBut, LingersIn, SlotDue, rs
<1>9. Booked' = Booked
  BY <1>1 DEF Booked
<1> QED BY <1>1, <1>6, <1>7, <1>8, <1>9 DEF LingersBut, LingersIn

(* The last report of an order closes its slot, and only that one.         *)
LEMMA ProjectReportLingers ==
  ASSUME NEW z, IndInv, OrdersKnown, LingersBut(z), ProjectReport
  PROVE  /\ LingersBut(z)'
         /\ Len(orders') = Len(orders)
         /\ \A i \in 1..Len(orders) :
              /\ orders'[i].order_id = orders[i].order_id
              /\ IsOpen(orders[i]) /\ ~IsOpen(orders'[i]) =>
                   orders[i].order_id = Head(inbound).cl_ord_id /\ Head(inbound).exec_type \in Closing
<1> DEFINE r == Head(inbound)
           t == Tail(inbound)
           rs == inbound
           x == r.cl_ord_id
           e == ievt
           os == orders
           bs == BookOrder(os, e)
           f == r.last_shares
<1>1. /\ ipc = "tracked" /\ orders' = bs /\ inbound' = t /\ inbound # << >>
      /\ e \in FromExecutionReport(r)
      /\ UNCHANGED <<spc, req, outbound, book>>
  BY DEF ProjectReport, IndInv, ReportAtHand, strategy
<1>2. /\ rs \in Seq(ExecutionReports) /\ r \in ExecutionReports /\ t \in Seq(ExecutionReports)
      /\ ReportOK(r) /\ r = rs[1] /\ 1 \in 1..Len(rs)
      /\ \A k \in 1..Len(rs) : rs[k] \in ExecutionReports /\ ReportOK(rs[k])
      /\ os \in OrderTable /\ os \in Seq(Order) /\ book \in Books
      /\ \A k \in 1..Len(t) : k + 1 \in 1..Len(rs) /\ t[k] = rs[k + 1]
  <2>1. inbound \in Seq(ExecutionReports) /\ \A k \in 1..Len(inbound) : ReportOK(inbound[k])
    BY DEF IndInv, TypeOK
  <2>2. os \in OrderTable /\ os \in Seq(Order) /\ book \in Books
    BY DEF IndInv, TypeOK, OrderTable, Books, BookEntry
  <2> QED BY <1>1, <2>1, <2>2
<1>3. \A oid : QueuedFills(rs, oid) = QueuedFills(t, oid) + IF x = oid THEN f ELSE 0
  BY <1>1, <1>2, QueuedFillsTail
<1>4. /\ ReportsDue(book, rs) /\ \A oid \in OrderIds : OrderDue(book, rs, oid)
      /\ IdsDiffer(os) /\ \A i \in 1..Len(os) : SlotDue(book, rs, outbound, Booked \cup z, os[i])
  BY DEF LingersBut, LingersIn
<1>5. /\ ReportsDue(book, t)
      /\ \A id : OrderDue(book, rs, id) => OrderDue(book, t, id)
      /\ r.exec_type \in Closing => Unreported(t, x)
      /\ \A id : Unreported(rs, id) => Unreported(t, id) /\ id # x
      /\ \A id, out, w : Due(book, rs, out, w, id) /\ (id # x \/ r.exec_type \notin Closing) =>
                           Due(book, t, out, w, id)
  BY <1>1, <1>2, <1>4, TailLingers
<1>6. \A oid : QueuedFills(t, oid) \in Nat /\ QueuedFills(rs, oid) \in Nat
  BY <1>2, QueuedFillsIsSum
<1> HIDE DEF r, t, e, os, rs
<1>7. /\ e \in Events /\ e.type = EventTypeOf[r.exec_type]
      /\ r.exec_type \in {"PartialFill", "Fill", "Canceled", "Rejected"}
      /\ e.order_id = x /\ e.fill_qty = f /\ e.type # "NewOrder" /\ e.type # "Amend"
      /\ x \in OrderIds /\ f \in Nat
      /\ IsFill(e) <=> r.exec_type \in {"PartialFill", "Fill"}
      /\ r.exec_type = "Canceled" => e.type = "Cancel"
      /\ r.exec_type = "Rejected" => e.type = "Reject"
      /\ f > 0 <=> r.exec_type \in {"PartialFill", "Fill"}
  <2>1. /\ e \in FillEvents /\ e.type = EventTypeOf[r.exec_type]
        /\ r.exec_type \in {"PartialFill", "Fill", "Canceled", "Rejected"}
        /\ e.order_id = r.cl_ord_id /\ e.fill_qty = r.last_shares
    BY <1>1, <1>2, ReportEvent
  <2>2. /\ e.type # "NewOrder" /\ e.type # "Amend"
        /\ IsFill(e) <=> r.exec_type \in {"PartialFill", "Fill"}
        /\ r.exec_type = "Canceled" => e.type = "Cancel"
        /\ r.exec_type = "Rejected" => e.type = "Reject"
    BY <2>1, EventTypeValues DEF IsFill
  <2>3. f > 0 <=> r.exec_type \in {"PartialFill", "Fill"}
    BY <1>2 DEF ReportOK
  <2> QED BY <1>2, <2>1, <2>2, <2>3 DEF FillEvents, ExecutionReports
<1> HIDE DEF x, f
<1>8. Len(bs) = Len(os) /\ \A k \in 1..Len(os) : bs[k].order_id = os[k].order_id
  BY <1>2, <1>7, BookOrderKnown
<1>9. IdsDiffer(bs)
  BY <1>4, <1>8 DEF IdsDiffer
<1>10. ASSUME NEW i \in 1..Len(bs)
       PROVE  /\ SlotDue(book, t, outbound, Booked \cup z, bs[i])
              /\ IsOpen(os[i]) /\ ~IsOpen(bs[i]) => os[i].order_id = x /\ r.exec_type \in Closing
  <2> DEFINE o == os[i]
             h == bs[i]
             id == o.order_id
             q == QueuedFills(rs, id)
             s == QueuedFills(t, id)
             b == book[id]
  <2>1. i \in 1..Len(os) /\ h.order_id = id /\ o \in Order
    BY <1>2, <1>8
  <2>2. id \in OrderIds /\ o.filled_qty \in Int /\ o.original_qty \in Int
    BY <2>1 DEF Order
  <2>3. FindOrder(os, id) = i
    BY <1>2, <1>4, <2>1, SlotFound
  <2>4. i # 0
    BY <2>1
  <2>5. SlotDue(book, rs, outbound, Booked \cup z, o)
    BY <1>4, <2>1
  <2>6. s \in Nat /\ q \in Nat /\ q = s + IF x = id THEN f ELSE 0
    BY <1>3, <1>6
  <2>7. CASE id # x
    <3>1. h = o
      BY <1>2, <1>7, <2>3, <2>4, <2>7, BookOrderOther
    <3>2. s = q
      <4>1. q = s + 0
        BY <2>6, <2>7
      <4> HIDE DEF q, s
      <4> QED BY <2>6, <4>1
    <3>3. /\ IsOpen(o) => Due(book, t, outbound, Booked \cup z, id)
          /\ ~IsOpen(o) => Unreported(t, id)
      BY <1>5, <2>5, <2>7 DEF SlotDue
    <3> QED BY <2>5, <3>1, <3>2, <3>3 DEF SlotDue
  <2>8. CASE id = x
    <3>1. h = HandleKnown(o, e)
      BY <1>2, <1>7, <2>3, <2>4, <2>8, BookOrderKnown
    <3>2. /\ h.order_id = o.order_id
          /\ h.filled_qty = IF IsFill(e) THEN o.filled_qty + e.fill_qty ELSE o.filled_qty
          /\ h.original_qty = IF e.type = "Amend" /\ e.qty > 0 THEN e.qty ELSE o.original_qty
          /\ h.state = CASE IsFill(e) -> IF o.original_qty - (o.filled_qty + e.fill_qty) <= 0
                                         THEN "Filled" ELSE "PartiallyFilled"
                         [] e.type = "Cancel" -> "Cancelled"
                         [] e.type = "Reject" -> "Rejected"
                         [] e.type = "Amend"  -> o.state
      <4>1. /\ HandleKnown(o, e).order_id = o.order_id
            /\ HandleKnown(o, e).filled_qty = IF IsFill(e) THEN o.filled_qty + e.fill_qty ELSE o.filled_qty
            /\ HandleKnown(o, e).original_qty = IF e.type = "Amend" /\ e.qty > 0 THEN e.qty ELSE o.original_qty
            /\ HandleKnown(o, e).state =
                 CASE IsFill(e) -> IF o.original_qty - (o.filled_qty + e.fill_qty) <= 0
                                   THEN "Filled" ELSE "PartiallyFilled"
                   [] e.type = "Cancel" -> "Cancelled"
                   [] e.type = "Reject" -> "Rejected"
                   [] e.type = "Amend"  -> o.state
        BY <1>7, <2>1, HandleKnownFields, Zenon
      <4> QED BY <3>1, <4>1, Zenon
    <3> DEFINE a == o.filled_qty
               m == o.original_qty
               g == b.filled
    <3>3. /\ a + q = g /\ (b.state # "None" => m = b.qty)
          /\ IsOpen(o) /\ Due(book, rs, outbound, Booked \cup z, id)
      <4>1. ~Unreported(rs, id)
        BY <1>5, <2>8
      <4> QED BY <2>5, <4>1 DEF SlotDue
    <3>4. b \in BookEntry /\ g \in Nat /\ b.qty \in Nat
      BY <1>2, <2>2 DEF Books, BookEntry
    <3>5. a \in Int /\ m \in Int /\ q = s + f
      BY <2>2, <2>6, <2>8
    <3>6. /\ h.original_qty = m
          /\ ~IsFill(e) => h.filled_qty = a
          /\ IsFill(e) => h.filled_qty = a + f /\ h.state = IF m - (a + f) <= 0
                                                            THEN "Filled" ELSE "PartiallyFilled"
      <4>1. e.fill_qty = f /\ e.type # "Amend"
        BY <1>7
      <4> HIDE DEF h, o
      <4>2. h.original_qty = o.original_qty /\ (~IsFill(e) => h.filled_qty = o.filled_qty)
        BY <3>2, <4>1
      <4>3. ASSUME IsFill(e)
            PROVE  /\ h.filled_qty = o.filled_qty + f
                   /\ h.state = IF o.original_qty - (o.filled_qty + f) <= 0
                                THEN "Filled" ELSE "PartiallyFilled"
        <5>1. e.type # "Cancel" /\ e.type # "Reject"
          BY <4>3 DEF IsFill
        <5> QED BY <3>2, <4>1, <4>3, <5>1
      <4> QED BY <4>2, <4>3
    <3>7. ~IsFill(e) => h.state = IF e.type = "Cancel" THEN "Cancelled" ELSE "Rejected"
      <4>1. ~IsFill(e) => e.type = "Cancel" \/ e.type = "Reject"
        BY <1>7
      <4> HIDE DEF h, o
      <4> QED BY <3>2, <4>1
    <3> HIDE DEF h, o, a, m, g, q, s
    <3>8. h.filled_qty + s = g
      <4>1. CASE IsFill(e)
        BY <1>7, <2>6, <3>3, <3>4, <3>5, <3>6, <4>1
      <4>2. CASE ~IsFill(e)
        <5>1. f = 0
          BY <1>7, <4>2
        <5> QED BY <2>6, <3>3, <3>4, <3>5, <3>6, <4>2, <5>1
      <4> QED BY <4>1, <4>2
    <3>9. CASE r.exec_type \in {"Canceled", "Rejected"}
      <4>1. ~IsOpen(h)
        BY <1>7, <3>7, <3>9 DEF IsOpen
      <4>2. Unreported(t, id)
        BY <1>5, <2>8, <3>9 DEF Closing
      <4>3. r.exec_type \in Closing
        BY <3>9 DEF Closing
      <4> QED BY <2>1, <2>8, <3>3, <3>6, <3>8, <4>1, <4>2, <4>3 DEF SlotDue, h, s, g, b, id, o
    <3>10. CASE r.exec_type = "Fill"
      <4>1. book[x].state = "Filled" /\ b.filled = b.qty
        <5>1. book[x].state = "Filled"
          BY <1>2, <1>4, <3>10 DEF ReportsDue, x
        <5>2. OrderDue(book, rs, id)
          BY <1>4, <2>2
        <5> QED BY <2>8, <5>1, <5>2 DEF OrderDue
      <4>2. Unreported(t, id)
        BY <1>5, <2>8, <3>10 DEF Closing
      <4>3. s = 0
        BY <1>2, <4>2, UnreportedFills DEF s
      <4>4. m = g
        BY <2>8, <3>3, <4>1 DEF g
      <4>5. IsFill(e)
        BY <1>7, <3>10
      <4>6. m - (a + f) <= 0
        BY <1>7, <2>6, <3>3, <3>4, <3>5, <4>3, <4>4
      <4>7. ~IsOpen(h)
        BY <3>6, <4>5, <4>6 DEF IsOpen
      <4>8. r.exec_type \in Closing
        BY <3>10 DEF Closing
      <4> QED BY <2>1, <2>8, <3>3, <3>6, <3>8, <4>2, <4>7, <4>8 DEF SlotDue, h, s, g, b, id, o
    <3>11. CASE r.exec_type = "PartialFill"
      <4>1. IsFill(e) /\ f > 0 /\ r.exec_type \notin Closing
        BY <1>7, <3>11 DEF Closing
      <4>2. b.state # "None"
        BY <1>2, <1>4, <2>8, <4>1 DEF ReportsDue, x, f
      <4>3. a + f < m
        <5>1. a + f = g - s
          BY <1>7, <2>6, <3>3, <3>4, <3>5
        <5>2. m = b.qty /\ g = b.filled
          BY <3>3, <4>2 DEF g
        <5>3. CASE b.state \in {"Live", "Expired"}
          <6>1. g < b.qty
            BY <2>2, <5>2, <5>3 DEF OrdersKnown, Covered
          <6> QED BY <2>6, <3>4, <5>1, <5>2, <6>1
        <5>4. CASE b.state = "Cancelled"
          <6>1. g < b.qty
            BY <1>4, <2>2, <5>2, <5>4 DEF OrderDue
          <6> QED BY <2>6, <3>4, <5>1, <5>2, <6>1
        <5>5. CASE b.state = "Filled"
          <6>1. OrderDue(book, rs, id) /\ ~Unreported(rs, id)
            BY <1>4, <1>5, <2>2, <2>8
          <6>2. /\ b.filled = b.qty
                /\ \E k \in 1..Len(rs) : rs[k].cl_ord_id = id /\ rs[k].exec_type = "Fill"
            BY <5>5, <6>1 DEF OrderDue
          <6>3. OrderDue(book, t, id)
            BY <1>5, <6>1
          <6>4. PICK k \in 1..Len(rs) : rs[k].cl_ord_id = id /\ rs[k].exec_type = "Fill"
            BY <6>2
          <6>5. k # 1
            BY <1>2, <3>11, <6>4
          <6>6. k - 1 \in 1..Len(t) /\ t[k - 1] = rs[k]
            <7>1. Len(rs) \in Nat /\ Len(t) = Len(rs) - 1
              BY <1>1, <1>2 DEF t, rs
            <7>2. k - 1 \in 1..Len(t) /\ (k - 1) + 1 = k
              BY <6>5, <7>1
            <7> QED BY <1>2, <7>2
          <6>7. t[k - 1].last_shares > 0 /\ t[k - 1].last_shares \in Nat
            <7>1. rs[k] \in ExecutionReports /\ ReportOK(rs[k])
              BY <1>2
            <7> QED BY <6>4, <6>6, <7>1 DEF ReportOK, ExecutionReports
          <6>8. QueuedFills(t, id) >= t[k - 1].last_shares
            BY <1>2, <6>4, <6>6, ReportedFills
          <6>9. s > 0
            BY <1>6, <2>6, <6>7, <6>8 DEF s
          <6> QED BY <2>6, <3>4, <5>1, <5>2, <6>2, <6>9
        <5> QED BY <3>4, <4>2, <5>3, <5>4, <5>5 DEF BookEntry
      <4>4. IsOpen(h)
        <5>1. ~(m - (a + f) <= 0)
          BY <1>7, <3>5, <4>3
        <5> QED BY <3>6, <4>1, <5>1 DEF IsOpen
      <4>5. Due(book, t, outbound, Booked \cup z, id)
        BY <1>5, <3>3, <4>1
      <4> QED BY <2>1, <3>3, <3>6, <3>8, <4>4, <4>5 DEF SlotDue, h, s, g, b, id
    <3> QED BY <1>7, <3>9, <3>10, <3>11
  <2> QED BY <2>7, <2>8
<1>11. Booked' = Booked
  BY <1>1 DEF Booked
<1> HIDE DEF bs
<1>12. ASSUME NEW i \in 1..Len(orders)
       PROVE  /\ orders'[i].order_id = orders[i].order_id
              /\ IsOpen(orders[i]) /\ ~IsOpen(orders'[i]) =>
                   orders[i].order_id = Head(inbound).cl_ord_id /\ Head(inbound).exec_type \in Closing
  BY <1>1, <1>8, <1>10 DEF os, x, r
<1>13. Len(orders') = Len(orders)
  BY <1>1, <1>8 DEF os
<1>14. LingersBut(z)'
  BY <1>1, <1>4, <1>5, <1>9, <1>10, <1>11 DEF LingersBut, LingersIn
<1> QED BY <1>12, <1>13, <1>14

(* apply_event() of send_order(): the new slot is the one of the call. *)
LEMMA ProjectOrderLingers ==
  ASSUME NEW z, IndInv, IdsIssued, SlotForAll, OrdersKnown, LingersBut(z), ProjectOrder
  PROVE  LingersBut(z)'
<1> DEFINE os == orders
           x == req.order_id
           bs == BookOrder(os, req)
           w == {req.order_id} \cup z
           y == NewOrder(req)
<1>1. /\ spc = "logged" /\ spc' = "booked" /\ orders' = bs /\ req' = req
      /\ UNCHANGED <<outbound, inbound, book>>
  BY DEF ProjectOrder, exchange
<1>2. OneLife
  BY DEF SlotForAll
<1>3. /\ x \in OrderIds /\ book[x].state = "None" /\ Unreported(inbound, x)
  BY <1>1, <1>2, RequestIsOther DEF Unreported
<1>4. req \in Events /\ req.type = "NewOrder"
  <2>1. Request(req, req.order_id)
    BY <1>1 DEF IndInv, RequestOK
  <2>2. req \in FillEvents /\ req.type = "NewOrder"
    BY <1>3, <2>1, RequestEvent
  <2> QED BY <2>2 DEF FillEvents
<1>5. os \in OrderTable /\ os \in Seq(Order) /\ Len(os) \in Nat /\ inbound \in Seq(ExecutionReports)
  BY DEF IndInv, TypeOK, OrderTable
<1>6. FindOrder(os, x) = 0 /\ Len(os) < MaxOrders
  BY <1>1, NoSlotYet
<1>7. \A i \in 1..Len(os) : os[i].order_id # x
  BY <1>5, <1>6, FindOrderProps
<1>8. Booked \cup z = z /\ Booked' \cup z = w
  BY <1>1 DEF Booked
<1>9. y.order_id = x /\ y.filled_qty = 0 /\ IsOpen(y)
  BY <1>4, NewOrderFields DEF IsOpen
<1>10. IdsDiffer(os) /\ \A i \in 1..Len(os) : SlotDue(book, inbound, outbound, z, os[i])
  BY <1>8 DEF LingersBut, LingersIn
<1> HIDE DEF os
<1>11. /\ Len(bs) = Len(os) + 1 /\ bs[Len(bs)] = y /\ \A k \in 1..Len(os) : bs[k] = os[k]
  BY <1>4, <1>5, <1>6, BookOrderNew
<1> HIDE DEF bs, y, x, w
<1>12. \A i \in 1..Len(bs) : i \in 1..Len(os) \/ i = Len(bs)
  BY <1>5, <1>11
<1>13. IdsDiffer(bs)
  <2> SUFFICES ASSUME NEW i \in 1..Len(bs), NEW j \in 1..Len(bs), bs[i].order_id = bs[j].order_id
               PROVE  i = j
    BY DEF IdsDiffer
  <2>1. CASE i \in 1..Len(os) /\ j \in 1..Len(os)
    BY <1>10, <1>11, <2>1 DEF IdsDiffer
  <2>2. CASE ~(i \in 1..Len(os) /\ j \in 1..Len(os))
    BY <1>7, <1>9, <1>11, <1>12, <2>2
  <2> QED BY <2>1, <2>2
<1>14. ASSUME NEW i \in 1..Len(bs) PROVE SlotDue(book, inbound, outbound, w, bs[i])
  <2>1. CASE i \in 1..Len(os)
    BY <1>10, <1>11, <2>1 DEF SlotDue, Due, w
  <2>2. CASE i = Len(bs)
    <3>1. bs[i] = y
      BY <1>11, <2>2
    <3>2. QueuedFills(inbound, x) = 0
      BY <1>3, <1>5, UnreportedFills
    <3>3. book[x].filled = 0
      BY <1>3 DEF LingersBut, LingersIn, OrderDue
    <3>4. y.filled_qty + QueuedFills(inbound, x) = book[x].filled
      BY <1>9, <3>2, <3>3
    <3>5. Due(book, inbound, outbound, w, x)
      BY DEF Due, w, x
    <3> QED BY <1>3, <1>9, <3>1, <3>4, <3>5 DEF SlotDue
  <2> QED BY <1>12, <2>1, <2>2
<1>15. (\A oid \in OrderIds : OrderDue(book, inbound, oid)) /\ ReportsDue(book, inbound)
  BY DEF LingersBut, LingersIn
<1> QED BY <1>1, <1>8, <1>13, <1>14, <1>15 DEF LingersBut, LingersIn

(* The order of the call is on its way. *)
LEMMA TransmitLingers ==
  ASSUME NEW z, IndInv, LingersBut(z), TransmitOrder
  PROVE  LingersBut(z)'
<1> DEFINE m == ToNewOrderSingle(req)
           x == req.order_id
           out == outbound
           ou == Append(outbound, m)
<1>1. /\ spc = "booked" /\ spc' = "idle" /\ outbound' = ou
      /\ UNCHANGED <<orders, inbound, book>>
  BY DEF TransmitOrder
<1>2. m.cl_ord_id = x
  BY DEF ToNewOrderSingle
<1>3. out \in Seq(Messages) /\ Len(out) \in Nat
  BY DEF IndInv
<1>4. Booked \cup z = {x} \cup z /\ Booked' \cup z = z
  BY <1>1 DEF Booked
<1> HIDE DEF m
<1>5. /\ Len(out) + 1 \in 1..Len(ou) /\ ou[Len(out) + 1] = m
      /\ \A k \in 1..Len(out) : k \in 1..Len(ou) /\ ou[k] = out[k]
  BY <1>3
<1> HIDE DEF out, ou, x
<1>6. \A id : Due(book, inbound, out, {x} \cup z, id) => Due(book, inbound, ou, z, id)
  <2> SUFFICES ASSUME NEW id, Due(book, inbound, out, {x} \cup z, id) PROVE Due(book, inbound, ou, z, id)
    OBVIOUS
  <2>1. CASE id = x
    BY <1>2, <1>5, <2>1 DEF Due
  <2>2. CASE id # x
    BY <1>5, <2>2 DEF Due
  <2> QED BY <2>1, <2>2
<1>7. \A i \in 1..Len(orders) : SlotDue(book, inbound, ou, z, orders[i])
  <2>1. \A i \in 1..Len(orders) : SlotDue(book, inbound, out, {x} \cup z, orders[i])
    BY <1>4 DEF LingersBut, LingersIn, out
  <2> QED BY <1>6, <2>1 DEF SlotDue
<1> QED BY <1>1, <1>4, <1>7 DEF LingersBut, LingersIn

(* Every step of a life of the process, in a session no logon resets. *)
LEMMA NextLingers ==
  ASSUME ~ResetOnLogon, NEW z, IndInv, IdsIssued, SlotForAll, SlotForAll', OrdersKnown,
         LingersBut(z), [Next]_vars
  PROVE  LingersBut(z)'
<1>1. CASE Strategy
  <2>1. CASE (\E sym \in Symbols, side \in StrategySides, qty \in Quantities \ {0}, px \in Prices :
                SendOrder(sym, side, qty, px)) \/ CheckRisk \/ RecordOrder
    <3>1. UNCHANGED <<orders, outbound, inbound, book>> /\ spc # "booked" /\ spc' # "booked"
      BY <2>1 DEF SendOrder, CheckRisk, RecordOrder, exchange
    <3> QED BY <3>1, LingersStays DEF Booked
  <2>2. CASE ProjectOrder
    BY <2>2, ProjectOrderLingers
  <2>3. CASE TransmitOrder
    BY <2>3, TransmitLingers
  <2> QED BY <1>1, <2>1, <2>2, <2>3 DEF Strategy
<1>2. CASE IOThread
  <2>1. CASE Logon \/ Logout \/ TakeReport \/ LogReport \/ TrackReport
    <3>1. UNCHANGED <<orders, outbound, inbound, book, spc, req>>
      BY <2>1 DEF Logon, Logout, TakeReport, LogReport, TrackReport, strategy, exchange
    <3> QED BY <3>1, LingersStays DEF Booked
  <2> QED BY <1>2, <2>1, DropLingers, ProjectReportLingers DEF IOThread
<1>3. CASE Process
  BY <1>3 DEF Process, Crash, TerminateLogFull, Restart, Down, SlotForAll, OneLife
<1>4. CASE Exchange
  <2>1. ASSUME NEW oid \in OrderIds, NEW qty \in Quantities \ {0}, NEW px \in Prices,
               Trade(oid, qty, px)
        PROVE  LingersBut(z)'
    BY <2>1, TradeLingers
  <2>2. ASSUME NEW oid \in OrderIds, CancelOrder(oid) \/ ExpireOrder(oid) PROVE LingersBut(z)'
    BY <2>2, EndLingers
  <2> QED BY <1>4, <2>1, <2>2, TakenLingers DEF Exchange
<1>5. CASE UNCHANGED vars
  <2>1. UNCHANGED <<orders, outbound, inbound, book, spc, req>>
    BY <1>5 DEF vars, strategy, exchange
  <2> QED BY <2>1, LingersStays DEF Booked
<1> QED BY <1>1, <1>2, <1>3, <1>4, <1>5 DEF Next

(* With no exception, what holds of every slot. *)
LEMMA NothingLingersStep ==
  ASSUME ~ResetOnLogon, IndInv, IdsIssued, SlotForAll, SlotForAll', OrdersKnown,
         NothingLingers, [Next]_vars
  PROVE  NothingLingers'
<1>1. Booked \cup {} = Booked /\ Booked' \cup {} = Booked'
  OBVIOUS
<1>2. LingersBut({})
  BY <1>1 DEF NothingLingers, LingersBut
<1>3. LingersBut({})'
  BY <1>2, NextLingers
<1> QED BY <1>1, <1>3 DEF NothingLingers, LingersBut

(* A symbol without live or expired orders, once everything under way has  *)
(* arrived.                                                                *)
LEMMA NothingExposed ==
  ASSUME IndInv, OrdersKnown, NothingLingers, spc # "booked", inbound = << >>, outbound = << >>,
         NEW sym \in Symbols,
         \A oid \in OrderIds : book[oid].symbol = sym => book[oid].state \notin {"Live", "Expired"}
  PROVE  OpenExposure(orders, sym) = 0
<1> DEFINE v == Exposures(orders, sym)
<1>1. orders \in Seq(Order)
  BY DEF IndInv, TypeOK
<1>2. v \in Seq(Int) /\ OpenExposure(orders, sym) = SumOf(v)
  BY <1>1, ExposureIsSum
<1>3. ASSUME NEW i \in 1..Len(orders) PROVE ~(IsOpen(orders[i]) /\ orders[i].symbol = sym)
  <2> SUFFICES ASSUME IsOpen(orders[i]), orders[i].symbol = sym PROVE FALSE
    OBVIOUS
  <2> DEFINE x == orders[i].order_id
  <2>1. x \in OrderIds
    <3>1. orders[i] \in Order
      BY <1>1
    <3> QED BY <3>1 DEF Order
  <2>2. Due(book, inbound, outbound, Booked, x)
    BY DEF NothingLingers, LingersIn, SlotDue
  <2>3. book[x].state \in {"Live", "Expired"}
    BY <2>2 DEF Due, Booked
  <2>4. PICK n : KnownSlot(orders, x, book[x].symbol, book[x].side, book[x].qty, n)
    BY <2>1, <2>3 DEF OrdersKnown, Covered
  <2>5. IdsDiffer(orders) /\ x[1] = "ORD"
    BY DEF NothingLingers, LingersIn, OrdersKnown
  <2>6. orders[i].symbol = book[x].symbol
    BY <1>1, <2>4, <2>5, SlotIsOpen
  <2> QED BY <2>1, <2>3, <2>6
<1>4. \A i \in 1..Len(v) : v[i] = 0
  BY <1>3 DEF Exposures, ExposureOf
<1> HIDE DEF v
<1> QED BY <1>2, <1>4, SumZero

(* At the start there is no slot, and nothing is under way. *)
LEMMA InitLingers == Init => NothingLingers /\ OneSlotEach(positions)
<1> SUFFICES ASSUME Init PROVE NothingLingers /\ OneSlotEach(positions)
  OBVIOUS
<1>1. orders = << >> /\ outbound = << >> /\ inbound = << >> /\ positions = << >>
  BY DEF Init, InitOrders, InitPositions
<1>2. \A oid \in OrderIds : book[oid].state = "None" /\ book[oid].filled = 0
  BY DEF Init
<1>3. IdsDiffer(orders) /\ OneSlotEach(positions) /\ ReportsDue(book, inbound)
  BY <1>1 DEF IdsDiffer, OneSlotEach, ReportsDue
<1>4. \A oid \in OrderIds : OrderDue(book, inbound, oid)
  BY <1>2 DEF OrderDue
<1> QED BY <1>1, <1>3, <1>4 DEF NothingLingers, LingersIn

(* RiskChecker.h: as long as the process lives and has a slot for every id *)
(* it gave out, in a session no logon resets, the check of the position    *)
(* alone and the full check agree on a symbol all of whose orders are      *)
(* filled, cancelled or refused: none of those is still counted in the     *)
(* exposure, whatever the threads interleave.  An expired order is, and    *)
(* its symbol is left out.                                                 *)
THEOREM GatewayOverloadsAgree ==
  ASSUME ~ResetOnLogon
  PROVE  Spec /\ []SlotForAll => []OverloadsAgree
<1> DEFINE Inv == IdsIssued /\ OrdersKnown /\ NothingLingers /\ OneSlotEach(positions)
<1>1. Init => NothingLingers /\ OneSlotEach(positions)
  BY InitLingers
<1>2. IndInv /\ up' /\ up /\ OneSlotEach(positions) /\ [Next]_vars => OneSlotEach(positions)'
  <2> SUFFICES ASSUME IndInv, up, up', OneSlotEach(positions), [Next]_vars
               PROVE  OneSlotEach(positions')
    OBVIOUS
  <2>1. CASE positions' = positions
    BY <2>1
  <2>2. CASE TrackReport
    <3> DEFINE qs == BookPosition(positions, ievt)
    <3>1. positions' = qs /\ ipc = "logged"
      BY <2>2 DEF TrackReport, ApplyEvent
    <3>2. ievt \in FillEvents /\ positions \in PositionTable
      BY <3>1, EventAtHand DEF IndInv, TypeOK, PositionTable
    <3>3. OneSlotEach(qs)
      BY <3>2, BookPositionSlots
    <3> QED BY <3>1, <3>3
  <2>3. TrackReport \/ positions' = positions
    <3>1. CASE Strategy
      BY <3>1 DEF Strategy, SendOrder, CheckRisk, RecordOrder, ProjectOrder, TransmitOrder
    <3>2. CASE IOThread
      BY <3>2 DEF IOThread, Logon, Logout, DropReport, TakeReport, LogReport, ProjectReport
    <3>3. CASE Process
      BY <3>3 DEF Process, Crash, TerminateLogFull, Restart, Down
    <3>4. CASE Exchange
      BY <3>4 DEF Exchange, AcceptOrder, RefuseOrder, Trade, CancelOrder, ExpireOrder
    <3> QED BY <3>1, <3>2, <3>3, <3>4 DEF Next, vars
  <2> QED BY <2>1, <2>2, <2>3
<1>3. IndInv /\ IndInv' /\ SlotForAll /\ SlotForAll' /\ Inv /\ [Next]_vars => Inv'
  BY <1>2, NextIdsIssued, NextOrdersKnown, NothingLingersStep DEF SlotForAll, OneLife
<1>4. IndInv /\ Inv => OverloadsAgree
  <2> SUFFICES ASSUME IndInv, Inv, Quiet, inbound = << >>, outbound = << >>,
                      NEW sym \in Symbols, NEW side \in Sides, NEW qty \in Quantities,
                      NEW px \in Prices, GetPosition(positions, sym) # {},
                      \A oid \in OrderIds : book[oid].symbol = sym => book[oid].state \notin {"Live", "Expired"}
               PROVE  CheckPosition(side, qty, px, GetPosition(positions, sym)) =
                        Check(side, qty, px, NetQty(GetPosition(positions, sym)),
                              OpenExposure(orders, sym), GetPosition(positions, sym))
    BY DEF OverloadsAgree
  <2> DEFINE pos == GetPosition(positions, sym)
             s == Signed(side, qty)
  <2>1. OpenExposure(orders, sym) = 0
    BY NothingExposed DEF Quiet
  <2>2. PICK p \in Position : pos = {p}
    <3>1. PICK i \in 1..Len(positions) : positions[i].symbol = sym
      BY DEF GetPosition
    <3>2. { j \in 1..Len(positions) : positions[j].symbol = sym } = {i}
      BY <3>1 DEF OneSlotEach
    <3>3. pos = {positions[i]}
      BY <3>2 DEF GetPosition
    <3>4. positions[i] \in Position
      BY DEF IndInv, TypeOK
    <3> QED BY <3>3, <3>4
  <2>3. NetQty(pos) = p.net_qty /\ p.net_qty \in Int
    BY <2>2 DEF NetQty, Position
  <2>4. s \in Int
    BY QuantitiesAssumption DEF Signed
  <2>5. MaxNetPosition \in Nat
    BY LimitsAssumption
  <2> HIDE DEF pos, s
  <2>6. CheckPosition(side, qty, px, pos) = Check(side, qty, px, NetQty(pos), 0, pos)
    <3> DEFINE n == p.net_qty
    <3>1. n \in Int /\ n + 0 = n /\ NetQty(pos) = n
      BY <2>3
    <3> QED BY <2>2, <3>1 DEF CheckPosition, Check
  <2> QED BY <2>1, <2>6 DEF pos
<1>5. Init => IdsIssued /\ OrdersKnown
  BY InitLife, InitOrdersKnown
<1> QED BY <1>1, <1>3, <1>4, <1>5, GatewayInductive, PTL DEF Spec
-----------------------------------------------------------------------------
(***************************************************************************)
(* The limit on the net position, for a strategy that only buys.           *)
(***************************************************************************)

(* What the tracker has booked of a report, and the manager not yet. *)
HalfBooked(sym) ==
  IF ipc = "tracked" /\ IsFill(ievt) /\ ievt.symbol = sym
  THEN Signed(ievt.side, ievt.fill_qty) ELSE 0

(* What has passed the check and is not in the exposure yet. *)
Asked(sym) == IF spc \in {"passed", "logged"} /\ req.symbol = sym THEN req.qty ELSE 0

(* All that check() knows of, and what it has let pass since. *)
LimitKept ==
  /\ spc # "idle" => ipc = "idle"
  /\ spc = "checking" => net_read = Net(positions, req.symbol)
  /\ \A sym \in Symbols :
       ((Net(positions, sym) - HalfBooked(sym)) + OpenExposure(orders, sym)) + Asked(sym)
         <= MaxNetPosition

(* The slots of a strategy that only buys. *)
BuySlots(os) == \A i \in 1..Len(os) : os[i].side = "Buy" /\ os[i].original_qty \in Nat

(* An order of the exchange is a buy, and has a slot of its symbol. *)
BuyOrder(bk, os, oid) ==
  bk[oid].state # "None" =>
    LET i == FindOrder(os, oid)
    IN  bk[oid].side = "Buy" /\ i # 0 /\ os[i].symbol = bk[oid].symbol

(* Every order anywhere is a buy. *)
OnlyBuys ==
  /\ spc # "idle" => req.side = "Buy"
  /\ \A k \in 1..Len(outbound) : outbound[k].side = "Buy"
  /\ BuySlots(orders)
  /\ \A oid \in OrderIds : BuyOrder(book, orders, oid)

(* The event of a report in onMessage(). *)
LEMMA ReportInHand ==
  ASSUME IndInv, ipc # "idle"
  PROVE  LET r == Head(inbound)
         IN  /\ inbound \in Seq(ExecutionReports) /\ inbound # << >>
             /\ r = inbound[1] /\ 1 \in 1..Len(inbound) /\ Tail(inbound) \in Seq(ExecutionReports)
             /\ ievt \in Events /\ ievt \in FillEvents
             /\ ievt.type # "NewOrder" /\ ievt.type # "Amend"
             /\ ievt.order_id = r.cl_ord_id /\ r.cl_ord_id \in OrderIds
             /\ ievt.symbol = r.symbol /\ ievt.side = r.side
             /\ ievt.fill_qty = r.last_shares /\ r.last_shares \in Nat
             /\ IsFill(ievt) <=> r.last_shares > 0
             /\ ~IsFill(ievt) => ievt.type \in {"Cancel", "Reject"}
<1> DEFINE r == Head(inbound)
<1>1. /\ inbound # << >> /\ ievt \in FromExecutionReport(r) /\ r \in ExecutionReports
      /\ ReportOK(r) /\ ievt \in FillEvents /\ ievt \in Events
  BY EventAtHand
<1>2. /\ inbound \in Seq(ExecutionReports) /\ r = inbound[1] /\ 1 \in 1..Len(inbound)
      /\ Tail(inbound) \in Seq(ExecutionReports)
  BY <1>1 DEF IndInv, TypeOK
<1> HIDE DEF r
<1>3. /\ ievt.type = EventTypeOf[r.exec_type]
      /\ r.exec_type \in {"PartialFill", "Fill", "Canceled", "Rejected"}
      /\ ievt.order_id = r.cl_ord_id /\ ievt.symbol = r.symbol /\ ievt.side = r.side
      /\ ievt.fill_qty = r.last_shares
  BY <1>1, ReportEvent
<1>4. /\ ievt.type # "NewOrder" /\ ievt.type # "Amend"
      /\ IsFill(ievt) <=> r.exec_type \in {"PartialFill", "Fill"}
      /\ ~IsFill(ievt) => ievt.type \in {"Cancel", "Reject"}
  BY <1>3, EventTypeValues DEF IsFill
<1>5. IsFill(ievt) <=> r.last_shares > 0
  BY <1>1, <1>4 DEF ReportOK
<1>6. r.cl_ord_id \in OrderIds /\ r.last_shares \in Nat
  BY <1>1 DEF ExecutionReports
<1> QED BY <1>1, <1>2, <1>3, <1>4, <1>5, <1>6 DEF r

(* The exchange never trades more than an order's quantity. *)
LEMMA FilledWithin ==
  ASSUME IndInv, OrdersKnown, NothingLingers, NEW oid \in OrderIds, book[oid].state # "None"
  PROVE  book[oid].filled <= book[oid].qty
<1>1. book \in Books
  BY UntrackedReports
<1>2. /\ book[oid].state \in {"Live", "Filled", "Cancelled", "Expired"}
      /\ book[oid].filled \in Nat /\ book[oid].qty \in Nat
  BY <1>1 DEF Books, BookEntry
<1>3. OrderDue(book, inbound, oid) /\ Covered(book, inbound, orders, oid)
  BY DEF NothingLingers, LingersIn, OrdersKnown
<1> QED BY <1>2, <1>3 DEF OrderDue, Covered

(* No slot is filled past its quantity. *)
LEMMA Remainders ==
  ASSUME IndInv, OrdersKnown, NothingLingers, OnlyBuys, NEW i \in 1..Len(orders)
  PROVE  /\ orders[i] \in Order /\ orders[i].filled_qty \in Int
         /\ orders[i].filled_qty <= orders[i].original_qty
         /\ \A sym : ExposureOf(orders[i], sym) \in Nat
<1> DEFINE o == orders[i]
           id == o.order_id
           q == QueuedFills(inbound, id)
<1>1. o \in Order /\ book \in Books /\ inbound \in Seq(ExecutionReports)
  BY UntrackedReports DEF IndInv, TypeOK
<1>2. id \in OrderIds /\ o.filled_qty \in Int
  BY <1>1 DEF Order
<1>3. q \in Nat /\ book[id].filled \in Nat /\ book[id].qty \in Nat
  BY <1>1, <1>2, QueuedFillsIsSum DEF Books, BookEntry
<1>4. o.side = "Buy" /\ o.original_qty \in Nat
  BY DEF OnlyBuys, BuySlots
<1>5. /\ o.filled_qty + q = book[id].filled
      /\ book[id].state # "None" => o.original_qty = book[id].qty
      /\ book[id].state = "None" => book[id].filled = 0
  BY <1>2 DEF NothingLingers, LingersIn, SlotDue, OrderDue
<1>6. book[id].state # "None" => book[id].filled <= book[id].qty
  BY <1>2, FilledWithin
<1> HIDE DEF o, id, q
<1>7. o.filled_qty <= o.original_qty
  BY <1>2, <1>3, <1>4, <1>5, <1>6
<1>8. \A sym : ExposureOf(o, sym) \in Nat
  BY <1>2, <1>4, <1>7 DEF ExposureOf, SignedRemaining, RemainingQty, Signed
<1> QED BY <1>1, <1>2, <1>7, <1>8 DEF o

(* apply_event() of the manager gives back at least what the tracker has   *)
(* booked: a fill was open in its slot.                                    *)
LEMMA SlotReleases ==
  ASSUME IndInv, OrdersKnown, NothingLingers, TradesMatch(book, inbound), OnlyBuys,
         ipc = "tracked", NEW sym \in Symbols
  PROVE  /\ OpenExposure(BookOrder(orders, ievt), sym) + HalfBooked(sym) <= OpenExposure(orders, sym)
         /\ OpenExposure(BookOrder(orders, ievt), sym) \in Int /\ HalfBooked(sym) \in Int
         /\ OpenExposure(orders, sym) \in Int
<1> DEFINE r == Head(inbound)
           x == r.cl_ord_id
           f == r.last_shares
           i == FindOrder(orders, x)
           bs == BookOrder(orders, ievt)
           was == OpenExposure(orders, sym)
           is == OpenExposure(bs, sym)
           d == HalfBooked(sym)
<1>1. /\ inbound \in Seq(ExecutionReports) /\ inbound # << >>
      /\ r = inbound[1] /\ 1 \in 1..Len(inbound)
      /\ ievt \in Events /\ ievt.type # "NewOrder" /\ ievt.type # "Amend"
      /\ ievt.order_id = x /\ x \in OrderIds /\ ievt.symbol = r.symbol /\ ievt.side = r.side
      /\ ievt.fill_qty = f /\ f \in Nat /\ (IsFill(ievt) <=> f > 0)
      /\ ~IsFill(ievt) => ievt.type \in {"Cancel", "Reject"}
  BY ReportInHand
<1>2. orders \in OrderTable /\ orders \in Seq(Order) /\ bs \in Seq(Order)
  BY <1>1, BookOrderType DEF IndInv, TypeOK, OrderTable
<1>3. was \in Int /\ is \in Int
  BY <1>2, ExposureIsSum
<1>4. ASSUME IsFill(ievt)
      PROVE  /\ i # 0 /\ orders[i].symbol = ievt.symbol /\ ievt.side = "Buy"
             /\ book[x].state # "None"
  <2>1. book[x].state # "None" /\ book[x].symbol = r.symbol /\ book[x].side = r.side
    BY <1>1, <1>4 DEF TradesMatch
  <2>2. BuyOrder(book, orders, x)
    BY <1>1 DEF OnlyBuys
  <2> QED BY <1>1, <2>1, <2>2 DEF BuyOrder
<1>5. d = IF IsFill(ievt) /\ ievt.symbol = sym THEN f ELSE 0
  BY <1>1, <1>4 DEF HalfBooked, Signed
<1>6. CASE i = 0
  <2>1. bs = orders /\ ~IsFill(ievt)
    BY <1>1, <1>4, <1>6 DEF BookOrder
  <2>2. is = was /\ d = 0
    BY <1>5, <2>1
  <2> HIDE DEF is, was, d
  <2>3. is + d <= was /\ d \in Int
    BY <1>3, <2>2
  <2> QED BY <1>3, <2>3 DEF is, was, d, bs
<1>7. CASE i # 0
  <2> DEFINE o == orders[i]
             h == HandleKnown(o, ievt)
             a == ExposureOf(o, sym)
             b == ExposureOf(h, sym)
  <2>1. i \in 1..Len(orders) /\ o.order_id = x
    BY <1>2, <1>7, FindOrderProps
  <2>2. o \in Order /\ o.filled_qty \in Int /\ o.filled_qty <= o.original_qty /\ a \in Nat
    BY <2>1, Remainders
  <2>3. o.side = "Buy" /\ o.original_qty \in Nat
    BY <2>1 DEF OnlyBuys, BuySlots
  <2>4. b \in Int /\ is = (was + b) - a
    BY <1>1, <1>2, <1>7, ExposureMoves
  <2>5. /\ h.symbol = o.symbol /\ h.side = o.side
        /\ h.filled_qty = IF IsFill(ievt) THEN o.filled_qty + ievt.fill_qty ELSE o.filled_qty
        /\ h.original_qty = IF ievt.type = "Amend" /\ ievt.qty > 0 THEN ievt.qty ELSE o.original_qty
        /\ h.state = CASE IsFill(ievt) -> IF o.original_qty - (o.filled_qty + ievt.fill_qty) <= 0
                                          THEN "Filled" ELSE "PartiallyFilled"
                       [] ievt.type = "Cancel" -> "Cancelled"
                       [] ievt.type = "Reject" -> "Rejected"
                       [] ievt.type = "Amend"  -> o.state
    BY <1>1, <2>2, HandleKnownFields, Zenon
  <2> HIDE DEF o, h, i
  <2>6. CASE ~IsFill(ievt)
    <3>1. h.state \in {"Cancelled", "Rejected"}
      BY <1>1, <2>5, <2>6
    <3>2. b = 0
      BY <3>1 DEF ExposureOf, IsOpen
    <3>3. d = 0
      BY <1>5, <2>6
    <3> HIDE DEF is, was, d, a, b
    <3>4. is + d <= was /\ d \in Int
      BY <1>3, <2>2, <2>4, <3>2, <3>3
    <3> QED BY <1>3, <3>4 DEF is, was, d, bs
  <2>7. CASE IsFill(ievt)
    <3> DEFINE m == o.original_qty
               n == o.filled_qty
               q == QueuedFills(inbound, x)
    <3>1. /\ h.filled_qty = n + f /\ h.original_qty = m
          /\ h.state = IF m - (n + f) <= 0 THEN "Filled" ELSE "PartiallyFilled"
      <4>1. ievt.type # "Cancel" /\ ievt.type # "Reject" /\ ievt.type # "Amend"
        BY <2>7 DEF IsFill
      <4> QED BY <1>1, <2>5, <2>7, <4>1
    <3>2. n + q = book[x].filled /\ m = book[x].qty /\ IsOpen(o)
      <4>1. SlotDue(book, inbound, outbound, Booked, o)
        BY <2>1 DEF NothingLingers, LingersIn, o
      <4>2. ~Unreported(inbound, x)
        BY <1>1 DEF Unreported
      <4> QED BY <1>4, <2>1, <2>7, <4>1, <4>2 DEF SlotDue
    <3>3. book[x].filled <= book[x].qty
      BY <1>1, <1>4, <2>7, FilledWithin
    <3>4. q >= f /\ q \in Nat
      BY <1>1, ReportedFills, QueuedFillsIsSum
    <3>5. book[x].filled \in Nat /\ book[x].qty \in Nat
      BY <1>1, UntrackedReports DEF Books, BookEntry
    <3> HIDE DEF m, n, q
    <3>6. n \in Int /\ m \in Nat /\ n + f <= m
      BY <1>1, <2>2, <2>3, <3>2, <3>3, <3>4, <3>5 DEF m, n
    <3>7. a = IF o.symbol = sym THEN m - n ELSE 0
      BY <2>3, <3>2 DEF ExposureOf, SignedRemaining, RemainingQty, Signed, m, n
    <3>8. b = IF o.symbol = sym THEN m - (n + f) ELSE 0
      <4>1. h.side = "Buy" /\ h.symbol = o.symbol
        BY <2>3, <2>5
      <4>2. CASE m - (n + f) <= 0
        <5>1. ~IsOpen(h) /\ m - (n + f) = 0
          BY <1>1, <3>1, <3>6, <4>2 DEF IsOpen
        <5> QED BY <5>1 DEF ExposureOf
      <4>3. CASE ~(m - (n + f) <= 0)
        <5>1. IsOpen(h) /\ SignedRemaining(h) = m - (n + f)
          BY <3>1, <4>1, <4>3 DEF IsOpen, SignedRemaining, RemainingQty, Signed
        <5> QED BY <4>1, <5>1 DEF ExposureOf
      <4> QED BY <4>2, <4>3
    <3>9. d = IF o.symbol = sym THEN f ELSE 0
      BY <1>4, <1>5, <2>7 DEF o, i
    <3> HIDE DEF is, was, d, a, b
    <3>10. is + d <= was /\ d \in Int
      <4>1. f \in Nat
        BY <1>1
      <4> HIDE DEF f
      <4>2. CASE o.symbol = sym
        <5>1. a = m - n /\ b = m - (n + f) /\ d = f
          BY <3>7, <3>8, <3>9, <4>2
        <5> QED BY <1>3, <2>4, <3>6, <4>1, <5>1
      <4>3. CASE o.symbol # sym
        <5>1. a = 0 /\ b = 0 /\ d = 0
          BY <3>7, <3>8, <3>9, <4>3
        <5> QED BY <1>3, <2>4, <5>1
      <4> QED BY <4>2, <4>3
    <3> QED BY <1>3, <3>10 DEF is, was, d, bs
  <2> QED BY <2>6, <2>7
<1> QED BY <1>6, <1>7
-----------------------------------------------------------------------------
(* A step that touches no order. *)
LEMMA BuysStay ==
  ASSUME OnlyBuys, UNCHANGED <<orders, outbound, book>>, spc' # "idle" => req'.side = "Buy"
  PROVE  OnlyBuys'
BY DEF OnlyBuys, BuySlots, BuyOrder

(* The slots after an event of the kind onMessage() books. *)
LEMMA BuySlotsBooked ==
  ASSUME NEW os \in OrderTable, BuySlots(os), NEW e \in Events, e.type # "NewOrder", e.type # "Amend"
  PROVE  LET bs == BookOrder(os, e)
         IN  /\ BuySlots(bs)
             /\ \A bk, oid : BuyOrder(bk, os, oid) => BuyOrder(bk, bs, oid)
<1> DEFINE i == FindOrder(os, e.order_id)
           h == HandleKnown(os[i], e)
           bs == BookOrder(os, e)
<1>1. os \in Seq(Order)
  BY DEF OrderTable
<1>2. CASE i = 0
  <2>1. bs = os
    BY <1>2 DEF BookOrder
  <2> QED BY <2>1
<1>3. CASE i # 0
  <2>1. i \in 1..Len(os) /\ os[i] \in Order
    BY <1>1, <1>3, FindOrderProps
  <2>2. /\ h.order_id = os[i].order_id /\ h.symbol = os[i].symbol /\ h.side = os[i].side
        /\ h.original_qty = os[i].original_qty
    <3>1. /\ h.order_id = os[i].order_id /\ h.symbol = os[i].symbol /\ h.side = os[i].side
          /\ h.original_qty = IF e.type = "Amend" /\ e.qty > 0 THEN e.qty ELSE os[i].original_qty
      BY <2>1, HandleKnownFields, Zenon
    <3> QED BY <3>1
  <2>3. bs = [os EXCEPT ![i] = h]
    BY <1>3 DEF BookOrder
  <2> HIDE DEF i, h, bs
  <2>4. /\ Len(bs) = Len(os) /\ \A k \in 1..Len(os) : bs[k] = IF k = i THEN h ELSE os[k]
    BY <1>1, <2>1, <2>3
  <2>5. \A k \in 1..Len(os) : /\ bs[k].order_id = os[k].order_id /\ bs[k].symbol = os[k].symbol
                              /\ bs[k].side = os[k].side /\ bs[k].original_qty = os[k].original_qty
    BY <2>2, <2>4
  <2>6. BuySlots(bs)
    BY <2>4, <2>5 DEF BuySlots
  <2>7. ASSUME NEW bk, NEW oid, BuyOrder(bk, os, oid) PROVE BuyOrder(bk, bs, oid)
    <3>1. { k \in 1..Len(os) : os[k].order_id = oid } = { k \in 1..Len(bs) : bs[k].order_id = oid }
      BY <2>4, <2>5
    <3>2. FindOrder(bs, oid) = FindOrder(os, oid)
      BY <3>1, FindByIds
    <3>3. FindOrder(os, oid) \in 0..Len(os)
      BY <1>1, FindOrderProps
    <3>4. FindOrder(os, oid) # 0 =>
            bs[FindOrder(os, oid)].symbol = os[FindOrder(os, oid)].symbol
      BY <1>1, <2>5, <3>3
    <3> QED BY <2>7, <3>2, <3>4 DEF BuyOrder
  <2> QED BY <2>6, <2>7 DEF bs
<1> QED BY <1>2, <1>3

(* onMessage() books a report: no slot changes its side or its quantity. *)
LEMMA ProjectReportBuys ==
  ASSUME IndInv, OnlyBuys, ProjectReport
  PROVE  OnlyBuys'
<1>1. /\ ipc = "tracked" /\ orders' = BookOrder(orders, ievt)
      /\ UNCHANGED <<spc, req, outbound, book>>
  BY DEF ProjectReport, strategy
<1>2. ievt \in Events /\ ievt.type # "NewOrder" /\ ievt.type # "Amend"
  BY <1>1, ReportInHand
<1>3. orders \in OrderTable /\ BuySlots(orders)
  BY DEF IndInv, TypeOK, OrderTable, OnlyBuys
<1>4. BuySlots(BookOrder(orders, ievt))
  BY <1>2, <1>3, BuySlotsBooked
<1>5. ASSUME NEW oid \in OrderIds PROVE BuyOrder(book, BookOrder(orders, ievt), oid)
  <2>1. BuyOrder(book, orders, oid)
    BY DEF OnlyBuys
  <2> QED BY <1>2, <1>3, <2>1, BuySlotsBooked
<1> QED BY <1>1, <1>4, <1>5 DEF OnlyBuys

(* send_order() books its order: the new slot is a buy. *)
LEMMA ProjectOrderBuys ==
  ASSUME IndInv, IdsIssued, SlotForAll, OrdersKnown, OnlyBuys, ProjectOrder
  PROVE  OnlyBuys'
<1> DEFINE bs == BookOrder(orders, req)
           x == req.order_id
<1>1. /\ spc = "logged" /\ orders' = bs /\ UNCHANGED <<req, outbound, book>> /\ req.side = "Buy"
  BY DEF ProjectOrder, OnlyBuys, exchange
<1>2. req \in Events /\ req \in FillEvents /\ req.type = "NewOrder" /\ req.qty \in Nat
  <2>1. Request(req, x)
    BY <1>1 DEF IndInv, RequestOK
  <2>2. req.qty \in Nat
    BY <2>1, RequestEvent
  <2> QED BY <1>1, <2>2, RequestAtHand
<1>3. FindOrder(orders, x) = 0 /\ Len(orders) < MaxOrders
  BY <1>1, NoSlotYet
<1>4. orders \in OrderTable /\ orders \in Seq(Order)
  BY DEF IndInv, TypeOK, OrderTable
<1>5. /\ Len(bs) = Len(orders) + 1 /\ bs[Len(bs)] = NewOrder(req)
      /\ \A k \in 1..Len(orders) : bs[k] = orders[k]
  BY <1>2, <1>3, <1>4, BookOrderNew
<1>6. NewOrder(req).side = "Buy" /\ NewOrder(req).original_qty \in Nat
  BY <1>1, <1>2, NewOrderFields
<1>7. book[x].state = "None"
  BY <1>1, RequestIsOther DEF SlotForAll
<1> HIDE DEF bs, x
<1>8. BuySlots(bs)
  <2>1. Len(orders) \in Nat
    BY <1>4
  <2>2. \A k \in 1..Len(bs) : k \in 1..Len(orders) \/ k = Len(bs)
    BY <1>5, <2>1
  <2> QED BY <1>5, <1>6, <2>2 DEF OnlyBuys, BuySlots
<1>9. ASSUME NEW oid \in OrderIds PROVE BuyOrder(book, bs, oid)
  <2>1. BuyOrder(book, orders, oid)
    BY DEF OnlyBuys
  <2>2. CASE oid = x
    BY <1>7, <2>2 DEF BuyOrder
  <2>3. CASE oid # x /\ FindOrder(orders, oid) # 0
    <3>1. /\ FindOrder(bs, oid) = FindOrder(orders, oid)
          /\ bs[FindOrder(orders, oid)] = orders[FindOrder(orders, oid)]
      BY <1>2, <1>4, <2>3, BookOrderOther DEF bs, x
    <3> QED BY <2>1, <3>1 DEF BuyOrder
  <2>4. CASE FindOrder(orders, oid) = 0
    BY <2>1, <2>4 DEF BuyOrder
  <2> QED BY <2>2, <2>3, <2>4
<1> QED BY <1>1, <1>8, <1>9 DEF OnlyBuys

(* The exchange accepts or refuses a buy that has a slot. *)
LEMMA TakenBuys ==
  ASSUME IndInv, OrdersKnown, OrdOnly, OnlyBuys, AcceptOrder \/ RefuseOrder
  PROVE  OnlyBuys'
<1> DEFINE o == Head(outbound)
           x == o.cl_ord_id
<1>1. /\ outbound # << >> /\ outbound' = Tail(outbound) /\ UNCHANGED <<orders, spc, req>>
      /\ o.msg_type = "NewOrderSingle"
      /\ AcceptOrder => book' = [book EXCEPT ![x] = [ state |-> "Live", symbol |-> o.symbol,
                                   side |-> o.side, qty |-> o.order_qty, filled |-> 0 ]]
      /\ RefuseOrder => book' = book
  BY DEF AcceptOrder, RefuseOrder, strategy
<1>2. /\ o = outbound[1] /\ 1 \in 1..Len(outbound) /\ x \in OrderIds
      /\ \A k \in 1..Len(outbound') : k + 1 \in 1..Len(outbound) /\ outbound'[k] = outbound[k + 1]
  BY <1>1, OrdersTail
<1>3. o.side = "Buy" /\ \A k \in 1..Len(outbound') : outbound'[k].side = "Buy"
  BY <1>2 DEF OnlyBuys
<1>4. Awaited(book, inbound, orders, x, o.symbol, o.side, o.order_qty) /\ x[1] = "ORD"
  BY <1>1, <1>2 DEF OrdersKnown, OnTheWay, OrdOnly
<1>5. FindOrder(orders, x) # 0 /\ orders[FindOrder(orders, x)].symbol = o.symbol
  BY <1>4 DEF Awaited, KnownSlot, OpenSlot
<1>6. ASSUME NEW oid \in OrderIds PROVE BuyOrder(book', orders, oid)
  <2>1. BuyOrder(book, orders, oid)
    BY DEF OnlyBuys
  <2>2. CASE book'[oid] = book[oid]
    BY <2>1, <2>2 DEF BuyOrder
  <2>3. CASE book'[oid] # book[oid]
    <3>1. book \in [OrderIds -> BookEntry]
      BY DEF IndInv, TypeOK, BookEntry
    <3>2. oid = x /\ book'[oid].side = o.side /\ book'[oid].symbol = o.symbol
      BY <1>1, <1>2, <2>3, <3>1
    <3> QED BY <1>3, <1>5, <3>2 DEF BuyOrder
  <2> QED BY <2>2, <2>3
<1> QED BY <1>1, <1>3, <1>6 DEF OnlyBuys

(* A trade or a cancel leaves an order what it is. *)
LEMMA BookBuys ==
  ASSUME IndInv, OnlyBuys, UNCHANGED <<orders, spc, req, outbound>>,
         \A oid \in OrderIds : /\ book'[oid].symbol = book[oid].symbol
                               /\ book'[oid].side = book[oid].side
                               /\ book[oid].state = "None" => book'[oid].state = "None"
  PROVE  OnlyBuys'
BY DEF OnlyBuys, BuyOrder, BuySlots

(* No step makes an order of another side. *)
LEMMA NextOnlyBuys ==
  ASSUME ~ResetOnLogon, StrategySides = {"Buy"}, IndInv, IdsIssued, SlotForAll, SlotForAll',
         OrdersKnown, OrdOnly, OnlyBuys, [Next]_vars
  PROVE  OnlyBuys'
<1>1. CASE Strategy
  <2>1. ASSUME NEW sym \in Symbols, NEW side \in StrategySides, NEW qty \in Quantities \ {0},
               NEW px \in Prices, SendOrder(sym, side, qty, px)
        PROVE  OnlyBuys'
    <3>1. UNCHANGED <<orders, outbound, book>> /\ req' = MakeNewOrder(sym, side, qty, px, None)
      BY <2>1 DEF SendOrder, exchange
    <3>2. req'.side = "Buy"
      BY <3>1 DEF MakeNewOrder
    <3> QED BY <3>1, <3>2, BuysStay
  <2>2. CASE CheckRisk
    <3>1. /\ UNCHANGED <<orders, outbound, book>> /\ spc = "checking"
          /\ spc' # "idle" => req' = req
      BY <2>2 DEF CheckRisk, exchange
    <3> QED BY <3>1, BuysStay DEF OnlyBuys
  <2>3. CASE RecordOrder
    <3>1. /\ UNCHANGED <<orders, outbound, book>> /\ spc = "passed"
          /\ spc' # "idle" => req' = [req EXCEPT !.order_id = OrdId(order_counter)]
      BY <2>3 DEF RecordOrder, exchange
    <3>2. Request(req, None) /\ req.side = "Buy"
      BY <3>1 DEF IndInv, RequestOK, OnlyBuys
    <3>3. [req EXCEPT !.order_id = OrdId(order_counter)].side = req.side
      BY <3>2 DEF Request, MakeNewOrder
    <3> QED BY <3>1, <3>2, <3>3, BuysStay
  <2>4. CASE TransmitOrder
    <3>1. /\ UNCHANGED <<orders, book>> /\ spc = "booked" /\ spc' = "idle"
          /\ outbound' = Append(outbound, ToNewOrderSingle(req))
      BY <2>4 DEF TransmitOrder
    <3>2. ToNewOrderSingle(req).side = "Buy"
      BY <3>1 DEF OnlyBuys, ToNewOrderSingle
    <3>3. outbound \in Seq(Messages)
      BY DEF IndInv
    <3> DEFINE m == ToNewOrderSingle(req)
    <3> HIDE DEF m
    <3>4. \A k \in 1..Len(outbound') : outbound'[k] = m \/ (k \in 1..Len(outbound) /\ outbound'[k] = outbound[k])
      BY <3>1, <3>3 DEF m
    <3> QED BY <3>1, <3>2, <3>4 DEF OnlyBuys, BuySlots, BuyOrder, m
  <2> QED BY <1>1, <2>1, <2>2, <2>3, <2>4, ProjectOrderBuys DEF Strategy
<1>2. CASE IOThread
  <2>1. CASE Logon \/ Logout \/ DropReport \/ TakeReport \/ LogReport \/ TrackReport
    <3>1. UNCHANGED <<orders, outbound, book, spc, req>>
      BY <2>1 DEF Logon, Logout, DropReport, TakeReport, LogReport, TrackReport, strategy, exchange
    <3> QED BY <3>1, BuysStay DEF OnlyBuys
  <2> QED BY <1>2, <2>1, ProjectReportBuys DEF IOThread
<1>3. CASE Process
  BY <1>3 DEF Process, Crash, TerminateLogFull, Restart, Down, SlotForAll, OneLife
<1>4. CASE Exchange
  <2>0. book \in [OrderIds -> BookEntry]
    BY DEF IndInv, TypeOK, BookEntry
  <2>1. ASSUME NEW oid \in OrderIds, NEW qty \in Quantities \ {0}, NEW px \in Prices,
               Trade(oid, qty, px)
        PROVE  OnlyBuys'
    <3>1. /\ UNCHANGED <<orders, spc, req, outbound>>
          /\ book[oid].state = "Live"
          /\ \A id \in OrderIds : id # oid => book'[id] = book[id]
          /\ book'[oid].symbol = book[oid].symbol /\ book'[oid].side = book[oid].side
      BY <2>0, <2>1 DEF Trade, strategy, BookEntry
    <3> QED BY <3>1, BookBuys
  <2>2. ASSUME NEW oid \in OrderIds, CancelOrder(oid) \/ ExpireOrder(oid) PROVE OnlyBuys'
    <3>1. /\ UNCHANGED <<orders, spc, req, outbound>>
          /\ book[oid].state = "Live"
          /\ \A id \in OrderIds : id # oid => book'[id] = book[id]
          /\ book'[oid].symbol = book[oid].symbol /\ book'[oid].side = book[oid].side
      BY <2>0, <2>2 DEF CancelOrder, ExpireOrder, strategy, BookEntry
    <3> QED BY <3>1, BookBuys
  <2> QED BY <1>4, <2>1, <2>2, TakenBuys DEF Exchange
<1>5. CASE UNCHANGED vars
  <2>1. UNCHANGED <<orders, outbound, book, spc, req>>
    BY <1>5 DEF vars, strategy, exchange
  <2> QED BY <2>1, BuysStay DEF OnlyBuys
<1> QED BY <1>1, <1>2, <1>3, <1>4, <1>5 DEF Next
-----------------------------------------------------------------------------
(* One thread: what check() lets pass fits what the process knows of. *)

(* The numbers LimitKept adds up. *)
LEMMA LimitNumbers ==
  ASSUME IndInv, OneSlotEach(positions), NEW sym \in Symbols
  PROVE  /\ Net(positions, sym) \in Int /\ OpenExposure(orders, sym) \in Int
         /\ HalfBooked(sym) \in Int /\ Asked(sym) \in Nat
         /\ MaxNetPosition \in Nat
<1>1. positions \in Seq(Position) /\ orders \in Seq(Order)
  BY DEF IndInv, TypeOK
<1>2. Net(positions, sym) \in Int /\ OpenExposure(orders, sym) \in Int
  BY <1>1, NetOfSlot, ExposureIsSum
<1>3. HalfBooked(sym) \in Int
  <2>1. CASE ipc = "tracked"
    <3>1. ievt.fill_qty \in Nat
      BY <2>1, ReportInHand
    <3> QED BY <3>1 DEF HalfBooked, Signed
  <2>2. CASE ipc # "tracked"
    BY <2>2 DEF HalfBooked
  <2> QED BY <2>1, <2>2
<1>4. Asked(sym) \in Nat
  <2>1. CASE spc \in {"passed", "logged"}
    <3>1. \E oid : Request(req, oid)
      BY <2>1 DEF IndInv, RequestOK
    <3>2. req.qty \in Nat
      BY <3>1, RequestEvent
    <3> QED BY <3>2 DEF Asked
  <2>2. CASE spc \notin {"passed", "logged"}
    BY <2>2 DEF Asked
  <2> QED BY <2>1, <2>2
<1> QED BY <1>2, <1>3, <1>4, LimitsAssumption

(* A step of the exchange or of the session. *)
LEMMA LimitStays ==
  ASSUME LimitKept, UNCHANGED <<positions, orders, spc, req, net_read, ipc, ievt>>
  PROVE  LimitKept'
BY DEF LimitKept, HalfBooked, Asked

(* An order that passes fits beside the position and the open orders. *)
LEMMA CheckRiskLimit ==
  ASSUME StrategySides = {"Buy"}, IndInv, OneSlotEach(positions), OnlyBuys, LimitKept, CheckRisk
  PROVE  LimitKept'
<1> DEFINE s == req.symbol
           exp == OpenExposure(orders, s)
           pos == GetPosition(positions, s)
           res == Check(req.side, req.qty, req.price, net_read, exp, pos)
<1>1. /\ spc = "checking" /\ UNCHANGED <<positions, orders, io>>
      /\ IF res = "Pass" THEN spc' = "passed" /\ req' = req ELSE spc' = "idle" /\ req' = None
  BY DEF CheckRisk
<1>2. ipc = "idle" /\ net_read = Net(positions, s) /\ req.side = "Buy"
  BY <1>1 DEF LimitKept, OnlyBuys
<1>3. s \in Symbols /\ req.qty \in Nat
  <2>1. Request(req, None)
    BY <1>1 DEF IndInv, RequestOK
  <2> QED BY <2>1, RequestEvent
<1>4. Net(positions, s) \in Int /\ exp \in Int /\ MaxNetPosition \in Nat
  BY <1>3, LimitNumbers
<1>5. /\ UNCHANGED <<ipc, ievt>> /\ \A sym \in Symbols : HalfBooked(sym) = 0 /\ HalfBooked(sym)' = 0
  BY <1>1, <1>2 DEF io, HalfBooked
<1>6. CASE res = "Pass"
  <2>1. spc' = "passed" /\ req' = req
    BY <1>1, <1>6
  <2>2. (Net(positions, s) + exp) + req.qty <= MaxNetPosition
    <3> DEFINE n == net_read
               q == req.qty
    <3>1. n \in Int /\ exp \in Int /\ q \in Nat /\ Signed(req.side, q) = q
      BY <1>2, <1>3, <1>4 DEF Signed
    <3> HIDE DEF exp, pos, n, q
    <3>2. res = Check(req.side, q, req.price, n, exp, pos)
      BY DEF n, q
    <3> HIDE DEF res
    <3>3. ~((n + exp) + q > MaxNetPosition)
      BY <1>6, <3>1, <3>2 DEF Check
    <3> QED BY <1>2, <1>4, <3>1, <3>3 DEF n, q
  <2>3. ASSUME NEW sym \in Symbols
        PROVE  ((Net(positions, sym) - 0) + OpenExposure(orders, sym)) + Asked(sym)' <= MaxNetPosition
    <3>1. CASE sym = s
      <4>1. Asked(sym)' = req.qty
        BY <2>1, <3>1 DEF Asked
      <4> QED BY <1>3, <1>4, <2>2, <3>1, <4>1
    <3>2. CASE sym # s
      <4>1. Asked(sym)' = 0 /\ Asked(sym) = 0
        BY <1>1, <2>1, <3>2 DEF Asked
      <4>2. ((Net(positions, sym) - HalfBooked(sym)) + OpenExposure(orders, sym)) + Asked(sym) <= MaxNetPosition
        BY DEF LimitKept
      <4> QED BY <1>5, <4>1, <4>2
    <3> QED BY <3>1, <3>2
  <2> QED BY <1>1, <1>2, <1>5, <2>1, <2>3 DEF LimitKept
<1>7. CASE res # "Pass"
  <2>1. spc' = "idle"
    BY <1>1, <1>7
  <2>2. \A sym \in Symbols : Asked(sym)' = 0 /\ Asked(sym) = 0
    BY <1>1, <2>1 DEF Asked
  <2> QED BY <1>1, <1>5, <2>1, <2>2 DEF LimitKept
<1> QED BY <1>6, <1>7

(* The id leaves the quantity alone, and a full log gives the order up. *)
LEMMA RecordOrderLimit ==
  ASSUME IndInv, OneSlotEach(positions), LimitKept, RecordOrder
  PROVE  LimitKept'
<1>1. /\ spc = "passed" /\ UNCHANGED <<positions, orders, io>>
      /\ \/ spc' = "logged" /\ req' = [req EXCEPT !.order_id = OrdId(order_counter)]
         \/ spc' = "idle"
  BY DEF RecordOrder
<1>2. Request(req, None)
  BY <1>1 DEF IndInv, RequestOK
<1>3. LET e == [req EXCEPT !.order_id = OrdId(order_counter)]
      IN  e.symbol = req.symbol /\ e.qty = req.qty
  BY <1>2 DEF Request, MakeNewOrder
<1>4. ASSUME NEW sym \in Symbols PROVE Asked(sym)' = Asked(sym) \/ Asked(sym)' = 0
  BY <1>1, <1>3 DEF Asked
<1>5. ipc' = ipc /\ ievt' = ievt /\ ipc = "idle"
  BY <1>1 DEF io, LimitKept
<1>6. \A sym \in Symbols : HalfBooked(sym)' = HalfBooked(sym)
  BY <1>5 DEF HalfBooked
<1>7. ASSUME NEW sym \in Symbols
      PROVE  ((Net(positions, sym) - HalfBooked(sym)) + OpenExposure(orders, sym)) + Asked(sym)'
               <= MaxNetPosition
  <2>1. /\ Net(positions, sym) \in Int /\ OpenExposure(orders, sym) \in Int
        /\ HalfBooked(sym) \in Int /\ Asked(sym) \in Nat /\ MaxNetPosition \in Nat
    BY LimitNumbers
  <2>2. ((Net(positions, sym) - HalfBooked(sym)) + OpenExposure(orders, sym)) + Asked(sym)
          <= MaxNetPosition
    BY DEF LimitKept
  <2> QED BY <1>4, <2>1, <2>2
<1> QED BY <1>1, <1>5, <1>6, <1>7 DEF LimitKept

(* The slot of the order takes the place of the request. *)
LEMMA ProjectOrderLimit ==
  ASSUME IndInv, IdsIssued, SlotForAll, OrdersKnown, OneSlotEach(positions), OnlyBuys, LimitKept,
         ProjectOrder
  PROVE  LimitKept'
<1> DEFINE bs == BookOrder(orders, req)
<1>1. /\ spc = "logged" /\ spc' = "booked" /\ orders' = bs /\ UNCHANGED <<positions, req, io>>
  BY DEF ProjectOrder
<1>2. ipc' = ipc /\ ievt' = ievt /\ ipc = "idle" /\ req.side = "Buy"
  BY <1>1 DEF io, LimitKept, OnlyBuys
<1>3. req \in Events /\ req.type = "NewOrder"
  BY <1>1, RequestAtHand
<1>4. FindOrder(orders, req.order_id) = 0 /\ Len(orders) < MaxOrders /\ orders \in OrderTable
  BY <1>1, NoSlotYet DEF IndInv, TypeOK, OrderTable
<1>5. \A sym \in Symbols : HalfBooked(sym)' = HalfBooked(sym)
  BY <1>2 DEF HalfBooked
<1>6. ASSUME NEW sym \in Symbols
      PROVE  ((Net(positions, sym) - HalfBooked(sym)) + OpenExposure(bs, sym)) + Asked(sym)'
               <= MaxNetPosition
  <2>1. /\ Net(positions, sym) \in Int /\ OpenExposure(orders, sym) \in Int
        /\ HalfBooked(sym) \in Int /\ Asked(sym) \in Nat /\ MaxNetPosition \in Nat
    BY LimitNumbers
  <2>2. ((Net(positions, sym) - HalfBooked(sym)) + OpenExposure(orders, sym)) + Asked(sym)
          <= MaxNetPosition
    BY DEF LimitKept
  <2>3. Asked(sym)' = 0
    BY <1>1 DEF Asked
  <2>4. OpenExposure(bs, sym) = OpenExposure(orders, sym)
                                  + IF req.symbol = sym THEN Signed(req.side, req.qty) ELSE 0
    BY <1>3, <1>4, ExposureGrows
  <2>5. Asked(sym) = IF req.symbol = sym THEN Signed(req.side, req.qty) ELSE 0
    BY <1>1, <1>2 DEF Asked, Signed
  <2> HIDE DEF bs
  <2> QED BY <2>1, <2>2, <2>3, <2>4, <2>5
<1> QED BY <1>1, <1>2, <1>5, <1>6 DEF LimitKept

(* The tracker books a fill the manager has still open. *)
LEMMA TrackReportLimit ==
  ASSUME IsFiniteSet(Symbols), Cardinality(Symbols) <= MaxSymbols,
         IndInv, OneSlotEach(positions), LimitKept, TrackReport
  PROVE  LimitKept'
<1> DEFINE qs == BookPosition(positions, ievt)
<1>1. /\ ipc = "logged" /\ ipc' = "tracked" /\ positions' = qs
      /\ UNCHANGED <<orders, spc, req, net_read, ievt>>
  BY DEF TrackReport, ApplyEvent, strategy
<1>2. spc = "idle" /\ ievt \in FillEvents /\ positions \in PositionTable
  BY <1>1, ReportInHand DEF LimitKept, IndInv, TypeOK, PositionTable
<1>3. ASSUME NEW sym \in Symbols
      PROVE  Net(qs, sym) - HalfBooked(sym)' = Net(positions, sym) - HalfBooked(sym)
  <2> DEFINE d == IF IsFill(ievt) /\ ievt.symbol = sym THEN Signed(ievt.side, ievt.fill_qty) ELSE 0
  <2>1. Net(qs, sym) = Net(positions, sym) + d
    BY <1>2, NetMoves
  <2>2. HalfBooked(sym)' = d /\ HalfBooked(sym) = 0
    BY <1>1 DEF HalfBooked
  <2>3. Net(positions, sym) \in Int /\ d \in Int
    <3>1. ievt.fill_qty \in Nat
      BY <1>1, ReportInHand
    <3> QED BY <3>1, LimitNumbers DEF Signed
  <2> HIDE DEF d, qs
  <2> QED BY <2>1, <2>2, <2>3
<1>4. \A sym \in Symbols : Asked(sym)' = Asked(sym)
  BY <1>1 DEF Asked
<1> HIDE DEF qs
<1> QED BY <1>1, <1>2, <1>3, <1>4 DEF LimitKept

(* The manager gives back what the tracker has booked. *)
LEMMA ProjectReportLimit ==
  ASSUME IndInv, OrdersKnown, NothingLingers, OneSlotEach(positions), TradesMatch(book, inbound),
         OnlyBuys, LimitKept, ProjectReport
  PROVE  LimitKept'
<1> DEFINE bs == BookOrder(orders, ievt)
<1>1. /\ ipc = "tracked" /\ ipc' = "idle" /\ orders' = bs
      /\ UNCHANGED <<positions, spc, req, net_read>>
  BY DEF ProjectReport, strategy
<1>2. ASSUME NEW sym \in Symbols
      PROVE  ((Net(positions, sym) - HalfBooked(sym)') + OpenExposure(bs, sym)) + Asked(sym)'
               <= MaxNetPosition
  <2>1. /\ Net(positions, sym) \in Int /\ OpenExposure(orders, sym) \in Int
        /\ HalfBooked(sym) \in Int /\ Asked(sym) \in Nat /\ MaxNetPosition \in Nat
    BY LimitNumbers
  <2>2. ((Net(positions, sym) - HalfBooked(sym)) + OpenExposure(orders, sym)) + Asked(sym)
          <= MaxNetPosition
    BY DEF LimitKept
  <2>3. /\ OpenExposure(bs, sym) + HalfBooked(sym) <= OpenExposure(orders, sym)
        /\ OpenExposure(bs, sym) \in Int
    BY <1>1, SlotReleases
  <2>4. HalfBooked(sym)' = 0 /\ Asked(sym)' = Asked(sym)
    BY <1>1 DEF HalfBooked, Asked
  <2> HIDE DEF bs
  <2> QED BY <2>1, <2>2, <2>3, <2>4
<1> QED BY <1>1, <1>2 DEF LimitKept

(* No step takes the position and the exposure past the limit. *)
LEMMA NextLimitKept ==
  ASSUME SameThread, ~ResetOnLogon, StrategySides = {"Buy"}, IsFiniteSet(Symbols),
         Cardinality(Symbols) <= MaxSymbols, IndInv, IdsIssued, SlotForAll, SlotForAll', OrdersKnown,
         NothingLingers, Reconciles, OnlyBuys, LimitKept, [Next]_vars
  PROVE  LimitKept'
<1>1. OneSlotEach(positions) /\ TradesMatch(book, inbound)
  BY DEF Reconciles
<1>2. CASE Strategy
  <2>1. ASSUME NEW sym \in Symbols, NEW side \in StrategySides, NEW qty \in Quantities \ {0},
               NEW px \in Prices, SendOrder(sym, side, qty, px)
        PROVE  LimitKept'
    <3>1. /\ UNCHANGED <<positions, orders, ipc, ievt>> /\ spc = "idle" /\ spc' = "checking"
          /\ req' = MakeNewOrder(sym, side, qty, px, None) /\ ipc = "idle"
          /\ net_read' = Net(positions, sym)
      BY <2>1 DEF SendOrder, io, Net
    <3>2. req'.symbol = sym
      BY <3>1 DEF MakeNewOrder
    <3>3. \A t \in Symbols : HalfBooked(t)' = HalfBooked(t) /\ Asked(t)' = 0 /\ Asked(t) = 0
      BY <3>1 DEF HalfBooked, Asked
    <3> QED BY <3>1, <3>2, <3>3 DEF LimitKept
  <2>2. CASE TransmitOrder
    <3>1. UNCHANGED <<positions, orders, ipc, ievt>> /\ spc = "booked" /\ spc' = "idle"
      BY <2>2 DEF TransmitOrder, io
    <3>2. \A t \in Symbols : HalfBooked(t)' = HalfBooked(t) /\ Asked(t)' = 0 /\ Asked(t) = 0
      BY <3>1 DEF HalfBooked, Asked
    <3> QED BY <3>1, <3>2 DEF LimitKept
  <2> QED BY <1>1, <1>2, <2>1, <2>2, CheckRiskLimit, RecordOrderLimit, ProjectOrderLimit DEF Strategy
<1>3. CASE IOThread
  <2>1. CASE Logon \/ Logout \/ DropReport
    <3>1. UNCHANGED <<positions, orders, spc, req, net_read, ipc, ievt>>
      BY <2>1 DEF Logon, Logout, DropReport, strategy, io
    <3> QED BY <3>1, LimitStays
  <2>2. CASE TakeReport \/ LogReport
    <3>1. /\ UNCHANGED <<positions, orders, spc, req, net_read>>
          /\ ipc # "tracked" /\ ipc' # "tracked" /\ spc = "idle"
      BY <2>2 DEF TakeReport, LogReport, Deliverable, strategy, LimitKept
    <3>2. \A t \in Symbols : HalfBooked(t)' = 0 /\ HalfBooked(t) = 0 /\ Asked(t)' = Asked(t)
      BY <3>1 DEF HalfBooked, Asked
    <3> QED BY <3>1, <3>2 DEF LimitKept
  <2> QED BY <1>1, <1>3, <2>1, <2>2, TrackReportLimit, ProjectReportLimit DEF IOThread
<1>4. CASE Process
  BY <1>4 DEF Process, Crash, TerminateLogFull, Restart, Down, SlotForAll, OneLife
<1>5. CASE Exchange
  <2>1. UNCHANGED <<positions, orders, spc, req, net_read, ipc, ievt>>
    BY <1>5 DEF Exchange, AcceptOrder, RefuseOrder, Trade, CancelOrder, ExpireOrder, strategy, io
  <2> QED BY <2>1, LimitStays
<1>6. CASE UNCHANGED vars
  <2>1. UNCHANGED <<positions, orders, spc, req, net_read, ipc, ievt>>
    BY <1>6 DEF vars, strategy, io
  <2> QED BY <2>1, LimitStays
<1> QED BY <1>2, <1>3, <1>4, <1>5, <1>6 DEF Next
-----------------------------------------------------------------------------
(* What the exchange holds and has open, as sums over the ids. *)
HeldOf == [oid \in OrderIds |-> Signed(book[oid].side, book[oid].filled)]

(* What of an order can still trade, and the live orders of a side. *)
LeavesAt == [oid \in OrderIds |-> book[oid].qty - book[oid].filled]

LiveOf(sym, side) ==
  { oid \in OrderIds : book[oid].state = "Live" /\ book[oid].symbol = sym /\ book[oid].side = side }

(* Those are sums of integers over finite sets. *)
LEMMA BookNumbers ==
  ASSUME IndInv, IsFiniteSet(OrderIds)
  PROVE  /\ \A oid \in OrderIds : /\ book[oid].filled \in Nat /\ book[oid].qty \in Nat
                                  /\ HeldOf[oid] = Signed(book[oid].side, book[oid].filled)
                                  /\ HeldOf[oid] \in Int
                                  /\ LeavesAt[oid] = book[oid].qty - book[oid].filled
                                  /\ LeavesAt[oid] \in Int
         /\ \A sym, side : IsFiniteSet(LiveOf(sym, side)) /\ LiveOf(sym, side) \subseteq OrderIds
         /\ \A sym : IsFiniteSet(OrdersOf(book, sym)) /\ OrdersOf(book, sym) \subseteq OrderIds
<1>1. \A oid \in OrderIds : book[oid].filled \in Nat /\ book[oid].qty \in Nat
  BY UntrackedReports DEF Books, BookEntry
<1>2. \A oid \in OrderIds : /\ HeldOf[oid] = Signed(book[oid].side, book[oid].filled)
                            /\ LeavesAt[oid] = book[oid].qty - book[oid].filled
  BY DEF HeldOf, LeavesAt
<1>3. \A oid \in OrderIds : HeldOf[oid] \in Int /\ LeavesAt[oid] \in Int
  BY <1>1, <1>2 DEF Signed
<1>4. \A sym, side : IsFiniteSet(LiveOf(sym, side)) /\ LiveOf(sym, side) \subseteq OrderIds
  BY FS_Subset DEF LiveOf
<1>5. \A sym : IsFiniteSet(OrdersOf(book, sym)) /\ OrdersOf(book, sym) \subseteq OrderIds
  BY FS_Subset DEF OrdersOf
<1> QED BY <1>1, <1>2, <1>3, <1>4, <1>5

(* The sums that WithinLimit speaks of. *)
LEMMA HeldSum ==
  ASSUME IndInv, IsFiniteSet(OrderIds), NEW sym
  PROVE  Held(sym) = SetSum(HeldOf, OrdersOf(book, sym))
<1> DEFINE S == OrdersOf(book, sym)
           f == HeldOf
           Of(oid) == Signed(book[oid].side, book[oid].filled)
           It == CHOOSE g : g = [s \in SUBSET S |->
                   IF s = {} THEN 0
                   ELSE Of(CHOOSE x \in s : TRUE) + g[s \ {CHOOSE x \in s : TRUE}]]
<1>1. IsFiniteSet(S) /\ \A oid \in S : f[oid] = Of(oid) /\ f[oid] \in Int
  BY BookNumbers
<1>2. Held(sym) = It[S]
  BY DEF Held, OrdersOf, MapThenSumSet, MapThenFoldSet
<1> HIDE DEF S, f, Of
<1>3. PICK h : IsSetSums(h, S, f)
  BY <1>1, SetSumsExist
<1>4. \A s \in SUBSET S : s # {} => PickOf(s) \in S
  BY PickOfMember
<1>5. h = [s \in SUBSET S |->
             IF s = {} THEN 0
             ELSE Of(CHOOSE x \in s : TRUE) + h[s \ {CHOOSE x \in s : TRUE}]]
  <2>1. h \in [SUBSET S -> Int]
    BY <1>3 DEF IsSetSums
  <2>2. \A s \in SUBSET S : h[s] = IF s = {} THEN 0 ELSE Of(PickOf(s)) + h[s \ {PickOf(s)}]
    BY <1>1, <1>3, <1>4 DEF IsSetSums
  <2> QED BY <2>1, <2>2 DEF PickOf
<1>6. It = [s \in SUBSET S |->
             IF s = {} THEN 0
             ELSE Of(CHOOSE x \in s : TRUE) + It[s \ {CHOOSE x \in s : TRUE}]]
  BY <1>5
<1> HIDE DEF It
<1>7. SolvesSetSums(It, S, f)
  BY <1>1, <1>4, <1>6 DEF SolvesSetSums, PickOf
<1>8. IsSetSums(It, S, f)
  BY <1>1, <1>7, SetSumsTyped
<1>9. PICK e : IsSetSums(e, S, f) /\ SetSum(f, S) = e[S]
  BY <1>1, SetSumBy
<1>10. It[S] = e[S]
  <2>1. S \in SUBSET S
    OBVIOUS
  <2> QED BY <1>1, <1>8, <1>9, <2>1, SetSumsAgree
<1> QED BY <1>1, <1>2, <1>9, <1>10 DEF S, f

(* What of the live orders of one side can still trade. *)
LEMMA ExposedSum ==
  ASSUME IndInv, IsFiniteSet(OrderIds), NEW sym, NEW side
  PROVE  Exposed(sym, side) = SetSum(LeavesAt, LiveOf(sym, side))
<1> DEFINE S == LiveOf(sym, side)
           f == LeavesAt
           Of(oid) == book[oid].qty - book[oid].filled
           It == CHOOSE g : g = [s \in SUBSET S |->
                   IF s = {} THEN 0
                   ELSE Of(CHOOSE x \in s : TRUE) + g[s \ {CHOOSE x \in s : TRUE}]]
<1>1. IsFiniteSet(S) /\ \A oid \in S : f[oid] = Of(oid) /\ f[oid] \in Int
  BY BookNumbers
<1>2. Exposed(sym, side) = It[S]
  BY DEF Exposed, LiveOf, MapThenSumSet, MapThenFoldSet
<1> HIDE DEF S, f, Of
<1>3. PICK h : IsSetSums(h, S, f)
  BY <1>1, SetSumsExist
<1>4. \A s \in SUBSET S : s # {} => PickOf(s) \in S
  BY PickOfMember
<1>5. h = [s \in SUBSET S |->
             IF s = {} THEN 0
             ELSE Of(CHOOSE x \in s : TRUE) + h[s \ {CHOOSE x \in s : TRUE}]]
  <2>1. h \in [SUBSET S -> Int]
    BY <1>3 DEF IsSetSums
  <2>2. \A s \in SUBSET S : h[s] = IF s = {} THEN 0 ELSE Of(PickOf(s)) + h[s \ {PickOf(s)}]
    BY <1>1, <1>3, <1>4 DEF IsSetSums
  <2> QED BY <2>1, <2>2 DEF PickOf
<1>6. It = [s \in SUBSET S |->
             IF s = {} THEN 0
             ELSE Of(CHOOSE x \in s : TRUE) + It[s \ {CHOOSE x \in s : TRUE}]]
  BY <1>5
<1> HIDE DEF It
<1>7. SolvesSetSums(It, S, f)
  BY <1>1, <1>4, <1>6 DEF SolvesSetSums, PickOf
<1>8. IsSetSums(It, S, f)
  BY <1>1, <1>7, SetSumsTyped
<1>9. PICK e : IsSetSums(e, S, f) /\ SetSum(f, S) = e[S]
  BY <1>1, SetSumBy
<1>10. It[S] = e[S]
  <2>1. S \in SUBSET S
    OBVIOUS
  <2> QED BY <1>1, <1>8, <1>9, <2>1, SetSumsAgree
<1> QED BY <1>1, <1>2, <1>9, <1>10 DEF S, f

(* The positions without the report in hand are the fills that were        *)
(* delivered before it.                                                    *)
LEMMA NetDelivered ==
  ASSUME IsFiniteSet(OrderIds), IndInv, Reconciles, NEW sym \in Symbols
  PROVE  Net(positions, sym) - HalfBooked(sym) =
           SetSum(SharesOf(book, inbound), OrdersOf(book, sym))
<1> DEFINE S == OrdersOf(book, sym)
           f == SharesOf(book, Untracked)
           g == SharesOf(book, inbound)
           r == Head(inbound)
           x == r.cl_ord_id
           d == HalfBooked(sym)
           net == Net(positions, sym)
<1>1. /\ inbound \in Seq(ExecutionReports) /\ Untracked \in Seq(ExecutionReports) /\ book \in Books
  BY UntrackedReports
<1>2. net = SetSum(f, S) /\ net \in Int /\ d \in Int
  BY LimitNumbers DEF Reconciles, Reconciled
<1>3. CASE ipc # "tracked"
  <2>1. f = g /\ d = 0
    BY <1>3 DEF Untracked, HalfBooked
  <2> HIDE DEF f, g, S, d, net
  <2>2. net - d = SetSum(g, S)
    BY <1>2, <2>1
  <2> QED BY <2>2 DEF g, S, d, net
<1>4. CASE ipc = "tracked"
  <2>1. /\ inbound # << >> /\ r = inbound[1] /\ 1 \in 1..Len(inbound)
        /\ ievt.symbol = r.symbol /\ ievt.side = r.side /\ x \in OrderIds
        /\ ievt.fill_qty = r.last_shares /\ r.last_shares \in Nat
        /\ IsFill(ievt) <=> r.last_shares > 0
    BY <1>4, ReportInHand
  <2>2. Untracked = Tail(inbound)
    BY <1>4 DEF Untracked
  <2>3. \A oid : QueuedFills(inbound, oid) =
                   QueuedFills(Untracked, oid) + IF x = oid THEN r.last_shares ELSE 0
    BY <1>1, <2>1, <2>2, QueuedFillsTail
  <2>4. /\ \A oid \in OrderIds : /\ f[oid] \in Int /\ g[oid] \in Int
                                 /\ f[oid] = Signed(book[oid].side, book[oid].filled - QueuedFills(Untracked, oid))
                                 /\ g[oid] = Signed(book[oid].side, book[oid].filled - QueuedFills(inbound, oid))
                                 /\ book[oid].filled \in Nat
                                 /\ QueuedFills(Untracked, oid) \in Nat
        /\ S \subseteq OrderIds /\ IsFiniteSet(S)
    BY <1>1, SharesType
  <2>5. r.last_shares > 0 => book[x].symbol = r.symbol /\ book[x].side = r.side
    BY <2>1 DEF Reconciles, TradesMatch
  <2>6. x \in S <=> book[x].symbol = sym
    BY <2>1 DEF OrdersOf
  <2>7. ASSUME NEW y \in S \ {x} PROVE f[y] = g[y]
    <3> DEFINE q == QueuedFills(Untracked, y)
    <3>1. y \in OrderIds /\ y # x /\ q \in Nat
      BY <2>4
    <3>2. QueuedFills(inbound, y) = q + 0
      BY <2>3, <3>1
    <3> HIDE DEF q
    <3>3. QueuedFills(inbound, y) = q
      BY <3>1, <3>2
    <3> QED BY <2>4, <3>1, <3>3 DEF q
  <2>8. f[x] - g[x] = Signed(book[x].side, r.last_shares) /\ f[x] \in Int /\ g[x] \in Int
    <3> DEFINE q == QueuedFills(Untracked, x)
               w == QueuedFills(inbound, x)
    <3>1. w = q + r.last_shares /\ q \in Nat /\ r.last_shares \in Nat /\ book[x].filled \in Nat
      BY <2>1, <2>3, <2>4
    <3>2. f[x] = Signed(book[x].side, book[x].filled - q) /\ g[x] = Signed(book[x].side, book[x].filled - w)
      BY <2>1, <2>4
    <3>3. f[x] \in Int /\ g[x] \in Int
      BY <2>1, <2>4
    <3> HIDE DEF q, w, f, g
    <3> QED BY <3>1, <3>2, <3>3 DEF Signed
  <2> HIDE DEF S, f, g
  <2>9. /\ SetSum(f, S) \in Int /\ SetSum(g, S) \in Int
        /\ SetSum(f, S) - TermOf(f, S, x) = SetSum(g, S) - TermOf(g, S, x)
    <3>1. OneTermApart(S, S, x, f, g)
      BY <2>4, <2>7 DEF OneTermApart
    <3> QED BY <3>1, SetSumOneTerm
  <2>10. d = IF x \in S THEN Signed(book[x].side, r.last_shares) ELSE 0
    <3>1. CASE r.last_shares > 0
      BY <1>4, <2>1, <2>5, <2>6, <3>1 DEF HalfBooked
    <3>2. CASE r.last_shares = 0
      <4>1. Signed(book[x].side, r.last_shares) = 0
        BY <3>2, SignedZero
      <4>2. d = 0
        BY <2>1, <3>2 DEF HalfBooked
      <4> QED BY <4>1, <4>2
    <3> QED BY <2>1, <3>1, <3>2
  <2> HIDE DEF d, net, x
  <2>11. net - d = SetSum(g, S)
    BY <1>2, <2>8, <2>9, <2>10 DEF TermOf
  <2> QED BY <2>11 DEF g, S, d, net
<1> QED BY <1>3, <1>4

(* What is still to reach the position of an order's symbol: the reports   *)
(* that are under way, and what of the order can still trade.              *)
LeavesLive ==
  [oid \in OrderIds |->
     IF book[oid].state = "Live" THEN book[oid].qty - book[oid].filled ELSE 0]

Owed == [oid \in OrderIds |-> QueuedFills(inbound, oid) + LeavesLive[oid]]

(* The slot of an order keeps open all that is outstanding of it. *)
LEMMA SlotCovers ==
  ASSUME IndInv, OrdersKnown, NothingLingers, Reconciles, OnlyBuys, NEW oid \in OrderIds
  PROVE  LET i == FindOrder(orders, oid)
         IN  /\ LeavesLive[oid] \in Nat /\ QueuedFills(inbound, oid) \in Nat
             /\ Owed[oid] = QueuedFills(inbound, oid) + LeavesLive[oid]
             /\ Owed[oid] \in Nat
             /\ i \in 0..Len(orders)
             /\ i = 0 => Owed[oid] = 0
             /\ i # 0 => /\ orders[i].order_id = oid
                         /\ Owed[oid] <= ExposureOf(orders[i], book[oid].symbol)
<1> DEFINE i == FindOrder(orders, oid)
           b == book[oid]
           q == QueuedFills(inbound, oid)
           w == LeavesLive[oid]
           t == Owed[oid]
<1>1. /\ orders \in Seq(Order) /\ inbound \in Seq(ExecutionReports) /\ book \in Books
      /\ TradesMatch(book, inbound) /\ UnseenUntraded(book)
  BY UntrackedReports DEF IndInv, TypeOK, Reconciles
<1>2. b.qty \in Nat /\ b.filled \in Nat
  BY <1>1 DEF Books, BookEntry
<1>3. q \in Nat
  BY <1>1, QueuedFillsIsSum
<1>4. w = (IF b.state = "Live" THEN b.qty - b.filled ELSE 0) /\ t = q + w
  BY DEF LeavesLive, Owed
<1>5. b.state # "None" => b.filled <= b.qty
  BY FilledWithin
<1>6. i \in 0..Len(orders) /\ (i # 0 => orders[i].order_id = oid)
  BY <1>1, FindOrderProps
<1> HIDE DEF q, w, t
<1>7. w \in Nat /\ t \in Nat
  BY <1>2, <1>3, <1>4, <1>5
<1>8. CASE b.state = "None"
  <2>1. q = 0 /\ w = 0 /\ t = 0
    BY <1>1, <1>4, <1>8, UnseenUnreported DEF q
  <2>2. i # 0 => ExposureOf(orders[i], b.symbol) \in Nat
    BY <1>6, Remainders
  <2>3. i # 0 => t <= ExposureOf(orders[i], b.symbol)
    BY <2>1, <2>2
  <2> QED BY <1>3, <1>4, <1>6, <1>7, <2>1, <2>3 DEF q, w, t
<1>9. CASE b.state # "None"
  <2> DEFINE o == orders[i]
  <2>1. i # 0 /\ i \in 1..Len(orders) /\ o.symbol = b.symbol /\ o.order_id = oid
    <3>1. BuyOrder(book, orders, oid)
      BY DEF OnlyBuys
    <3>2. i # 0 /\ o.symbol = b.symbol
      BY <1>9, <3>1 DEF BuyOrder
    <3> QED BY <1>6, <3>2
  <2>2. /\ o.filled_qty + q = b.filled /\ o.original_qty = b.qty
        /\ ~IsOpen(o) => Unreported(inbound, oid)
    <3>1. SlotDue(book, inbound, outbound, Booked, o)
      BY <2>1 DEF NothingLingers, LingersIn
    <3> QED BY <1>9, <2>1, <3>1 DEF SlotDue, q
  <2>3. o.filled_qty \in Int /\ o.side = "Buy"
    BY <2>1, Remainders DEF OnlyBuys, BuySlots
  <2>4. b.state = "Live" => IsOpen(o)
    <3>1. oid[1] = "ORD"
      BY <2>1 DEF OrdersKnown
    <3> QED BY <3>1 DEF OrdersKnown, Covered, KnownSlot, OpenSlot
  <2>5. t <= ExposureOf(o, b.symbol)
    <3>1. CASE IsOpen(o)
      <4>1. ExposureOf(o, b.symbol) = b.qty - o.filled_qty
        BY <2>1, <2>2, <2>3, <3>1 DEF ExposureOf, SignedRemaining, RemainingQty, Signed
      <4> HIDE DEF o
      <4> QED BY <1>2, <1>3, <1>4, <1>5, <1>9, <2>2, <2>3, <4>1
    <3>2. CASE ~IsOpen(o)
      <4>1. q = 0 /\ w = 0
        BY <1>1, <1>4, <2>2, <2>4, <3>2, UnreportedFills DEF q
      <4>2. ExposureOf(o, b.symbol) = 0
        BY <3>2 DEF ExposureOf
      <4> QED BY <1>4, <4>1, <4>2
    <3> QED BY <3>1, <3>2
  <2> QED BY <1>3, <1>4, <1>6, <1>7, <2>1, <2>5 DEF q, w, t
<1> QED BY <1>8, <1>9

(* All that is outstanding of a symbol is in the exposure. *)
LEMMA ExposureCovers ==
  ASSUME IsFiniteSet(OrderIds), IndInv, OrdersKnown, NothingLingers, Reconciles, OnlyBuys, NEW sym
  PROVE  /\ SetSum(Owed, OrdersOf(book, sym)) \in Int
         /\ SetSum(Owed, OrdersOf(book, sym)) <= OpenExposure(orders, sym)
<1> DEFINE S == OrdersOf(book, sym)
           f == Owed
           slot == [oid \in OrderIds |-> FindOrder(orders, oid)]
           v == Exposures(orders, sym)
<1>1. orders \in Seq(Order) /\ IsFiniteSet(S) /\ S \subseteq OrderIds
  BY BookNumbers DEF IndInv, TypeOK
<1>2. v \in Seq(Int) /\ OpenExposure(orders, sym) = SumOf(v)
  BY <1>1, ExposureIsSum
<1>3. /\ Len(v) = Len(orders) /\ Len(orders) \in Nat
      /\ \A i \in 1..Len(orders) : v[i] = ExposureOf(orders[i], sym)
  BY <1>1 DEF Exposures
<1>4. \A i \in 1..Len(orders) : v[i] \in Nat
  BY <1>3, Remainders
<1> HIDE DEF v, f
<1>5. v \in Seq(Nat)
  BY <1>2, <1>3, <1>4
<1>6. ASSUME NEW oid \in S
      PROVE  /\ slot[oid] = FindOrder(orders, oid)
             /\ f[oid] \in Int /\ slot[oid] \in 0..Len(v)
             /\ slot[oid] = 0 => f[oid] = 0
             /\ slot[oid] # 0 => f[oid] <= v[slot[oid]] /\ orders[slot[oid]].order_id = oid
  <2> DEFINE i == FindOrder(orders, oid)
  <2>1. oid \in OrderIds /\ book[oid].symbol = sym
    BY DEF OrdersOf
  <2>2. slot[oid] = i
    BY <2>1
  <2>3. /\ f[oid] \in Nat /\ i \in 0..Len(orders) /\ (i = 0 => f[oid] = 0)
        /\ i # 0 => orders[i].order_id = oid /\ f[oid] <= ExposureOf(orders[i], sym)
    BY <2>1, SlotCovers DEF f
  <2> HIDE DEF i, slot, S
  <2>4. i # 0 => i \in 1..Len(orders)
    BY <1>3, <2>3
  <2>5. i # 0 => f[oid] <= v[i]
    BY <1>3, <2>3, <2>4
  <2> QED BY <1>3, <2>2, <2>3, <2>5 DEF i
<1> HIDE DEF slot, S
<1>7. WithinSlots(S, f, slot, v)
  BY <1>6 DEF WithinSlots
<1>8. SetSum(f, S) \in Int /\ SetSum(f, S) <= SumOf(v)
  BY <1>1, <1>5, <1>7, SetSumBySlots
<1> QED BY <1>2, <1>8 DEF f, S

(* What is held, and what of the live orders can trade, is what has been   *)
(* delivered and what is outstanding.                                      *)
LEMMA HeldAndExposed ==
  ASSUME IsFiniteSet(OrderIds), IndInv, OrdersKnown, NothingLingers, Reconciles, OnlyBuys, NEW sym
  PROVE  LET S == OrdersOf(book, sym)
         IN  /\ Held(sym) \in Nat /\ Exposed(sym, "Buy") \in Int /\ Exposed(sym, "Sell") = 0
             /\ SetSum(SharesOf(book, inbound), S) \in Int /\ SetSum(Owed, S) \in Int
             /\ Held(sym) + Exposed(sym, "Buy")
                  = SetSum(SharesOf(book, inbound), S) + SetSum(Owed, S)
<1> DEFINE S == OrdersOf(book, sym)
           A == LiveOf(sym, "Buy")
           f == SharesOf(book, inbound)
           g == Owed
           p == HeldOf
           l == LeavesLive
           h == [oid \in OrderIds |-> f[oid] + g[oid]]
<1>1. /\ IsFiniteSet(S) /\ S \subseteq OrderIds /\ IsFiniteSet(A) /\ A \subseteq S
      /\ inbound \in Seq(ExecutionReports) /\ book \in Books
  <2>1. IsFiniteSet(S) /\ S \subseteq OrderIds /\ IsFiniteSet(A)
    BY BookNumbers
  <2>2. A \subseteq S
    BY DEF LiveOf, OrdersOf
  <2> QED BY <2>1, <2>2, UntrackedReports
<1>2. Held(sym) = SetSum(p, S) /\ Exposed(sym, "Buy") = SetSum(LeavesAt, A)
  BY HeldSum, ExposedSum
<1>3. ASSUME NEW oid \in OrderIds
      PROVE  /\ f[oid] \in Int /\ g[oid] \in Int /\ h[oid] = f[oid] + g[oid]
             /\ p[oid] \in Nat /\ l[oid] \in Int /\ h[oid] = p[oid] + l[oid]
  <2> DEFINE b == book[oid]
             q == QueuedFills(inbound, oid)
  <2>1. /\ f[oid] \in Int /\ f[oid] = Signed(b.side, b.filled - q)
        /\ b.filled \in Nat /\ q \in Nat
    BY <1>1, SharesType
  <2>2. g[oid] = q + l[oid] /\ g[oid] \in Nat /\ l[oid] \in Nat
    BY SlotCovers
  <2>3. p[oid] = Signed(b.side, b.filled)
    BY BookNumbers
  <2>4. h[oid] = f[oid] + g[oid]
    OBVIOUS
  <2> HIDE DEF q, f, g, p, l, h
  <2>5. CASE b.state # "None"
    <3>1. BuyOrder(book, orders, oid)
      BY DEF OnlyBuys
    <3>2. b.side = "Buy"
      BY <2>5, <3>1 DEF BuyOrder
    <3>3. f[oid] = b.filled - q /\ p[oid] = b.filled
      BY <2>1, <2>3, <3>2 DEF Signed
    <3> HIDE DEF b
    <3> QED BY <2>1, <2>2, <2>4, <3>3
  <2>6. CASE b.state = "None"
    <3>1. b.filled = 0 /\ q = 0
      BY <1>1, <2>6, UnseenUnreported DEF Reconciles, UnseenUntraded, q
    <3>2. b.filled - q = 0
      BY <3>1
    <3>3. f[oid] = 0 /\ p[oid] = 0
      BY <2>1, <2>3, <3>1, <3>2, SignedZero
    <3> QED BY <2>2, <2>4, <3>1, <3>3
  <2> QED BY <2>5, <2>6
<1>4. \A oid \in A : l[oid] \in Int /\ l[oid] = LeavesAt[oid]
  <2>1. \A oid \in A : oid \in OrderIds /\ l[oid] = LeavesAt[oid]
    BY DEF LiveOf, LeavesLive, LeavesAt
  <2> QED BY <1>3, <2>1
<1>5. \A oid \in S \ A : l[oid] = 0
  <2> SUFFICES ASSUME NEW oid \in S \ A PROVE l[oid] = 0
    OBVIOUS
  <2>1. oid \in OrderIds /\ BuyOrder(book, orders, oid)
    BY DEF OnlyBuys, OrdersOf
  <2>2. book[oid].state # "Live"
    BY <2>1 DEF BuyOrder, LiveOf, OrdersOf
  <2> QED BY <2>1, <2>2 DEF LeavesLive
<1>6. Exposed(sym, "Sell") = 0
  <2>1. LiveOf(sym, "Sell") = {}
    BY DEF LiveOf, OnlyBuys, BuyOrder
  <2> QED BY <2>1, ExposedSum, SetSumEmpty
<1>7. \A oid \in S : /\ f[oid] \in Int /\ g[oid] \in Int /\ h[oid] = f[oid] + g[oid]
                     /\ p[oid] \in Nat /\ p[oid] \in Int /\ l[oid] \in Int
                     /\ h[oid] = p[oid] + l[oid]
  BY <1>1, <1>3
<1> HIDE DEF S, A, f, g, p, l, h
<1>8. SetSum(LeavesAt, A) = SetSum(l, A)
  BY <1>1, <1>4, SetSumSame
<1>9. SetSum(l, A) = SetSum(l, S)
  BY <1>1, <1>5, <1>7, SetSumWithin
<1>10. /\ SetSum(f, S) \in Int /\ SetSum(g, S) \in Int
       /\ SetSum(h, S) = SetSum(f, S) + SetSum(g, S)
  BY <1>1, <1>7, SetSumAdd
<1>11. /\ SetSum(p, S) \in Int /\ SetSum(l, S) \in Int
       /\ SetSum(h, S) = SetSum(p, S) + SetSum(l, S)
  BY <1>1, <1>7, SetSumAdd
<1>12. SetSum(p, S) \in Nat
  BY <1>1, <1>7, SetSumNatural
<1> QED BY <1>2, <1>6, <1>8, <1>9, <1>10, <1>11, <1>12 DEF S, f, g

(* RiskChecker.h, check(): for a strategy that only buys and that shares   *)
(* one thread with onMessage(), as long as the process lives and has a     *)
(* slot for every id and every symbol, in a session no logon resets, an    *)
(* order that passes the check never takes the account past                *)
(* max_net_position, whatever of its live orders the exchange trades and   *)
(* however late it reports them: what the check does not see yet in the    *)
(* position it still sees in the exposure.                                 *)
THEOREM GatewayWithinLimit ==
  ASSUME SameThread, StrategySides = {"Buy"}, ~ResetOnLogon, IsFiniteSet(OrderIds),
         IsFiniteSet(Symbols), Cardinality(Symbols) <= MaxSymbols
  PROVE  Spec /\ []SlotForAll => []WithinLimit
<1> DEFINE Inv == /\ IdsIssued /\ OrdersKnown /\ NothingLingers /\ Reconciles
                  /\ OrdOnly /\ OnlyBuys /\ LimitKept
<1>1. Init => Inv
  <2> SUFFICES ASSUME Init PROVE Inv
    OBVIOUS
  <2>1. IdsIssued /\ OrdersKnown /\ NothingLingers /\ Reconciles /\ OrdOnly
    BY InitLife, InitOrdersKnown, InitLingers, InitReconciles, InitOrdOnly
  <2>2. /\ spc = "idle" /\ ipc = "idle" /\ orders = << >> /\ outbound = << >> /\ positions = << >>
        /\ \A oid \in OrderIds : book[oid].state = "None"
    BY DEF Init, InitOrders, InitPositions
  <2>3. OnlyBuys
    BY <2>2 DEF OnlyBuys, BuySlots, BuyOrder
  <2>4. IndInv /\ OneSlotEach(positions)
    BY <2>1, InitIndInv DEF Reconciles
  <2>5. ASSUME NEW sym \in Symbols
        PROVE  ((Net(positions, sym) - HalfBooked(sym)) + OpenExposure(orders, sym)) + Asked(sym)
                 <= MaxNetPosition
    <3>1. HalfBooked(sym) = 0 /\ Asked(sym) = 0
      BY <2>2 DEF HalfBooked, Asked
    <3>2. positions \in Seq(Position) /\ \A i \in 1..Len(positions) : positions[i].symbol # sym
      BY <2>2, <2>4 DEF IndInv, TypeOK
    <3>3. Net(positions, sym) = 0
      BY <2>4, <3>2, NetOfSlot
    <3>4. OpenExposure(orders, sym) = 0
      <4> DEFINE v == Exposures(orders, sym)
      <4>1. orders \in Seq(Order)
        BY <2>4 DEF IndInv, TypeOK
      <4>2. v \in Seq(Int) /\ OpenExposure(orders, sym) = SumOf(v)
        BY <4>1, ExposureIsSum
      <4>3. \A i \in 1..Len(v) : v[i] = 0
        BY <2>2 DEF Exposures
      <4> HIDE DEF v
      <4> QED BY <4>2, <4>3, SumZero
    <3> QED BY <3>1, <3>3, <3>4, LimitsAssumption
  <2>6. LimitKept
    BY <2>2, <2>5 DEF LimitKept
  <2> QED BY <2>1, <2>3, <2>6
<1>2. IndInv /\ IndInv' /\ SlotForAll /\ SlotForAll' /\ Inv /\ [Next]_vars => Inv'
  <2> SUFFICES ASSUME IndInv, IndInv', SlotForAll, SlotForAll', Inv, [Next]_vars PROVE Inv'
    OBVIOUS
  <2>1. up /\ up' /\ OneLife /\ OneLife'
    BY DEF SlotForAll, OneLife
  <2>2. IdsIssued' /\ OrdersKnown' /\ NothingLingers' /\ OrdOnly'
    BY <2>1, NextIdsIssued, NextOrdersKnown, NothingLingersStep, NextOrdOnly
  <2>3. Reconciles'
    BY <2>1, NextReconciles
  <2>4. OnlyBuys' /\ LimitKept'
    BY NextOnlyBuys, NextLimitKept
  <2> QED BY <2>2, <2>3, <2>4
<1>3. IndInv /\ Inv => WithinLimit
  <2> SUFFICES ASSUME IndInv, Inv, NEW sym \in Symbols
               PROVE  /\ Held(sym) + Exposed(sym, "Buy") <= MaxNetPosition
                      /\ Held(sym) - Exposed(sym, "Sell") >= -MaxNetPosition
    BY DEF WithinLimit
  <2> DEFINE net == Net(positions, sym) - HalfBooked(sym)
             exp == OpenExposure(orders, sym)
             out == SetSum(Owed, OrdersOf(book, sym))
             held == Held(sym)
             buys == Exposed(sym, "Buy")
  <2>1. /\ held \in Nat /\ buys \in Int /\ Exposed(sym, "Sell") = 0
        /\ held + buys = net + out
    BY HeldAndExposed, NetDelivered
  <2>2. out \in Int /\ out <= exp
    BY ExposureCovers
  <2>3. net \in Int /\ exp \in Int /\ Asked(sym) \in Nat /\ MaxNetPosition \in Nat
    BY LimitNumbers DEF Reconciles
  <2>4. (net + exp) + Asked(sym) <= MaxNetPosition
    BY DEF LimitKept
  <2> HIDE DEF net, exp, out, held, buys
  <2>5. held + buys <= MaxNetPosition
    BY <2>1, <2>2, <2>3, <2>4
  <2>6. held - 0 >= -MaxNetPosition
    BY <2>1, <2>3
  <2> QED BY <2>1, <2>5, <2>6 DEF held, buys
<1> QED BY <1>1, <1>2, <1>3, GatewayInductive, PTL DEF Spec
=============================================================================
