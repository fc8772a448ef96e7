---------------------------- MODULE OrderLemmas ----------------------------
(***************************************************************************)
(* What find(), the handlers, open_exposure(), replay_from() and the       *)
(* translator return, for the proofs of the specifications the             *)
(* OrderManager and the MessageTranslator are part of.                     *)
(***************************************************************************)
EXTENDS OrderManager, MessageTranslator, SlotLemmas

(* find() returns the slot of the order, or nothing when it has none. *)
LEMMA FindOrderProps ==
  ASSUME NEW os \in Seq(Order), NEW oid
  PROVE  /\ FindOrder(os, oid) \in 0..Len(os)
         /\ FindOrder(os, oid) # 0 => os[FindOrder(os, oid)].order_id = oid
         /\ FindOrder(os, oid) = 0 => \A i \in 1..Len(os) : os[i].order_id # oid
<1> DEFINE I == { i \in 1..Len(os) : os[i].order_id = oid }
<1>1. FindOrder(os, oid) = IF I # {} THEN Min(I) ELSE 0
  BY DEF FindOrder, SelectInSeq
<1>2. CASE I = {}
  BY <1>1, <1>2
<1>3. CASE I # {}
  <2>1. I \subseteq Nat
    OBVIOUS
  <2>2. Min(I) \in I
    BY <1>3, <2>1, MinOfNaturals
  <2> QED BY <1>1, <1>3, <2>2
<1> QED BY <1>2, <1>3

-----------------------------------------------------------------------------
(* A report of a type outside the switch is no event. *)
LEMMA TranslatedNone ==
  ASSUME NEW r, r.exec_type \notin {"PartialFill", "Fill", "Canceled", "Rejected"}
  PROVE  FromExecutionReport(r) = {}
BY DEF FromExecutionReport, EventTypeOf

(* A report of the other types is at least one event, and every event it   *)
(* may become names the order of the report.                               *)
LEMMA TranslatedEvents ==
  ASSUME NEW r, r.exec_type \in {"PartialFill", "Fill", "Canceled", "Rejected"}
  PROVE  /\ FromExecutionReport(r) # {}
         /\ \A e \in FromExecutionReport(r) :
              LET fills == IsFill(e) /\ r.has_last
              IN  /\ e.type = EventTypeOf[r.exec_type]
                  /\ e.order_id = r.cl_ord_id /\ e.symbol = r.symbol /\ e.side = r.side
                  /\ e.qty = 0 /\ e.price = 0 /\ e.sequence = 0
                  /\ e.fill_qty = IF fills THEN r.last_shares ELSE 0
                  /\ e.fill_price \in IF fills THEN ToFixed(r.last_px) ELSE {0}
                  /\ e = [ type       |-> e.type,
                           side       |-> e.side,
                           symbol     |-> e.symbol,
                           order_id   |-> e.order_id,
                           qty        |-> 0,
                           price      |-> 0,
                           fill_qty   |-> e.fill_qty,
                           fill_price |-> e.fill_price,
                           sequence   |-> 0 ]
<1> DEFINE type  == EventTypeOf[r.exec_type]
           fills == type \in {"PartialFill", "FullFill"} /\ r.has_last
           qty   == IF fills THEN r.last_shares ELSE 0
           pxs   == IF fills THEN ToFixed(r.last_px) ELSE {0}
           E(px) == [ type |-> type, side |-> r.side, symbol |-> r.symbol,
                      order_id |-> r.cl_ord_id, qty |-> 0, price |-> 0,
                      fill_qty |-> qty, fill_price |-> px, sequence |-> 0 ]
<1>1. FromExecutionReport(r) = { E(px) : px \in pxs }
  BY DEF FromExecutionReport, EventTypeOf
<1>2. pxs # {}
  BY DEF ToFixed
<1> HIDE DEF type, pxs, qty
<1>3. FromExecutionReport(r) # {}
  BY <1>1, <1>2
<1>4. ASSUME NEW px \in pxs
      PROVE  LET e == E(px)
             IN  /\ e.type = type
                 /\ e.order_id = r.cl_ord_id /\ e.symbol = r.symbol /\ e.side = r.side
                 /\ e.qty = 0 /\ e.price = 0 /\ e.sequence = 0
                 /\ e.fill_qty = qty /\ e.fill_price = px
  OBVIOUS
<1> HIDE DEF E
<1> SUFFICES ASSUME NEW px \in pxs
             PROVE  LET e == E(px)
                        f == IsFill(e) /\ r.has_last
                    IN  /\ e.type = EventTypeOf[r.exec_type]
                        /\ e.order_id = r.cl_ord_id /\ e.symbol = r.symbol /\ e.side = r.side
                        /\ e.qty = 0 /\ e.price = 0 /\ e.sequence = 0
                        /\ e.fill_qty = IF f THEN r.last_shares ELSE 0
                        /\ e.fill_price \in IF f THEN ToFixed(r.last_px) ELSE {0}
                        /\ e = [ type       |-> e.type,
                                 side       |-> e.side,
                                 symbol     |-> e.symbol,
                                 order_id   |-> e.order_id,
                                 qty        |-> 0,
                                 price      |-> 0,
                                 fill_qty   |-> e.fill_qty,
                                 fill_price |-> e.fill_price,
                                 sequence   |-> 0 ]
  BY <1>1, <1>3
<1>5. (IsFill(E(px)) /\ r.has_last) = fills
  BY <1>4 DEF IsFill
<1>6. E(px) = [ type |-> type, side |-> r.side, symbol |-> r.symbol,
                order_id |-> r.cl_ord_id, qty |-> 0, price |-> 0,
                fill_qty |-> qty, fill_price |-> px, sequence |-> 0 ]
  BY DEF E
<1> QED BY <1>4, <1>5, <1>6 DEF type, qty, pxs

(* The type of the event that a report becomes. *)
LEMMA EventTypeValues ==
  /\ EventTypeOf["PartialFill"] = "PartialFill"
  /\ EventTypeOf["Fill"] = "FullFill"
  /\ EventTypeOf["Canceled"] = "Cancel"
  /\ EventTypeOf["Rejected"] = "Reject"
BY DEF EventTypeOf
-----------------------------------------------------------------------------
(* What the slots contribute to the exposure of a symbol. *)
ExposureOf(o, sym) == IF IsOpen(o) /\ o.symbol = sym THEN SignedRemaining(o) ELSE 0

Exposures(os, sym) == [i \in 1..Len(os) |-> ExposureOf(os[i], sym)]

(* open_exposure() is the sum of what the slots contribute. *)
LEMMA ExposureIsSum ==
  ASSUME NEW os \in Seq(Order), NEW sym
  PROVE  /\ Exposures(os, sym) \in Seq(Int)
         /\ OpenExposure(os, sym) = SumOf(Exposures(os, sym))
         /\ OpenExposure(os, sym) \in Int
<1> DEFINE n == Len(os)
           v == Exposures(os, sym)
           counts(i) == IsOpen(os[i]) /\ os[i].symbol = sym
           Body(g, s) == IF s = {} THEN 0
                         ELSE IF counts(Max(s)) THEN g[s \ {Max(s)}] + SignedRemaining(os[Max(s)])
                         ELSE g[s \ {Max(s)}]
           It == CHOOSE g : g = [s \in SUBSET (DOMAIN os) |-> Body(g, s)]
<1>1. n \in Nat /\ DOMAIN os = 1..n
  OBVIOUS
<1>2. OpenExposure(os, sym) = It[DOMAIN os]
  BY DEF OpenExposure, FoldLeft, MapThenFoldSet
<1>3. ASSUME NEW i \in 1..n PROVE SignedRemaining(os[i]) \in Int
  <2>1. os[i].original_qty \in Int /\ os[i].filled_qty \in Int
    <3>1. os[i] \in Order
      OBVIOUS
    <3> QED BY <3>1 DEF Order
  <2> QED BY <2>1 DEF SignedRemaining, Signed, RemainingQty
<1>4. /\ v \in [1..n -> Int] /\ v \in Seq(Int)
      /\ \A i \in 1..n : v[i] = IF counts(i) THEN SignedRemaining(os[i]) ELSE 0
  BY <1>3 DEF Exposures, ExposureOf
<1> HIDE DEF v
<1>5. PICK h \in [SUBSET (1..n) -> Int] :
        \A s \in SUBSET (1..n) : h[s] = IF s = {} THEN 0 ELSE h[s \ {Max(s)}] + v[Max(s)]
  <2> HIDE DEF n
  <2> QED BY <1>1, <1>4, SumFoldExists
<1>6. ASSUME NEW s \in SUBSET (1..n), s # {}, NEW g, g[s \ {Max(s)}] \in Int
      PROVE  Body(g, s) = g[s \ {Max(s)}] + v[Max(s)]
  <2>1. Max(s) \in 1..n
    BY <1>1, <1>6, MaxOfPositions
  <2> DEFINE a == g[s \ {Max(s)}]
  <2>2. a \in Int /\ a + 0 = a
    BY <1>6
  <2> HIDE DEF a
  <2>3. v[Max(s)] = IF counts(Max(s)) THEN SignedRemaining(os[Max(s)]) ELSE 0
    BY <1>4, <2>1
  <2>4. Body(g, s) = IF counts(Max(s)) THEN a + SignedRemaining(os[Max(s)]) ELSE a
    BY <1>6 DEF a
  <2>5. Body(g, s) = a + v[Max(s)]
    BY <2>2, <2>3, <2>4
  <2> QED BY <2>5 DEF a
<1>7. h = [s \in SUBSET (DOMAIN os) |-> Body(h, s)]
  <2> SUFFICES ASSUME NEW s \in SUBSET (1..n) PROVE h[s] = Body(h, s)
    BY <1>1
  <2>1. CASE s = {}
    BY <1>5, <2>1
  <2>2. CASE s # {}
    <3>1. s \ {Max(s)} \in SUBSET (1..n)
      OBVIOUS
    <3>2. h[s \ {Max(s)}] \in Int
      BY <1>5, <3>1
    <3>3. h[s] = h[s \ {Max(s)}] + v[Max(s)]
      BY <1>5, <2>2
    <3> HIDE DEF Body
    <3> QED BY <1>6, <2>2, <3>2, <3>3
  <2> QED BY <2>1, <2>2
<1>8. It = [s \in SUBSET (DOMAIN os) |-> Body(It, s)]
  BY <1>7
<1> HIDE DEF It
<1>9. It[{}] = 0 /\ \A s \in SUBSET (1..n) : s # {} => It[s] = Body(It, s)
  <2>1. {} \in SUBSET (DOMAIN os)
    OBVIOUS
  <2> QED BY <1>1, <1>8, <2>1
<1> HIDE DEF Body
<1>10. \A s \in SUBSET (1..n) : s # {} /\ It[s \ {Max(s)}] \in Int
                                  => It[s] = It[s \ {Max(s)}] + v[Max(s)]
  BY <1>6, <1>9
<1>11. It[1..n] = SumOf(v) /\ It[1..n] \in Int
  <2> HIDE DEF n
  <2> QED BY <1>1, <1>4, <1>9, <1>10, FoldIsSum
<1> QED BY <1>1, <1>2, <1>4, <1>11 DEF v
-----------------------------------------------------------------------------
(* The slots as apply_event() keeps them. *)
OrderTable == { os \in Seq(Order) : Len(os) <= MaxOrders }

(* What handle_new() writes, field by field. *)
LEMMA NewOrderFields ==
  ASSUME NEW e \in Events
  PROVE  /\ NewOrder(e) \in Order
         /\ NewOrder(e).order_id = e.order_id /\ NewOrder(e).symbol = e.symbol
         /\ NewOrder(e).side = e.side /\ NewOrder(e).original_qty = e.qty
         /\ NewOrder(e).filled_qty = 0 /\ NewOrder(e).state = "Pending"
BY DEF NewOrder, Events, Order, OrderStates

(* What the other handlers write, as far as exposure and liveness go. *)
LEMMA HandleKnownFields ==
  ASSUME NEW o \in Order, NEW e \in Events, e.type # "NewOrder"
  PROVE  LET h == HandleKnown(o, e)
         IN  /\ h \in Order
             /\ h.order_id = o.order_id /\ h.symbol = o.symbol /\ h.side = o.side
             /\ h.filled_qty = IF IsFill(e) THEN o.filled_qty + e.fill_qty ELSE o.filled_qty
             /\ h.original_qty = IF e.type = "Amend" /\ e.qty > 0 THEN e.qty ELSE o.original_qty
             /\ h.state = CASE IsFill(e) -> IF o.original_qty - (o.filled_qty + e.fill_qty) <= 0
                                            THEN "Filled" ELSE "PartiallyFilled"
                            [] e.type = "Cancel" -> "Cancelled"
                            [] e.type = "Reject" -> "Rejected"
                            [] e.type = "Amend"  -> o.state
<1>1. /\ e.fill_qty \in Int /\ e.fill_price \in Int /\ e.sequence \in Nat /\ e.qty \in Int
      /\ e.price \in Int
      /\ e.type \in {"PartialFill", "FullFill", "Cancel", "Reject", "Amend"}
  BY DEF Events, EventTypes
<1>2. o.filled_qty \in Int /\ o.original_qty \in Int /\ o.avg_fill_price \in Int
  BY DEF Order
<1>3. CASE IsFill(e)
  <2> DEFINE filled == o.filled_qty + e.fill_qty
             cost   == o.avg_fill_price * o.filled_qty + e.fill_price * e.fill_qty
             avg    == IF filled > 0 THEN CDiv(cost, filled) ELSE 0
             st     == IF o.original_qty - filled <= 0 THEN "Filled" ELSE "PartiallyFilled"
  <2>1. filled \in Int /\ cost \in Int
    BY <1>1, <1>2
  <2>2. HandleKnown(o, e) = [ o EXCEPT !.avg_fill_price = avg, !.filled_qty = filled,
                                       !.last_seq = e.sequence, !.state = st ]
    <3>1. HandleKnown(o, e) = HandleFill(o, e)
      BY <1>3 DEF HandleKnown, IsFill
    <3> QED BY <3>1, Zenon DEF HandleFill
  <2>3. st \in OrderStates
    BY DEF OrderStates
  <2> HIDE DEF filled, cost
  <2>4. avg \in Int
    <3>1. CASE filled > 0
      <4>1. filled \in Nat \ {0}
        BY <2>1, <3>1
      <4>2. CDiv(cost, filled) \in Int
        <5>1. CASE cost >= 0
          <6>1. cost \div filled \in Nat
            BY <2>1, <4>1, <5>1, DivBound
          <6> QED BY <5>1, <6>1 DEF CDiv
        <5>2. CASE ~(cost >= 0)
          <6>1. -cost \in Nat
            BY <2>1, <5>2
          <6>2. (-cost) \div filled \in Nat
            BY <4>1, <6>1, DivBound
          <6> QED BY <5>2, <6>2 DEF CDiv
        <5> QED BY <5>1, <5>2
      <4> QED BY <3>1, <4>2
    <3>2. CASE ~(filled > 0)
      BY <3>2
    <3> QED BY <3>1, <3>2
  <2>5. st = IF o.original_qty - (o.filled_qty + e.fill_qty) <= 0
             THEN "Filled" ELSE "PartiallyFilled"
    BY DEF filled
  <2>6. filled = o.filled_qty + e.fill_qty
    BY DEF filled
  <2> HIDE DEF avg, st
  <2>7. /\ HandleKnown(o, e) \in Order
        /\ HandleKnown(o, e).order_id = o.order_id /\ HandleKnown(o, e).symbol = o.symbol
        /\ HandleKnown(o, e).side = o.side /\ HandleKnown(o, e).filled_qty = filled
        /\ HandleKnown(o, e).original_qty = o.original_qty /\ HandleKnown(o, e).state = st
    BY <1>1, <2>1, <2>2, <2>3, <2>4 DEF Order
  <2>8. e.type # "Amend" /\ e.type # "Cancel" /\ e.type # "Reject"
    BY <1>3 DEF IsFill
  <2> QED BY <1>3, <2>5, <2>6, <2>7, <2>8
<1>4. CASE e.type = "Cancel"
  <2>1. HandleKnown(o, e) = [o EXCEPT !.state = "Cancelled", !.last_seq = e.sequence] /\ ~IsFill(e)
    BY <1>4 DEF HandleKnown, HandleCancel, IsFill
  <2> QED BY <1>1, <1>4, <2>1 DEF Order, OrderStates
<1>5. CASE e.type = "Reject"
  <2>1. HandleKnown(o, e) = [o EXCEPT !.state = "Rejected", !.last_seq = e.sequence] /\ ~IsFill(e)
    BY <1>5 DEF HandleKnown, HandleReject, IsFill
  <2> QED BY <1>1, <1>5, <2>1 DEF Order, OrderStates
<1>6. CASE e.type = "Amend"
  <2>1. /\ ~IsFill(e)
        /\ HandleKnown(o, e) = [ o EXCEPT !.original_qty = IF e.qty   > 0 THEN e.qty   ELSE @,
                                          !.limit_price  = IF e.price > 0 THEN e.price ELSE @,
                                          !.last_seq     = e.sequence ]
    BY <1>6 DEF HandleKnown, HandleAmend, IsFill
  <2> QED BY <1>1, <1>2, <1>6, <2>1 DEF Order
<1> QED BY <1>1, <1>3, <1>4, <1>5, <1>6 DEF IsFill

(* apply_event() keeps the table within its capacity. *)
LEMMA BookOrderType ==
  ASSUME NEW os \in OrderTable, NEW e \in Events
  PROVE  BookOrder(os, e) \in OrderTable
<1> DEFINE i == FindOrder(os, e.order_id)
<1>1. os \in Seq(Order) /\ Len(os) <= MaxOrders /\ Len(os) \in Nat /\ MaxOrders \in Nat
  BY MaxOrdersAssumption DEF OrderTable
<1>2. i \in 0..Len(os)
  BY <1>1, FindOrderProps
<1>3. BookOrder(os, e) =
        IF e.type = "NewOrder"
        THEN IF i # 0 THEN [os EXCEPT ![i] = NewOrder(e)]
             ELSE IF Len(os) >= MaxOrders THEN os ELSE Append(os, NewOrder(e))
        ELSE IF i = 0 THEN os ELSE [os EXCEPT ![i] = HandleKnown(os[i], e)]
  BY DEF BookOrder, HandleNew
<1> HIDE DEF i
<1>4. NewOrder(e) \in Order
  BY NewOrderFields
<1>5. ASSUME i # 0, NEW h \in Order PROVE [os EXCEPT ![i] = h] \in OrderTable
  <2>1. i \in 1..Len(os)
    BY <1>1, <1>2, <1>5
  <2> QED BY <1>1, <2>1 DEF OrderTable
<1>6. ASSUME ~(Len(os) >= MaxOrders) PROVE Append(os, NewOrder(e)) \in OrderTable
  BY <1>1, <1>4, <1>6 DEF OrderTable
<1>7. ASSUME i # 0, e.type # "NewOrder" PROVE HandleKnown(os[i], e) \in Order
  <2>1. os[i] \in Order
    BY <1>1, <1>2, <1>7
  <2> QED BY <1>7, <2>1, HandleKnownFields
<1> QED BY <1>3, <1>4, <1>5, <1>6, <1>7, Zenon

-----------------------------------------------------------------------------
(* replay_from() goes through one table per prefix of the log. *)
OrderSteps(log) == [p \in (1..Len(log)) \X OrderTable |-> BookOrder(p[2], log[p[1]])]

(* What replay_from() returns is the last of these tables. *)
LEMMA ReplayOrdersFold ==
  ASSUME NEW log \in Seq(Events)
  PROVE  \E F : /\ IsFold(F, Len(log), OrderTable, << >>, OrderSteps(log))
                /\ ReplayOrders(log) = F[Len(log)]
<1> DEFINE n == Len(log)
           A == OrderTable
           step == OrderSteps(log)
           It == CHOOSE g : g = [s \in SUBSET (DOMAIN log) |->
                   IF s = {} THEN << >> ELSE BookOrder(g[s \ {Max(s)}], log[Max(s)])]
<1>1. n \in Nat /\ DOMAIN log = 1..n /\ << >> \in A
  BY MaxOrdersAssumption DEF OrderTable
<1>2. ReplayOrders(log) = It[DOMAIN log]
  BY DEF ReplayOrders, FoldLeft, MapThenFoldSet
<1>3. ASSUME NEW k \in 1..n, NEW a \in A
      PROVE  step[<<k, a>>] = BookOrder(a, log[k]) /\ BookOrder(a, log[k]) \in A
  <2>1. log[k] \in Events
    OBVIOUS
  <2> QED BY <2>1, BookOrderType DEF OrderSteps
<1>4. step \in [(1..n) \X A -> A]
  <2> SUFFICES ASSUME NEW p \in (1..n) \X A PROVE BookOrder(p[2], log[p[1]]) \in A
    BY DEF OrderSteps
  <2> QED BY <1>3
<1> HIDE DEF step, A, n
<1>5. PICK h \in [SUBSET (1..n) -> A] : FoldsBy(h, n, << >>, step)
  BY <1>1, <1>4, FoldExists
<1>6. h = [s \in SUBSET (DOMAIN log) |->
             IF s = {} THEN << >> ELSE BookOrder(h[s \ {Max(s)}], log[Max(s)])]
  <2> SUFFICES ASSUME NEW s \in SUBSET (1..n)
               PROVE  h[s] = IF s = {} THEN << >>
                             ELSE BookOrder(h[s \ {Max(s)}], log[Max(s)])
    BY <1>1
  <2>1. CASE s = {}
    BY <1>5, <2>1 DEF FoldsBy
  <2>2. CASE s # {}
    <3>1. Max(s) \in 1..n
      BY <1>1, <2>2, MaxOfPositions
    <3>2. h[s \ {Max(s)}] \in A
      BY <1>5
    <3>3. h[s] = step[<<Max(s), h[s \ {Max(s)}]>>]
      BY <1>5, <2>2 DEF FoldsBy
    <3> QED BY <1>3, <2>2, <3>1, <3>2, <3>3
  <2> QED BY <2>1, <2>2
<1>7. It = [s \in SUBSET (DOMAIN log) |->
             IF s = {} THEN << >> ELSE BookOrder(It[s \ {Max(s)}], log[Max(s)])]
  BY <1>6
<1> HIDE DEF It
<1>8. FoldsWithin(It, n, A, << >>, step)
  <2>1. It[{}] = << >>
    <3>1. {} \in SUBSET (DOMAIN log)
      OBVIOUS
    <3> QED BY <1>7, <3>1
  <2>2. ASSUME NEW s \in SUBSET (1..n), s # {}, It[s \ {Max(s)}] \in A
        PROVE  It[s] = step[<<Max(s), It[s \ {Max(s)}]>>]
    <3>1. Max(s) \in 1..n
      BY <1>1, <2>2, MaxOfPositions
    <3>2. It[s] = BookOrder(It[s \ {Max(s)}], log[Max(s)])
      BY <1>1, <1>7, <2>2
    <3> QED BY <1>3, <2>2, <3>1, <3>2
  <2> QED BY <2>1, <2>2 DEF FoldsWithin
<1>9. PICK F : IsFold(F, n, A, << >>, step) /\ F[n] = It[1..n]
  <2>1. ReachedByFold(It[1..n], n, A, << >>, step)
    BY <1>1, <1>4, <1>8, PrefixesAreFold
  <2> QED BY <2>1 DEF ReachedByFold
<1>10. ReplayOrders(log) = F[n]
  BY <1>1, <1>2, <1>9
<1> QED BY <1>9, <1>10 DEF n, A, step

(* replay_from() fills no more slots than there are. *)
LEMMA ReplayOrdersType ==
  ASSUME NEW log \in Seq(Events)
  PROVE  ReplayOrders(log) \in OrderTable
<1>1. PICK F : /\ IsFold(F, Len(log), OrderTable, << >>, OrderSteps(log))
               /\ ReplayOrders(log) = F[Len(log)]
  BY ReplayOrdersFold
<1>2. Len(log) \in 0..Len(log)
  OBVIOUS
<1> QED BY <1>1, <1>2 DEF IsFold

(* One more event in the log is one more apply_event(). *)
LEMMA ReplayOrdersAppend ==
  ASSUME NEW log \in Seq(Events), NEW e \in Events
  PROVE  ReplayOrders(Append(log, e)) = BookOrder(ReplayOrders(log), e)
<1> DEFINE n == Len(log)
           lg == Append(log, e)
           m == Len(lg)
<1>1. n \in Nat /\ m = n + 1 /\ lg \in Seq(Events) /\ lg[m] = e /\ \A k \in 1..n : lg[k] = log[k]
  OBVIOUS
<1>2. PICK F : IsFold(F, n, OrderTable, << >>, OrderSteps(log)) /\ ReplayOrders(log) = F[n]
  BY ReplayOrdersFold
<1>3. PICK G : IsFold(G, m, OrderTable, << >>, OrderSteps(lg)) /\ ReplayOrders(lg) = G[m]
  <2> HIDE DEF lg
  <2> QED BY <1>1, ReplayOrdersFold
<1> HIDE DEF lg, m, n
<1>4. SameSteps(n, OrderTable, OrderSteps(log), OrderSteps(lg))
  BY <1>1 DEF SameSteps, OrderSteps, n, m
<1>5. F[n] = G[n]
  <2>1. n \in Nat /\ m \in Nat /\ n <= m
    BY <1>1
  <2> QED BY <1>2, <1>3, <1>4, <2>1, FoldsAgree
<1>6. m \in 1..m /\ m - 1 = n /\ n \in 0..m
  BY <1>1
<1>7. G[m] = OrderSteps(lg)[<<m, G[n]>>] /\ G[n] \in OrderTable
  BY <1>3, <1>6 DEF IsFold
<1>8. OrderSteps(lg)[<<m, G[n]>>] = BookOrder(G[n], e)
  BY <1>1, <1>6, <1>7 DEF OrderSteps, m
<1> QED BY <1>2, <1>3, <1>5, <1>7, <1>8 DEF lg
-----------------------------------------------------------------------------
(* The table without the sequence numbers of its last events. *)
ShownOrder(o) == [o EXCEPT !.opened_seq = 0, !.last_seq = 0]

ShownOrders(os) == [i \in 1..Len(os) |-> ShownOrder(os[i])]

(* find() looks at the ids alone. *)
LEMMA FindByIds ==
  ASSUME NEW as, NEW bs, NEW oid,
         { i \in 1..Len(as) : as[i].order_id = oid } = { i \in 1..Len(bs) : bs[i].order_id = oid }
  PROVE  FindOrder(as, oid) = FindOrder(bs, oid)
BY Zenon DEF FindOrder, SelectInSeq

(* The sequence numbers are written and never read: the handlers do to the *)
(* shown order what they do to the order.                                  *)
LEMMA ShownHandle ==
  ASSUME NEW o \in Order, NEW e \in Events, e.type # "NewOrder"
  PROVE  ShownOrder(HandleKnown(o, e)) = HandleKnown(ShownOrder(o), [e EXCEPT !.sequence = 0])
<1> DEFINE f == [e EXCEPT !.sequence = 0]
           s == ShownOrder(o)
<1>1. /\ f.type = e.type /\ f.qty = e.qty /\ f.price = e.price /\ f.fill_qty = e.fill_qty
      /\ f.fill_price = e.fill_price /\ f.sequence = 0
  BY DEF Events
<1>2. /\ s.original_qty = o.original_qty /\ s.filled_qty = o.filled_qty
      /\ s.avg_fill_price = o.avg_fill_price /\ s.limit_price = o.limit_price
      /\ s = [o EXCEPT !.opened_seq = 0, !.last_seq = 0]
  BY DEF ShownOrder, Order
<1>3. e.type \in {"PartialFill", "FullFill", "Cancel", "Reject", "Amend"}
  BY DEF Events, EventTypes
<1> HIDE DEF f, s
<1>4. CASE IsFill(e)
  <2> DEFINE filled == o.filled_qty + e.fill_qty
             cost   == o.avg_fill_price * o.filled_qty + e.fill_price * e.fill_qty
             avg    == IF filled > 0 THEN CDiv(cost, filled) ELSE 0
             st     == IF o.original_qty - filled <= 0 THEN "Filled" ELSE "PartiallyFilled"
  <2>1. HandleKnown(o, e) = [ o EXCEPT !.avg_fill_price = avg, !.filled_qty = filled,
                                       !.last_seq = e.sequence, !.state = st ]
    <3>1. HandleKnown(o, e) = HandleFill(o, e)
      BY <1>4 DEF HandleKnown, IsFill
    <3> QED BY <3>1, Zenon DEF HandleFill
  <2>2. HandleKnown(s, f) = [ s EXCEPT !.avg_fill_price = avg, !.filled_qty = filled,
                                       !.last_seq = 0, !.state = st ]
    <3>1. HandleKnown(s, f) = HandleFill(s, f)
      BY <1>1, <1>4 DEF HandleKnown, IsFill
    <3> QED BY <1>1, <1>2, <3>1, Zenon DEF HandleFill
  <2> HIDE DEF avg, filled, st
  <2> QED BY <1>2, <2>1, <2>2 DEF ShownOrder, Order, f, s
<1>5. CASE e.type = "Cancel"
  <2>1. /\ HandleKnown(o, e) = [o EXCEPT !.state = "Cancelled", !.last_seq = e.sequence]
        /\ HandleKnown(s, f) = [s EXCEPT !.state = "Cancelled", !.last_seq = 0]
    BY <1>1, <1>5 DEF HandleKnown, HandleCancel, IsFill
  <2> QED BY <1>2, <2>1 DEF ShownOrder, Order, f, s
<1>6. CASE e.type = "Reject"
  <2>1. /\ HandleKnown(o, e) = [o EXCEPT !.state = "Rejected", !.last_seq = e.sequence]
        /\ HandleKnown(s, f) = [s EXCEPT !.state = "Rejected", !.last_seq = 0]
    BY <1>1, <1>6 DEF HandleKnown, HandleReject, IsFill
  <2> QED BY <1>2, <2>1 DEF ShownOrder, Order, f, s
<1>7. CASE e.type = "Amend"
  <2> DEFINE q == IF e.qty > 0 THEN e.qty ELSE o.original_qty
             p == IF e.price > 0 THEN e.price ELSE o.limit_price
  <2>1. /\ HandleKnown(o, e) = [o EXCEPT !.original_qty = q, !.limit_price = p,
                                         !.last_seq = e.sequence]
        /\ HandleKnown(s, f) = [s EXCEPT !.original_qty = q, !.limit_price = p, !.last_seq = 0]
    BY <1>1, <1>2, <1>7 DEF HandleKnown, HandleAmend, IsFill
  <2> HIDE DEF q, p
  <2> QED BY <1>2, <2>1 DEF ShownOrder, Order, f, s
<1> QED BY <1>3, <1>4, <1>5, <1>6, <1>7 DEF IsFill

(* And apply_event() to the shown table what it does to the table. *)
LEMMA ShownBookOrder ==
  ASSUME NEW os \in OrderTable, NEW e \in Events
  PROVE  ShownOrders(BookOrder(os, e)) = BookOrder(ShownOrders(os), [e EXCEPT !.sequence = 0])
<1> DEFINE f == [e EXCEPT !.sequence = 0]
           ss == ShownOrders(os)
           i == FindOrder(os, e.order_id)
<1>1. os \in Seq(Order) /\ Len(os) \in Nat
  BY DEF OrderTable
<1>2. f.type = e.type /\ f.order_id = e.order_id
  BY DEF Events
<1>3. /\ ss = [k \in 1..Len(os) |-> ShownOrder(os[k])] /\ Len(ss) = Len(os)
      /\ \A k \in 1..Len(os) : ss[k].order_id = os[k].order_id
  <2>1. \A k \in 1..Len(os) : os[k] \in Order
    BY <1>1
  <2>2. \A o \in Order : ShownOrder(o).order_id = o.order_id
    BY DEF ShownOrder, Order
  <2>3. ss = [k \in 1..Len(os) |-> ShownOrder(os[k])]
    BY DEF ShownOrders
  <2> HIDE DEF ss
  <2> QED BY <1>1, <2>1, <2>2, <2>3
<1>4. FindOrder(ss, f.order_id) = i
  <2>1. { k \in 1..Len(ss) : ss[k].order_id = e.order_id }
          = { k \in 1..Len(os) : os[k].order_id = e.order_id }
    BY <1>3
  <2> HIDE DEF ss
  <2> QED BY <1>2, <2>1, FindByIds
<1>5. i \in 0..Len(os)
  BY <1>1, FindOrderProps
<1>6. ShownOrder(NewOrder(e)) = NewOrder(f)
  <2>1. /\ f.order_id = e.order_id /\ f.symbol = e.symbol /\ f.side = e.side
        /\ f.price = e.price /\ f.qty = e.qty /\ f.sequence = 0
    BY DEF Events
  <2> HIDE DEF f
  <2> DEFINE a == e.order_id  b == e.symbol  c == e.side  d == e.price  q == e.qty  t == e.sequence
  <2>2. NewOrder(f) =
          [ order_id |-> a, symbol |-> b, side |-> c, limit_price |-> d, avg_fill_price |-> 0,
            original_qty |-> q, filled_qty |-> 0, state |-> "Pending",
            opened_seq |-> 0, last_seq |-> 0 ]
    BY <2>1 DEF NewOrder
  <2>3. NewOrder(e) =
          [ order_id |-> a, symbol |-> b, side |-> c, limit_price |-> d, avg_fill_price |-> 0,
            original_qty |-> q, filled_qty |-> 0, state |-> "Pending",
            opened_seq |-> t, last_seq |-> t ]
    BY DEF NewOrder
  <2> HIDE DEF a, b, c, d, q, t
  <2> DEFINE r == [ order_id |-> a, symbol |-> b, side |-> c, limit_price |-> d,
                    avg_fill_price |-> 0, original_qty |-> q, filled_qty |-> 0,
                    state |-> "Pending", opened_seq |-> t, last_seq |-> t ]
  <2>4. [r EXCEPT !.opened_seq = 0] =
          [ order_id |-> a, symbol |-> b, side |-> c, limit_price |-> d, avg_fill_price |-> 0,
            original_qty |-> q, filled_qty |-> 0, state |-> "Pending",
            opened_seq |-> 0, last_seq |-> t ]
    OBVIOUS
  <2> DEFINE r2 == [ order_id |-> a, symbol |-> b, side |-> c, limit_price |-> d,
                     avg_fill_price |-> 0, original_qty |-> q, filled_qty |-> 0,
                     state |-> "Pending", opened_seq |-> 0, last_seq |-> t ]
  <2>5. [r2 EXCEPT !.last_seq = 0] =
          [ order_id |-> a, symbol |-> b, side |-> c, limit_price |-> d, avg_fill_price |-> 0,
            original_qty |-> q, filled_qty |-> 0, state |-> "Pending",
            opened_seq |-> 0, last_seq |-> 0 ]
    OBVIOUS
  <2>6. [r EXCEPT !.opened_seq = 0, !.last_seq = 0] = [r2 EXCEPT !.last_seq = 0]
    BY <2>4
  <2> QED BY <2>2, <2>3, <2>5, <2>6 DEF ShownOrder
<1>7. BookOrder(os, e) =
        IF e.type = "NewOrder"
        THEN IF i # 0 THEN [os EXCEPT ![i] = NewOrder(e)]
             ELSE IF Len(os) >= MaxOrders THEN os ELSE Append(os, NewOrder(e))
        ELSE IF i = 0 THEN os ELSE [os EXCEPT ![i] = HandleKnown(os[i], e)]
  BY DEF BookOrder, HandleNew
<1>8. BookOrder(ss, f) =
        IF e.type = "NewOrder"
        THEN IF i # 0 THEN [ss EXCEPT ![i] = NewOrder(f)]
             ELSE IF Len(os) >= MaxOrders THEN ss ELSE Append(ss, NewOrder(f))
        ELSE IF i = 0 THEN ss ELSE [ss EXCEPT ![i] = HandleKnown(ss[i], f)]
  <2> HIDE DEF ss, f, i
  <2>1. BookOrder(ss, f) =
          IF f.type = "NewOrder"
          THEN IF FindOrder(ss, f.order_id) # 0
               THEN [ss EXCEPT ![FindOrder(ss, f.order_id)] = NewOrder(f)]
               ELSE IF Len(ss) >= MaxOrders THEN ss ELSE Append(ss, NewOrder(f))
          ELSE IF FindOrder(ss, f.order_id) = 0 THEN ss
               ELSE [ss EXCEPT ![FindOrder(ss, f.order_id)] =
                                  HandleKnown(ss[FindOrder(ss, f.order_id)], f)]
    BY DEF BookOrder, HandleNew
  <2> QED BY <1>2, <1>3, <1>4, <2>1
<1> HIDE DEF i, ss
<1>9. ASSUME i # 0, NEW h, NEW g, g = ShownOrder(h)
      PROVE  ShownOrders([os EXCEPT ![i] = h]) = [ss EXCEPT ![i] = g]
  <2>1. Len([os EXCEPT ![i] = h]) = Len(os)
    BY <1>1
  <2>2. ShownOrders([os EXCEPT ![i] = h]) = [k \in 1..Len(os) |-> ShownOrder([os EXCEPT ![i] = h][k])]
    BY <2>1 DEF ShownOrders
  <2> HIDE DEF f
  <2> QED BY <1>1, <1>3, <1>5, <1>9, <2>2
<1>10. ASSUME NEW h, NEW g, g = ShownOrder(h)
       PROVE  ShownOrders(Append(os, h)) = Append(ss, g)
  <2>1. /\ Len(Append(os, h)) = Len(os) + 1
        /\ \A k \in 1..(Len(os) + 1) : Append(os, h)[k] = IF k = Len(os) + 1 THEN h ELSE os[k]
    BY <1>1
  <2>2. Append(ss, g) = [k \in 1..(Len(os) + 1) |-> IF k = Len(os) + 1 THEN g ELSE ss[k]]
    BY <1>1, <1>3
  <2>3. ShownOrders(Append(os, h)) = [k \in 1..(Len(os) + 1) |-> ShownOrder(Append(os, h)[k])]
    BY <2>1 DEF ShownOrders
  <2> QED BY <1>1, <1>3, <1>10, <2>1, <2>2, <2>3
<1>11. CASE e.type = "NewOrder"
  BY <1>6, <1>7, <1>8, <1>9, <1>10, <1>11, Zenon DEF ss
<1>12. CASE e.type # "NewOrder"
  <2>1. CASE i = 0
    BY <1>7, <1>8, <1>12, <2>1 DEF ss
  <2>2. CASE i # 0
    <3>1. i \in 1..Len(os) /\ os[i] \in Order
      BY <1>1, <1>5, <2>2
    <3>2. HandleKnown(ss[i], f) = ShownOrder(HandleKnown(os[i], e))
      <4>1. ss[i] = ShownOrder(os[i])
        BY <1>3, <3>1
      <4> QED BY <1>12, <3>1, <4>1, ShownHandle
    <3> HIDE DEF f
    <3>3. BookOrder(os, e) = [os EXCEPT ![i] = HandleKnown(os[i], e)]
      BY <1>7, <1>12, <2>2, Zenon
    <3>4. BookOrder(ss, f) = [ss EXCEPT ![i] = HandleKnown(ss[i], f)]
      BY <1>8, <1>12, <2>2, Zenon
    <3>5. ShownOrders([os EXCEPT ![i] = HandleKnown(os[i], e)]) = [ss EXCEPT ![i] = HandleKnown(ss[i], f)]
      BY <1>9, <2>2, <3>2
    <3> QED BY <3>3, <3>4, <3>5 DEF f, ss
  <2> QED BY <2>1, <2>2
<1> QED BY <1>11, <1>12

(* A new order and an event of another order may be booked either way      *)
(* round.                                                                  *)
LEMMA BooksCommute ==
  ASSUME NEW os \in OrderTable, NEW n \in Events, n.type = "NewOrder",
         NEW e \in Events, e.type # "NewOrder", e.order_id # n.order_id
  PROVE  BookOrder(BookOrder(os, n), e) = BookOrder(BookOrder(os, e), n)
<1> DEFINE i == FindOrder(os, n.order_id)
           j == FindOrder(os, e.order_id)
           x == NewOrder(n)
           y == HandleKnown(os[j], e)
           ny == IF j = 0 THEN os ELSE [os EXCEPT ![j] = y]
           nx == IF i # 0 THEN [os EXCEPT ![i] = x]
                 ELSE IF Len(os) >= MaxOrders THEN os ELSE Append(os, x)
<1>1. os \in Seq(Order) /\ Len(os) \in Nat
  BY DEF OrderTable
<1>2. /\ i \in 0..Len(os) /\ j \in 0..Len(os)
      /\ i # 0 => os[i].order_id = n.order_id
      /\ j # 0 => os[j].order_id = e.order_id /\ os[j] \in Order
  BY <1>1, FindOrderProps
<1>3. x \in Order /\ x.order_id = n.order_id
  BY NewOrderFields
<1>4. j # 0 => y \in Order /\ y.order_id = e.order_id
  BY <1>2, HandleKnownFields
<1>5. BookOrder(os, n) = nx /\ BookOrder(os, e) = ny
  BY DEF BookOrder, HandleNew
<1>6. i # 0 /\ j # 0 => i # j
  BY <1>2
<1> HIDE DEF i, j, x, y
<1>7. FindOrder(nx, e.order_id) = j
  <2>1. { k \in 1..Len(nx) : nx[k].order_id = e.order_id }
          = { k \in 1..Len(os) : os[k].order_id = e.order_id }
    <3>1. CASE i # 0
      <4>1. nx = [os EXCEPT ![i] = x] /\ Len(nx) = Len(os)
        BY <1>1, <3>1
      <4>2. \A k \in 1..Len(os) : nx[k].order_id = os[k].order_id
        BY <1>1, <1>2, <1>3, <3>1, <4>1
      <4> HIDE DEF nx
      <4> QED BY <4>1, <4>2
    <3>2. CASE i = 0 /\ Len(os) >= MaxOrders
      BY <3>2
    <3>3. CASE i = 0 /\ ~(Len(os) >= MaxOrders)
      <4>1. nx = Append(os, x)
        BY <3>3
      <4>2. Len(nx) = Len(os) + 1 /\ nx[Len(os) + 1] = x /\ \A k \in 1..Len(os) : nx[k] = os[k]
        BY <1>1, <4>1
      <4> HIDE DEF nx
      <4> QED BY <1>1, <1>3, <4>2
    <3> QED BY <3>1, <3>2, <3>3
  <2> HIDE DEF nx
  <2> QED BY <2>1, FindByIds DEF j
<1>8. FindOrder(ny, n.order_id) = i
  <2>1. { k \in 1..Len(ny) : ny[k].order_id = n.order_id }
          = { k \in 1..Len(os) : os[k].order_id = n.order_id }
    <3>1. CASE j = 0
      BY <3>1
    <3>2. CASE j # 0
      <4>1. ny = [os EXCEPT ![j] = y] /\ Len(ny) = Len(os)
        BY <1>1, <3>2
      <4>2. \A k \in 1..Len(os) : ny[k].order_id = os[k].order_id
        BY <1>1, <1>2, <1>4, <3>2, <4>1
      <4> HIDE DEF ny
      <4> QED BY <4>1, <4>2
    <3> QED BY <3>1, <3>2
  <2> HIDE DEF ny
  <2> QED BY <2>1, FindByIds DEF i
<1>9. BookOrder(nx, e) = IF j = 0 THEN nx ELSE [nx EXCEPT ![j] = HandleKnown(nx[j], e)]
  <2> HIDE DEF nx
  <2> QED BY <1>7, Zenon DEF BookOrder
<1>10. BookOrder(ny, n) = IF i # 0 THEN [ny EXCEPT ![i] = x]
                          ELSE IF Len(ny) >= MaxOrders THEN ny ELSE Append(ny, x)
  <2> HIDE DEF ny
  <2> QED BY <1>8, Zenon DEF BookOrder, HandleNew, x
<1>11. Len(ny) = Len(os)
  BY <1>1
<1>12. CASE j = 0
  <2>1. ny = os
    BY <1>12
  <2>2. BookOrder(nx, e) = nx
    BY <1>9, <1>12
  <2>3. BookOrder(os, n) = nx
    BY <1>5
  <2> HIDE DEF nx, ny
  <2> QED BY <1>5, <2>1, <2>2, <2>3
<1>13. CASE j # 0
  <2>1. ny = [os EXCEPT ![j] = y] /\ j \in 1..Len(os)
    BY <1>2, <1>13
  <2>2. nx[j] = os[j]
    BY <1>1, <1>2, <1>6, <2>1
  <2>3. BookOrder(nx, e) = [nx EXCEPT ![j] = y]
    <3> HIDE DEF nx
    <3> QED BY <1>9, <1>13, <2>2 DEF y
  <2>4. CASE i # 0
    <3>1. nx = [os EXCEPT ![i] = x] /\ BookOrder(ny, n) = [ny EXCEPT ![i] = x]
      BY <1>10, <2>4
    <3>2. i \in 1..Len(os) /\ i # j
      BY <1>1, <1>2, <1>6, <1>13, <2>4
    <3>3. [[os EXCEPT ![i] = x] EXCEPT ![j] = y] = [[os EXCEPT ![j] = y] EXCEPT ![i] = x]
      BY <1>1, <2>1, <3>2
    <3> HIDE DEF nx, ny
    <3> QED BY <1>5, <2>1, <2>3, <3>1, <3>3
  <2>5. CASE i = 0 /\ Len(os) >= MaxOrders
    <3>1. nx = os /\ BookOrder(ny, n) = ny
      BY <1>10, <1>11, <2>5
    <3> HIDE DEF nx, ny
    <3> QED BY <1>5, <2>1, <2>3, <3>1
  <2>6. CASE i = 0 /\ ~(Len(os) >= MaxOrders)
    <3>1. nx = Append(os, x) /\ BookOrder(ny, n) = Append(ny, x)
      BY <1>10, <1>11, <2>6
    <3>2. [Append(os, x) EXCEPT ![j] = y] = Append([os EXCEPT ![j] = y], x)
      <4> DEFINE m == Len(os) + 1
                 os2 == [os EXCEPT ![j] = y]
      <4>1. os2 \in Seq(Order) /\ Len(os2) = Len(os) /\ j # m
        BY <1>1, <1>4, <1>13, <2>1
      <4>2. Append(os2, x) = [k \in 1..m |-> IF k = m THEN x ELSE os2[k]]
        BY <1>1, <1>3, <4>1
      <4>3. Append(os, x) = [k \in 1..m |-> IF k = m THEN x ELSE os[k]]
        <5> DEFINE s == os
        <5>1. s \in Seq(Order) /\ x \in Order /\ m = Len(s) + 1
          BY <1>1, <1>3
        <5> HIDE DEF s, m, nx, ny, os2
        <5> DEFINE ap == Append(s, x)
        <5>2. /\ ap \in Seq(Order) /\ Len(ap) = m
              /\ \A k \in 1..m : ap[k] = IF k = m THEN x ELSE s[k]
          BY <5>1
        <5> HIDE DEF ap
        <5>3. ap = [k \in 1..m |-> IF k = m THEN x ELSE s[k]]
          BY <5>2
        <5> QED BY <5>3 DEF s, ap
      <4>4. \A k \in 1..Len(os) : os2[k] = IF k = j THEN y ELSE os[k]
        BY <1>1, <2>1
      <4> DEFINE a == Append(os, x)
      <4>5. [a EXCEPT ![j] = y] = [k \in 1..m |-> IF k = j THEN y ELSE a[k]]
        BY <4>3
      <4> HIDE DEF os2
      <4> QED BY <1>1, <2>1, <4>1, <4>2, <4>3, <4>4, <4>5 DEF os2
    <3> HIDE DEF nx, ny
    <3> QED BY <1>5, <2>1, <2>3, <3>1, <3>2
  <2> QED BY <2>4, <2>5, <2>6
<1> QED BY <1>12, <1>13
-----------------------------------------------------------------------------
(* An event leaves the slots of other orders alone. *)
LEMMA BookOrderOther ==
  ASSUME NEW os \in OrderTable, NEW e \in Events, NEW oid, oid # e.order_id,
         FindOrder(os, oid) # 0
  PROVE  /\ FindOrder(BookOrder(os, e), oid) = FindOrder(os, oid)
         /\ BookOrder(os, e)[FindOrder(os, oid)] = os[FindOrder(os, oid)]
<1> DEFINE i == FindOrder(os, e.order_id)
           j == FindOrder(os, oid)
           bs == BookOrder(os, e)
           x == NewOrder(e)
           y == HandleKnown(os[i], e)
<1>1. os \in Seq(Order) /\ Len(os) \in Nat
  BY DEF OrderTable
<1>2. /\ i \in 0..Len(os) /\ j \in 1..Len(os)
      /\ i # 0 => os[i].order_id = e.order_id /\ os[i] \in Order
      /\ os[j].order_id = oid
  BY <1>1, FindOrderProps
<1>3. bs = IF e.type = "NewOrder"
           THEN IF i # 0 THEN [os EXCEPT ![i] = x]
                ELSE IF Len(os) >= MaxOrders THEN os ELSE Append(os, x)
           ELSE IF i = 0 THEN os ELSE [os EXCEPT ![i] = y]
  BY DEF BookOrder, HandleNew
<1>4. x \in Order /\ x.order_id = e.order_id
  BY NewOrderFields
<1>5. i # 0 /\ e.type # "NewOrder" => y \in Order /\ y.order_id = e.order_id
  BY <1>2, HandleKnownFields
<1> HIDE DEF i, x, y
<1>6. \/ bs = os
      \/ i # 0 /\ \E z : z.order_id = e.order_id /\ bs = [os EXCEPT ![i] = z]
      \/ bs = Append(os, x)
  BY <1>3, <1>4, <1>5, Zenon
<1> HIDE DEF bs
<1>7. /\ bs[j] = os[j]
      /\ { k \in 1..Len(bs) : bs[k].order_id = oid } = { k \in 1..Len(os) : os[k].order_id = oid }
  <2> HIDE DEF j
  <2>1. CASE bs = os
    BY <2>1
  <2>2. ASSUME i # 0, NEW z, z.order_id = e.order_id, bs = [os EXCEPT ![i] = z]
        PROVE  /\ bs[j] = os[j]
               /\ { k \in 1..Len(bs) : bs[k].order_id = oid } = { k \in 1..Len(os) : os[k].order_id = oid }
    <3>1. Len(bs) = Len(os) /\ bs[i] = z /\ \A k \in 1..Len(os) : k # i => bs[k] = os[k]
      BY <1>1, <1>2, <2>2
    <3>2. \A k \in 1..Len(os) : bs[k].order_id = oid <=> os[k].order_id = oid
      BY <1>2, <2>2, <3>1
    <3>3. i # j
      BY <1>2, <2>2
    <3> QED BY <1>2, <3>1, <3>2, <3>3
  <2>3. CASE bs = Append(os, x)
    <3>1. Len(bs) = Len(os) + 1 /\ bs[Len(os) + 1] = x /\ \A k \in 1..Len(os) : bs[k] = os[k]
      BY <1>1, <2>3
    <3> QED BY <1>1, <1>2, <1>4, <3>1
  <2> QED BY <1>6, <2>1, <2>2, <2>3
<1>8. FindOrder(bs, oid) = FindOrder(os, oid)
  BY <1>7, FindByIds
<1> QED BY <1>7, <1>8 DEF bs, j

(* A new id takes the next slot, if there is one. *)
LEMMA BookOrderNew ==
  ASSUME NEW os \in OrderTable, NEW e \in Events, e.type = "NewOrder",
         FindOrder(os, e.order_id) = 0, Len(os) < MaxOrders
  PROVE  LET bs == BookOrder(os, e)
         IN  /\ Len(bs) = Len(os) + 1 /\ bs[Len(bs)] = NewOrder(e)
             /\ \A k \in 1..Len(os) : bs[k] = os[k]
             /\ FindOrder(bs, e.order_id) = Len(bs)
<1> DEFINE bs == BookOrder(os, e)
           x == NewOrder(e)
<1>1. os \in Seq(Order) /\ Len(os) \in Nat /\ MaxOrders \in Nat
  BY MaxOrdersAssumption DEF OrderTable
<1>2. x \in Order /\ x.order_id = e.order_id
  BY NewOrderFields
<1>3. bs = Append(os, x)
  BY <1>1 DEF BookOrder, HandleNew
<1>4. bs \in OrderTable /\ bs \in Seq(Order)
  BY BookOrderType DEF OrderTable
<1> HIDE DEF bs, x
<1>5. Len(bs) = Len(os) + 1 /\ bs[Len(bs)] = x /\ \A k \in 1..Len(os) : bs[k] = os[k]
  BY <1>1, <1>2, <1>3
<1>6. \A k \in 1..Len(os) : os[k].order_id # e.order_id
  BY <1>1, FindOrderProps
<1> DEFINE f == FindOrder(bs, e.order_id)
<1>7. /\ f \in 0..Len(bs)
      /\ f # 0 => bs[f].order_id = e.order_id
      /\ f = 0 => \A k \in 1..Len(bs) : bs[k].order_id # e.order_id
  BY <1>4, FindOrderProps
<1> HIDE DEF f
<1>8. f = Len(bs)
  <2>1. f # 0
    BY <1>1, <1>2, <1>5, <1>7
  <2>2. f \notin 1..Len(os)
    BY <1>5, <1>6, <1>7, <2>1
  <2> DEFINE n == Len(os)
             m == Len(bs)
  <2>3. n \in Nat /\ m = n + 1 /\ f \in 0..m /\ f # 0 /\ f \notin 1..n
    BY <1>1, <1>5, <1>7, <2>1, <2>2
  <2> HIDE DEF n, m
  <2>4. f = m
    BY <2>3
  <2> QED BY <2>4 DEF m
<1> QED BY <1>5, <1>8 DEF bs, x, f

(* Any other event is handled in the slot of its order. *)
LEMMA BookOrderKnown ==
  ASSUME NEW os \in OrderTable, NEW e \in Events, e.type # "NewOrder"
  PROVE  LET bs == BookOrder(os, e)
             i == FindOrder(os, e.order_id)
         IN  /\ Len(bs) = Len(os) /\ \A k \in 1..Len(os) : bs[k].order_id = os[k].order_id
             /\ i \in 0..Len(os) /\ FindOrder(bs, e.order_id) = i
             /\ i # 0 => bs[i] = HandleKnown(os[i], e) /\ os[i] \in Order
<1> DEFINE bs == BookOrder(os, e)
           i == FindOrder(os, e.order_id)
           y == HandleKnown(os[i], e)
<1>1. os \in Seq(Order) /\ Len(os) \in Nat
  BY DEF OrderTable
<1>2. i \in 0..Len(os) /\ (i # 0 => os[i] \in Order /\ i \in 1..Len(os))
  BY <1>1, FindOrderProps
<1>3. bs = IF i = 0 THEN os ELSE [os EXCEPT ![i] = y]
  BY DEF BookOrder
<1>4. i # 0 => y.order_id = os[i].order_id
  BY <1>2, HandleKnownFields
<1> HIDE DEF bs, i, y
<1>5. Len(bs) = Len(os) /\ \A k \in 1..Len(os) : bs[k].order_id = os[k].order_id
  BY <1>1, <1>2, <1>3, <1>4
<1>6. i # 0 => bs[i] = y
  BY <1>1, <1>2, <1>3
<1>7. FindOrder(bs, e.order_id) = FindOrder(os, e.order_id)
  <2>1. { k \in 1..Len(bs) : bs[k].order_id = e.order_id }
          = { k \in 1..Len(os) : os[k].order_id = e.order_id }
    BY <1>5
  <2> QED BY <2>1, FindByIds
<1> QED BY <1>2, <1>5, <1>6, <1>7 DEF bs, i, y

(* What a slot contributes to the exposure is an integer. *)
LEMMA ExposureType ==
  ASSUME NEW o \in Order, NEW sym
  PROVE  ExposureOf(o, sym) \in Int
<1>1. o.original_qty \in Int /\ o.filled_qty \in Int
  BY DEF Order
<1>2. SignedRemaining(o) \in Int
  BY <1>1 DEF SignedRemaining, Signed, RemainingQty
<1> QED BY <1>2 DEF ExposureOf

(* The exposure after an event on an order that has a slot. *)
LEMMA ExposureMoves ==
  ASSUME NEW os \in OrderTable, NEW e \in Events, e.type # "NewOrder", NEW sym,
         FindOrder(os, e.order_id) # 0
  PROVE  LET i == FindOrder(os, e.order_id)
         IN  /\ ExposureOf(os[i], sym) \in Int /\ ExposureOf(HandleKnown(os[i], e), sym) \in Int
             /\ OpenExposure(BookOrder(os, e), sym) =
                  (OpenExposure(os, sym) + ExposureOf(HandleKnown(os[i], e), sym))
                    - ExposureOf(os[i], sym)
<1> DEFINE i == FindOrder(os, e.order_id)
           h == HandleKnown(os[i], e)
           bs == BookOrder(os, e)
           v == Exposures(os, sym)
<1>1. os \in Seq(Order) /\ bs \in Seq(Order)
  BY BookOrderType DEF OrderTable
<1>2. i \in 1..Len(os) /\ os[i] \in Order
  BY <1>1, FindOrderProps
<1>3. h \in Order
  BY <1>2, HandleKnownFields
<1>4. bs = [os EXCEPT ![i] = h]
  BY DEF BookOrder
<1> HIDE DEF i, h, bs
<1>5. ExposureOf(os[i], sym) \in Int /\ ExposureOf(h, sym) \in Int
  BY <1>2, <1>3, ExposureType
<1>6. v \in Seq(Int) /\ OpenExposure(os, sym) = SumOf(v) /\ OpenExposure(bs, sym) = SumOf(Exposures(bs, sym))
  BY <1>1, ExposureIsSum
<1>7. Len(v) = Len(os) /\ v[i] = ExposureOf(os[i], sym)
  BY <1>1, <1>2 DEF Exposures
<1>8. Exposures(bs, sym) = [v EXCEPT ![i] = ExposureOf(h, sym)]
  <2>1. Len(bs) = Len(os) /\ \A k \in 1..Len(os) : bs[k] = IF k = i THEN h ELSE os[k]
    BY <1>1, <1>2, <1>4
  <2> QED BY <1>2, <2>1 DEF Exposures
<1> HIDE DEF v
<1>9. SumOf([v EXCEPT ![i] = ExposureOf(h, sym)]) = (SumOf(v) + ExposureOf(h, sym)) - v[i]
  BY <1>2, <1>5, <1>6, <1>7, SumExcept
<1>10. OpenExposure(bs, sym) = (OpenExposure(os, sym) + ExposureOf(h, sym)) - ExposureOf(os[i], sym)
  BY <1>6, <1>7, <1>8, <1>9
<1> QED BY <1>5, <1>10 DEF i, h, bs

(* A new order adds its quantity to the exposure of its symbol. *)
LEMMA ExposureGrows ==
  ASSUME NEW os \in OrderTable, NEW e \in Events, e.type = "NewOrder", NEW sym,
         FindOrder(os, e.order_id) = 0, Len(os) < MaxOrders
  PROVE  OpenExposure(BookOrder(os, e), sym) =
           OpenExposure(os, sym) + IF e.symbol = sym THEN Signed(e.side, e.qty) ELSE 0
<1> DEFINE bs == BookOrder(os, e)
           v == Exposures(os, sym)
           x == IF e.symbol = sym THEN Signed(e.side, e.qty) ELSE 0
<1>1. os \in Seq(Order) /\ bs \in Seq(Order)
  BY BookOrderType DEF OrderTable
<1>2. Len(bs) = Len(os) + 1 /\ bs[Len(bs)] = NewOrder(e) /\ \A k \in 1..Len(os) : bs[k] = os[k]
  BY BookOrderNew
<1>3. ExposureOf(NewOrder(e), sym) = x /\ x \in Int
  <2>1. /\ NewOrder(e) \in Order /\ NewOrder(e).symbol = e.symbol
        /\ NewOrder(e).side = e.side /\ NewOrder(e).original_qty = e.qty
        /\ NewOrder(e).filled_qty = 0 /\ NewOrder(e).state = "Pending"
    BY NewOrderFields
  <2> DEFINE o == NewOrder(e)
  <2> HIDE DEF o
  <2>2. o.original_qty \in Int /\ o.filled_qty = 0 /\ RemainingQty(o) = e.qty /\ e.qty \in Int
    BY <2>1 DEF o, Order, RemainingQty
  <2>3. IsOpen(o) /\ SignedRemaining(o) = Signed(e.side, e.qty) /\ o.symbol = e.symbol
    BY <2>1, <2>2 DEF o, IsOpen, SignedRemaining
  <2> QED BY <2>2, <2>3 DEF o, ExposureOf, Signed
<1> HIDE DEF bs, x
<1>4. v \in Seq(Int) /\ OpenExposure(os, sym) = SumOf(v) /\ OpenExposure(bs, sym) = SumOf(Exposures(bs, sym))
  BY <1>1, ExposureIsSum
<1>5. Exposures(bs, sym) = Append(v, x)
  <2>1. Len(v) = Len(os) /\ Len(os) \in Nat
    BY <1>1 DEF Exposures
  <2>2. \A k \in 1..(Len(os) + 1) :
           Exposures(bs, sym)[k] = IF k = Len(os) + 1 THEN x ELSE v[k]
    BY <1>1, <1>2, <1>3 DEF Exposures
  <2>3. Exposures(bs, sym) = [k \in 1..(Len(os) + 1) |-> Exposures(bs, sym)[k]]
    BY <1>2 DEF Exposures
  <2>4. Append(v, x) = [k \in 1..(Len(os) + 1) |-> IF k = Len(os) + 1 THEN x ELSE v[k]]
    BY <1>3, <1>4, <2>1 DEF Exposures
  <2> QED BY <2>1, <2>2, <2>3, <2>4
<1> HIDE DEF v
<1>6. SumOf(Append(v, x)) = SumOf(v) + x
  BY <1>3, <1>4, SumAppend
<1> QED BY <1>4, <1>5, <1>6 DEF bs, x
=============================================================================
