--------------------------- MODULE PositionLemmas ---------------------------
(***************************************************************************)
(* What find(), apply_buy(), apply_sell() and apply_event() leave in the   *)
(* slots of the PositionTracker, for the proofs of the specifications it   *)
(* is part of.                                                             *)
(***************************************************************************)
EXTENDS PositionTracker, SlotLemmas

(* find() returns a slot of the symbol, or nothing when there is none. *)
LEMMA FindPositionProps ==
  ASSUME NEW ps \in Seq(Position), NEW sym
  PROVE  /\ FindPosition(ps, sym) \in 0..Len(ps)
         /\ FindPosition(ps, sym) # 0 => ps[FindPosition(ps, sym)].symbol = sym
         /\ FindPosition(ps, sym) = 0 => \A i \in 1..Len(ps) : ps[i].symbol # sym
<1> DEFINE I == { i \in 1..Len(ps) : ps[i].symbol = sym }
<1>1. FindPosition(ps, sym) = IF I # {} THEN Min(I) ELSE 0
  BY DEF FindPosition, SelectInSeq
<1>2. CASE I = {}
  BY <1>1, <1>2
<1>3. CASE I # {}
  <2>1. I \subseteq Nat
    OBVIOUS
  <2>2. Min(I) \in I
    BY <1>3, <2>1, MinOfNaturals
  <2> QED BY <1>1, <1>3, <2>2
<1> QED BY <1>2, <1>3

(* The average of two costs is a price again. *)
LEMMA AveragedType ==
  ASSUME NEW avg \in Int, NEW held \in Nat, NEW price \in Int, NEW qty \in Nat
  PROVE  Averaged(avg, held, price, qty) \in Int
<1> DEFINE c == avg * held + price * qty
           n == held + qty
<1>1. c \in Int /\ n \in Nat
  OBVIOUS
<1>2. Averaged(avg, held, price, qty) = IF n > 0 THEN CDiv(c, n) ELSE 0
  BY DEF Averaged
<1> HIDE DEF c, n
<1>3. ASSUME n > 0 PROVE CDiv(c, n) \in Int
  <2>1. n \in Nat \ {0}
    BY <1>1, <1>3
  <2>2. CASE c >= 0
    <3>1. c \div n \in Nat
      BY <1>1, <2>1, <2>2, DivBound
    <3> QED BY <2>2, <3>1 DEF CDiv
  <2>3. CASE ~(c >= 0)
    <3>1. -c \in Nat
      BY <1>1, <2>3
    <3>2. (-c) \div n \in Nat
      BY <2>1, <3>1, DivBound
    <3> QED BY <2>3, <3>2 DEF CDiv
  <2> QED BY <2>2, <2>3
<1> QED BY <1>2, <1>3

(* refresh_unrealized() touches one field, and makes it the mark of the    *)
(* position at the last market price.                                      *)
LEMMA RefreshFields ==
  ASSUME NEW q \in Position
  PROVE  LET r == RefreshUnrealized(q)
         IN  /\ r \in Position
             /\ r.symbol = q.symbol
             /\ r.net_qty = q.net_qty
             /\ r.avg_entry_price = q.avg_entry_price
             /\ r.realized_pnl = q.realized_pnl
             /\ r.total_buy_qty = q.total_buy_qty
             /\ r.total_sell_qty = q.total_sell_qty
             /\ r.last_price = q.last_price
             /\ q.net_qty = 0 => r.unrealized_pnl = 0
             /\ q.last_price > 0 =>
                  r.unrealized_pnl = (q.last_price - q.avg_entry_price) * q.net_qty
<1> DEFINE u == IF q.last_price > 0 /\ q.net_qty # 0
                THEN (q.last_price - q.avg_entry_price) * q.net_qty ELSE 0
<1>1. u \in Int
  BY DEF Position
<1>2. RefreshUnrealized(q) = [q EXCEPT !.unrealized_pnl = u]
  BY DEF RefreshUnrealized
<1>3. /\ q.net_qty = 0 => u = 0
      /\ q.last_price > 0 => u = (q.last_price - q.avg_entry_price) * q.net_qty
  BY DEF Position
<1> HIDE DEF u
<1> QED BY <1>1, <1>2, <1>3 DEF Position

(* The fields a fill leaves in the position, by side. *)
LEMMA BuyFields ==
  ASSUME NEW p \in Position, NEW qty \in Nat, NEW price \in Int, NEW seq \in Nat
  PROVE  LET r     == ApplyBuy(p, qty, price, seq)
             net   == p.net_qty + qty
             cover == IF qty <= -p.net_qty THEN qty ELSE -p.net_qty
         IN  /\ r \in Position
             /\ r.symbol = p.symbol
             /\ r.net_qty = net
             /\ r.total_buy_qty = p.total_buy_qty + qty
             /\ r.total_sell_qty = p.total_sell_qty
             /\ r.last_price = p.last_price
             /\ r.avg_entry_price = IF p.net_qty >= 0
                                    THEN Averaged(p.avg_entry_price, p.net_qty, price, qty)
                                    ELSE AfterReducing(p.avg_entry_price, net, price, net > 0)
             /\ r.realized_pnl = IF p.net_qty >= 0
                                 THEN p.realized_pnl
                                 ELSE p.realized_pnl + (p.avg_entry_price - price) * cover
             /\ r.net_qty = 0 => r.unrealized_pnl = 0
             /\ r.last_price > 0 =>
                  r.unrealized_pnl = (r.last_price - r.avg_entry_price) * r.net_qty
<1> DEFINE net   == p.net_qty + qty
           cover == IF qty <= -p.net_qty THEN qty ELSE -p.net_qty
           avg   == IF p.net_qty >= 0
                    THEN Averaged(p.avg_entry_price, p.net_qty, price, qty)
                    ELSE AfterReducing(p.avg_entry_price, net, price, net > 0)
           real  == IF p.net_qty >= 0
                    THEN p.realized_pnl
                    ELSE p.realized_pnl + (p.avg_entry_price - price) * cover
           total == p.total_buy_qty + qty
           q     == [ p EXCEPT !.total_buy_qty    = total,
                               !.net_qty          = net,
                               !.avg_entry_price  = avg,
                               !.realized_pnl     = real,
                               !.last_updated_seq = seq ]
<1>1. net \in Int /\ total \in Int
  BY DEF Position
<1>2. avg \in Int
  <2>1. CASE p.net_qty >= 0
    <3>1. avg = Averaged(p.avg_entry_price, p.net_qty, price, qty)
      BY <2>1
    <3>2. Averaged(p.avg_entry_price, p.net_qty, price, qty) \in Int
      <4>1. p.net_qty \in Nat /\ p.avg_entry_price \in Int
        BY <2>1 DEF Position
      <4> QED BY <4>1, AveragedType
    <3> QED BY <3>1, <3>2, Zenon
  <2>2. CASE p.net_qty < 0
    BY <2>2 DEF AfterReducing, Position
  <2> QED BY <2>1, <2>2 DEF Position
<1>3. real \in Int
  BY DEF Position
<1>4. ApplyBuy(p, qty, price, seq) = RefreshUnrealized(q)
  BY DEF ApplyBuy
<1> HIDE DEF net, avg, real, total
<1>5. q \in Position
  BY <1>1, <1>2, <1>3, Zenon DEF Position
<1>6. /\ q.symbol = p.symbol
      /\ q.net_qty = net
      /\ q.total_buy_qty = total
      /\ q.total_sell_qty = p.total_sell_qty
      /\ q.last_price = p.last_price
      /\ q.avg_entry_price = avg
      /\ q.realized_pnl = real
  BY <1>1, <1>2, <1>3 DEF Position
<1> HIDE DEF q
<1> QED BY <1>4, <1>5, <1>6, RefreshFields DEF net, avg, real, total

(* The same for a sell. *)
LEMMA SellFields ==
  ASSUME NEW p \in Position, NEW qty \in Nat, NEW price \in Int, NEW seq \in Nat
  PROVE  LET r     == ApplySell(p, qty, price, seq)
             net   == p.net_qty - qty
             close == IF qty <= p.net_qty THEN qty ELSE p.net_qty
         IN  /\ r \in Position
             /\ r.symbol = p.symbol
             /\ r.net_qty = net
             /\ r.total_buy_qty = p.total_buy_qty
             /\ r.total_sell_qty = p.total_sell_qty + qty
             /\ r.last_price = p.last_price
             /\ r.avg_entry_price = IF p.net_qty > 0
                                    THEN AfterReducing(p.avg_entry_price, net, price, net < 0)
                                    ELSE Averaged(p.avg_entry_price, -p.net_qty, price, qty)
             /\ r.realized_pnl = IF p.net_qty > 0
                                 THEN p.realized_pnl + (price - p.avg_entry_price) * close
                                 ELSE p.realized_pnl
             /\ r.net_qty = 0 => r.unrealized_pnl = 0
             /\ r.last_price > 0 =>
                  r.unrealized_pnl = (r.last_price - r.avg_entry_price) * r.net_qty
<1> DEFINE net   == p.net_qty - qty
           close == IF qty <= p.net_qty THEN qty ELSE p.net_qty
           avg   == IF p.net_qty > 0
                    THEN AfterReducing(p.avg_entry_price, net, price, net < 0)
                    ELSE Averaged(p.avg_entry_price, -p.net_qty, price, qty)
           real  == IF p.net_qty > 0
                    THEN p.realized_pnl + (price - p.avg_entry_price) * close
                    ELSE p.realized_pnl
           total == p.total_sell_qty + qty
           q     == [ p EXCEPT !.total_sell_qty   = total,
                               !.net_qty          = net,
                               !.avg_entry_price  = avg,
                               !.realized_pnl     = real,
                               !.last_updated_seq = seq ]
<1>1. net \in Int /\ total \in Int
  BY DEF Position
<1>2. avg \in Int
  <2>1. CASE p.net_qty <= 0
    <3>1. -p.net_qty \in Nat
      BY <2>1 DEF Position
    <3>2. avg = Averaged(p.avg_entry_price, -p.net_qty, price, qty)
      BY <2>1 DEF Position
    <3>3. Averaged(p.avg_entry_price, -p.net_qty, price, qty) \in Int
      BY <3>1, AveragedType DEF Position
    <3> QED BY <3>2, <3>3, Zenon
  <2>2. CASE p.net_qty > 0
    BY <2>2 DEF AfterReducing, Position
  <2> QED BY <2>1, <2>2 DEF Position
<1>3. real \in Int
  BY DEF Position
<1>4. ApplySell(p, qty, price, seq) = RefreshUnrealized(q)
  BY DEF ApplySell
<1> HIDE DEF net, avg, real, total
<1>5. q \in Position
  BY <1>1, <1>2, <1>3, Zenon DEF Position
<1>6. /\ q.symbol = p.symbol
      /\ q.net_qty = net
      /\ q.total_buy_qty = p.total_buy_qty
      /\ q.total_sell_qty = total
      /\ q.last_price = p.last_price
      /\ q.avg_entry_price = avg
      /\ q.realized_pnl = real
  BY <1>1, <1>2, <1>3 DEF Position
<1> HIDE DEF q
<1> QED BY <1>4, <1>5, <1>6, RefreshFields DEF net, avg, real, total
-----------------------------------------------------------------------------
(* The slots as apply_event() keeps them, and the events it is given. *)
PositionTable == { ps \in Seq(Position) : Len(ps) <= MaxSymbols }

FillEvents == { e \in Events : e.fill_qty \in Nat }

(* A fill moves the position by its signed quantity and nothing else of    *)
(* the slot's identity.                                                    *)
LEMMA FillMoves ==
  ASSUME NEW p \in Position, NEW e \in FillEvents
  PROVE  /\ ApplyFill(p, e) \in Position
         /\ ApplyFill(p, e).symbol = p.symbol
         /\ ApplyFill(p, e).net_qty = p.net_qty + Signed(e.side, e.fill_qty)
<1>1. /\ e.fill_qty \in Nat /\ e.fill_price \in Int /\ e.sequence \in Nat
      /\ e.side \in Sides /\ p.net_qty \in Int
  BY DEF FillEvents, Events, Position
<1>2. CASE e.side = "Buy"
  <2>1. ApplyFill(p, e) = ApplyBuy(p, e.fill_qty, e.fill_price, e.sequence)
    BY <1>2 DEF ApplyFill
  <2>2. Signed(e.side, e.fill_qty) = e.fill_qty
    BY <1>2 DEF Signed
  <2> QED BY <1>1, <2>1, <2>2, BuyFields
<1>3. CASE e.side = "Sell"
  <2>1. ApplyFill(p, e) = ApplySell(p, e.fill_qty, e.fill_price, e.sequence)
    BY <1>3 DEF ApplyFill
  <2>2. Signed(e.side, e.fill_qty) = -e.fill_qty
    BY <1>3 DEF Signed
  <2>3. /\ ApplySell(p, e.fill_qty, e.fill_price, e.sequence) \in Position
        /\ ApplySell(p, e.fill_qty, e.fill_price, e.sequence).symbol = p.symbol
        /\ ApplySell(p, e.fill_qty, e.fill_price, e.sequence).net_qty = p.net_qty - e.fill_qty
    BY <1>1, SellFields
  <2>4. p.net_qty - e.fill_qty = p.net_qty + (-e.fill_qty)
    BY <1>1
  <2> QED BY <2>1, <2>2, <2>3, <2>4
<1> QED BY <1>1, <1>2, <1>3 DEF Sides

(* A new slot starts flat. *)
LEMMA ZeroPositionType ==
  ASSUME NEW sym \in Symbols
  PROVE  /\ ZeroPosition(sym) \in Position
         /\ ZeroPosition(sym).symbol = sym
         /\ ZeroPosition(sym).net_qty = 0
BY DEF ZeroPosition, Position

(* apply_event() keeps the table within its capacity. *)
LEMMA BookPositionType ==
  ASSUME NEW ps \in PositionTable, NEW e \in FillEvents
  PROVE  BookPosition(ps, e) \in PositionTable
<1> DEFINE i == FindPosition(ps, e.symbol)
<1>1. ps \in Seq(Position) /\ Len(ps) <= MaxSymbols /\ Len(ps) \in Nat /\ MaxSymbols \in Nat
  BY MaxSymbolsAssumption DEF PositionTable
<1>2. e.symbol \in Symbols
  BY DEF FillEvents, Events
<1>3. i \in 0..Len(ps)
  BY <1>1, FindPositionProps
<1>4. BookPosition(ps, e) =
        IF ~IsFill(e) THEN ps
        ELSE IF i # 0 THEN [ps EXCEPT ![i] = ApplyFill(ps[i], e)]
        ELSE IF Len(ps) >= MaxSymbols THEN ps
        ELSE Append(ps, ApplyFill(ZeroPosition(e.symbol), e))
  BY DEF BookPosition
<1> HIDE DEF i
<1>5. ASSUME i # 0 PROVE [ps EXCEPT ![i] = ApplyFill(ps[i], e)] \in PositionTable
  <2>1. i \in 1..Len(ps)
    BY <1>1, <1>3, <1>5
  <2>2. ps[i] \in Position
    BY <1>1, <2>1
  <2>3. ApplyFill(ps[i], e) \in Position
    BY <2>2, FillMoves
  <2> QED BY <1>1, <2>1, <2>3 DEF PositionTable
<1>6. ASSUME ~(Len(ps) >= MaxSymbols)
      PROVE  Append(ps, ApplyFill(ZeroPosition(e.symbol), e)) \in PositionTable
  <2>1. ApplyFill(ZeroPosition(e.symbol), e) \in Position
    BY <1>2, ZeroPositionType, FillMoves
  <2> QED BY <1>1, <1>6, <2>1 DEF PositionTable
<1> QED BY <1>4, <1>5, <1>6, Zenon

-----------------------------------------------------------------------------
(* replay_from() goes through one table per prefix of the log. *)
PositionSteps(log) == [p \in (1..Len(log)) \X PositionTable |-> BookPosition(p[2], log[p[1]])]

(* What replay_from() returns is the last of these tables. *)
LEMMA ReplayPositionsFold ==
  ASSUME NEW log \in Seq(FillEvents)
  PROVE  \E F : /\ IsFold(F, Len(log), PositionTable, << >>, PositionSteps(log))
                /\ ReplayPositions(log) = F[Len(log)]
<1> DEFINE n == Len(log)
           A == PositionTable
           step == PositionSteps(log)
           It == CHOOSE g : g = [s \in SUBSET (DOMAIN log) |->
                   IF s = {} THEN << >> ELSE BookPosition(g[s \ {Max(s)}], log[Max(s)])]
<1>1. n \in Nat /\ DOMAIN log = 1..n /\ << >> \in A
  BY MaxSymbolsAssumption DEF PositionTable
<1>2. ReplayPositions(log) = It[DOMAIN log]
  BY DEF ReplayPositions, FoldLeft, MapThenFoldSet
<1>3. ASSUME NEW k \in 1..n, NEW a \in A
      PROVE  step[<<k, a>>] = BookPosition(a, log[k]) /\ BookPosition(a, log[k]) \in A
  <2>1. log[k] \in FillEvents
    OBVIOUS
  <2> QED BY <2>1, BookPositionType DEF PositionSteps
<1>4. step \in [(1..n) \X A -> A]
  <2> SUFFICES ASSUME NEW p \in (1..n) \X A PROVE BookPosition(p[2], log[p[1]]) \in A
    BY DEF PositionSteps
  <2> QED BY <1>3
<1> HIDE DEF step, A, n
<1>5. PICK h \in [SUBSET (1..n) -> A] : FoldsBy(h, n, << >>, step)
  BY <1>1, <1>4, FoldExists
<1>6. h = [s \in SUBSET (DOMAIN log) |->
             IF s = {} THEN << >> ELSE BookPosition(h[s \ {Max(s)}], log[Max(s)])]
  <2> SUFFICES ASSUME NEW s \in SUBSET (1..n)
               PROVE  h[s] = IF s = {} THEN << >>
                             ELSE BookPosition(h[s \ {Max(s)}], log[Max(s)])
    BY <1>1
  <2>1. CASE s = {}
    BY <1>5, <2>1 DEF FoldsBy
  <2>2. CASE s # {}
    <3>1. Max(s) \in 1..n
      BY <1>1, <2>2, MaxOfPositions
    <3>2. h[s \ {Max(s)}] \in A
      BY <1>5
    <3>3. h[s] = step[<<Max(s), h[s \ {Max(s)}]>>]
      BY <1>5, <2>2 DEF FoldsBy
    <3> QED BY <1>3, <2>2, <3>1, <3>2, <3>3
  <2> QED BY <2>1, <2>2
<1>7. It = [s \in SUBSET (DOMAIN log) |->
             IF s = {} THEN << >> ELSE BookPosition(It[s \ {Max(s)}], log[Max(s)])]
  BY <1>6
<1> HIDE DEF It
<1>8. FoldsWithin(It, n, A, << >>, step)
  <2>1. It[{}] = << >>
    <3>1. {} \in SUBSET (DOMAIN log)
      OBVIOUS
    <3> QED BY <1>7, <3>1
  <2>2. ASSUME NEW s \in SUBSET (1..n), s # {}, It[s \ {Max(s)}] \in A
        PROVE  It[s] = step[<<Max(s), It[s \ {Max(s)}]>>]
    <3>1. Max(s) \in 1..n
      BY <1>1, <2>2, MaxOfPositions
    <3>2. It[s] = BookPosition(It[s \ {Max(s)}], log[Max(s)])
      BY <1>1, <1>7, <2>2
    <3> QED BY <1>3, <2>2, <3>1, <3>2
  <2> QED BY <2>1, <2>2 DEF FoldsWithin
<1>9. PICK F : IsFold(F, n, A, << >>, step) /\ F[n] = It[1..n]
  <2>1. ReachedByFold(It[1..n], n, A, << >>, step)
    BY <1>1, <1>4, <1>8, PrefixesAreFold
  <2> QED BY <2>1 DEF ReachedByFold
<1>10. ReplayPositions(log) = F[n]
  BY <1>1, <1>2, <1>9
<1> QED BY <1>9, <1>10 DEF n, A, step

(* replay_from() fills no more slots than there are. *)
LEMMA ReplayPositionsType ==
  ASSUME NEW log \in Seq(FillEvents)
  PROVE  ReplayPositions(log) \in PositionTable
<1>1. PICK F : /\ IsFold(F, Len(log), PositionTable, << >>, PositionSteps(log))
               /\ ReplayPositions(log) = F[Len(log)]
  BY ReplayPositionsFold
<1>2. Len(log) \in 0..Len(log)
  OBVIOUS
<1> QED BY <1>1, <1>2 DEF IsFold

(* One more event in the log is one more apply_event(). *)
LEMMA ReplayPositionsAppend ==
  ASSUME NEW log \in Seq(FillEvents), NEW e \in FillEvents
  PROVE  ReplayPositions(Append(log, e)) = BookPosition(ReplayPositions(log), e)
<1> DEFINE n == Len(log)
           lg == Append(log, e)
           m == Len(lg)
<1>1. n \in Nat /\ m = n + 1 /\ lg \in Seq(FillEvents) /\ lg[m] = e /\ \A k \in 1..n : lg[k] = log[k]
  OBVIOUS
<1>2. PICK F : IsFold(F, n, PositionTable, << >>, PositionSteps(log)) /\ ReplayPositions(log) = F[n]
  BY ReplayPositionsFold
<1>3. PICK G : IsFold(G, m, PositionTable, << >>, PositionSteps(lg)) /\ ReplayPositions(lg) = G[m]
  <2> HIDE DEF lg
  <2> QED BY <1>1, ReplayPositionsFold
<1> HIDE DEF lg, m, n
<1>4. SameSteps(n, PositionTable, PositionSteps(log), PositionSteps(lg))
  BY <1>1 DEF SameSteps, PositionSteps, n, m
<1>5. F[n] = G[n]
  <2>1. n \in Nat /\ m \in Nat /\ n <= m
    BY <1>1
  <2> QED BY <1>2, <1>3, <1>4, <2>1, FoldsAgree
<1>6. m \in 1..m /\ m - 1 = n /\ n \in 0..m
  BY <1>1
<1>7. G[m] = PositionSteps(lg)[<<m, G[n]>>] /\ G[n] \in PositionTable
  BY <1>3, <1>6 DEF IsFold
<1>8. PositionSteps(lg)[<<m, G[n]>>] = BookPosition(G[n], e)
  BY <1>1, <1>6, <1>7 DEF PositionSteps, m
<1> QED BY <1>2, <1>3, <1>5, <1>7, <1>8 DEF lg
-----------------------------------------------------------------------------
(* The table without the sequence numbers of its last events. *)
ShownPosition(p) == [p EXCEPT !.last_updated_seq = 0]

ShownPositions(ps) == [i \in 1..Len(ps) |-> ShownPosition(ps[i])]

(* find() looks at the symbols alone. *)
LEMMA FindBySymbols ==
  ASSUME NEW as, NEW bs, NEW sym,
         { i \in 1..Len(as) : as[i].symbol = sym } = { i \in 1..Len(bs) : bs[i].symbol = sym }
  PROVE  FindPosition(as, sym) = FindPosition(bs, sym)
BY Zenon DEF FindPosition, SelectInSeq

(* The mark is recomputed from fields that are shown. *)
LEMMA ShownRefresh ==
  ASSUME NEW q \in Position
  PROVE  ShownPosition(RefreshUnrealized(q)) = RefreshUnrealized(ShownPosition(q))
<1> DEFINE u == IF q.last_price > 0 /\ q.net_qty # 0
                THEN (q.last_price - q.avg_entry_price) * q.net_qty ELSE 0
           s == ShownPosition(q)
<1>1. /\ s.last_price = q.last_price /\ s.net_qty = q.net_qty
      /\ s.avg_entry_price = q.avg_entry_price
  BY DEF ShownPosition, Position
<1>2. RefreshUnrealized(q) = [q EXCEPT !.unrealized_pnl = u]
  BY DEF RefreshUnrealized
<1> HIDE DEF s
<1>3. RefreshUnrealized(s) = [s EXCEPT !.unrealized_pnl = u]
  BY <1>1, Zenon DEF RefreshUnrealized
<1> HIDE DEF u
<1> QED BY <1>2, <1>3 DEF ShownPosition, Position, s

(* The sequence number is written and never read. *)
LEMMA ShownFill ==
  ASSUME NEW p \in Position, NEW e \in FillEvents
  PROVE  ShownPosition(ApplyFill(p, e)) = ApplyFill(ShownPosition(p), [e EXCEPT !.sequence = 0])
<1> DEFINE f == [e EXCEPT !.sequence = 0]
           s == ShownPosition(p)
           qty == e.fill_qty
           px == e.fill_price
           seq == e.sequence
<1>1. /\ f.side = e.side /\ f.fill_qty = qty /\ f.fill_price = px /\ f.sequence = 0
      /\ qty \in Nat /\ px \in Int /\ seq \in Nat
  BY DEF FillEvents, Events
<1>2. /\ s.net_qty = p.net_qty /\ s.avg_entry_price = p.avg_entry_price
      /\ s.realized_pnl = p.realized_pnl /\ s.total_buy_qty = p.total_buy_qty
      /\ s.total_sell_qty = p.total_sell_qty
      /\ s = [p EXCEPT !.last_updated_seq = 0]
  BY DEF ShownPosition, Position
<1>3. /\ p.net_qty \in Int /\ p.avg_entry_price \in Int /\ p.realized_pnl \in Int
      /\ p.total_buy_qty \in Int /\ p.total_sell_qty \in Int
  BY DEF Position
<1> HIDE DEF f, s, qty, px, seq
<1>4. CASE e.side = "Buy"
  <2> DEFINE net   == p.net_qty + qty
             cover == IF qty <= -p.net_qty THEN qty ELSE -p.net_qty
             total == p.total_buy_qty + qty
             avg   == IF p.net_qty >= 0 THEN Averaged(p.avg_entry_price, p.net_qty, px, qty)
                      ELSE AfterReducing(p.avg_entry_price, net, px, net > 0)
             pnl   == IF p.net_qty >= 0 THEN p.realized_pnl
                      ELSE p.realized_pnl + (p.avg_entry_price - px) * cover
             A(r, n) == [ r EXCEPT !.total_buy_qty = total, !.net_qty = net,
                                   !.avg_entry_price = avg, !.realized_pnl = pnl,
                                   !.last_updated_seq = n ]
  <2>1. ApplyFill(p, e) = RefreshUnrealized(A(p, seq))
    <3>1. ApplyFill(p, e) = ApplyBuy(p, qty, px, seq)
      BY <1>4 DEF ApplyFill, qty, px, seq
    <3> QED BY <3>1, Zenon DEF ApplyBuy
  <2>2. ApplyFill(s, f) = RefreshUnrealized(A(s, 0))
    <3>1. ApplyFill(s, f) = ApplyBuy(s, qty, px, 0)
      BY <1>1, <1>4 DEF ApplyFill
    <3> QED BY <1>2, <3>1, Zenon DEF ApplyBuy
  <2>3. net \in Int /\ total \in Int
    BY <1>1, <1>3
  <2>4. avg \in Int
    <3>1. CASE p.net_qty >= 0
      <4>1. p.net_qty \in Nat
        BY <1>3, <3>1
      <4>2. Averaged(p.avg_entry_price, p.net_qty, px, qty) \in Int
        BY <1>1, <1>3, <4>1, AveragedType
      <4> QED BY <3>1, <4>2
    <3>2. CASE ~(p.net_qty >= 0)
      BY <1>1, <1>3, <3>2 DEF AfterReducing
    <3> QED BY <3>1, <3>2
  <2>5. pnl \in Int
    <3> DEFINE c == cover  d == p.avg_entry_price - px
    <3>1. c \in Int /\ d \in Int
      BY <1>1, <1>3
    <3>2. d * c \in Int
      <4> HIDE DEF c, d
      <4> QED BY <3>1
    <3> QED BY <1>3, <3>2
  <2> HIDE DEF net, total, avg, pnl
  <2>6. A(p, seq) \in Position /\ ShownPosition(A(p, seq)) = A(s, 0)
    <3>1. A(p, seq) \in Position
      BY <1>1, <2>3, <2>4, <2>5 DEF Position
    <3>2. ShownPosition(A(p, seq)) = A(s, 0)
      BY <1>2 DEF ShownPosition, Position
    <3> QED BY <3>1, <3>2
  <2> HIDE DEF A
  <2> QED BY <2>1, <2>2, <2>6, ShownRefresh DEF f, s
<1>5. CASE e.side # "Buy"
  <2> DEFINE net   == p.net_qty - qty
             close == IF qty <= p.net_qty THEN qty ELSE p.net_qty
             total == p.total_sell_qty + qty
             avg   == IF p.net_qty > 0 THEN AfterReducing(p.avg_entry_price, net, px, net < 0)
                      ELSE Averaged(p.avg_entry_price, -p.net_qty, px, qty)
             pnl   == IF p.net_qty > 0 THEN p.realized_pnl + (px - p.avg_entry_price) * close
                      ELSE p.realized_pnl
             A(r, n) == [ r EXCEPT !.total_sell_qty = total, !.net_qty = net,
                                   !.avg_entry_price = avg, !.realized_pnl = pnl,
                                   !.last_updated_seq = n ]
  <2>1. ApplyFill(p, e) = RefreshUnrealized(A(p, seq))
    <3>1. ApplyFill(p, e) = ApplySell(p, qty, px, seq)
      BY <1>5 DEF ApplyFill, qty, px, seq
    <3> QED BY <3>1, Zenon DEF ApplySell
  <2>2. ApplyFill(s, f) = RefreshUnrealized(A(s, 0))
    <3>1. ApplyFill(s, f) = ApplySell(s, qty, px, 0)
      BY <1>1, <1>5 DEF ApplyFill
    <3> QED BY <1>2, <3>1, Zenon DEF ApplySell
  <2>3. net \in Int /\ total \in Int
    BY <1>1, <1>3
  <2>4. avg \in Int
    <3>1. CASE ~(p.net_qty > 0)
      <4>1. -p.net_qty \in Nat
        BY <1>3, <3>1
      <4>2. Averaged(p.avg_entry_price, -p.net_qty, px, qty) \in Int
        BY <1>1, <1>3, <4>1, AveragedType
      <4> QED BY <3>1, <4>2
    <3>2. CASE p.net_qty > 0
      BY <1>1, <1>3, <3>2 DEF AfterReducing
    <3> QED BY <3>1, <3>2
  <2>5. pnl \in Int
    <3> DEFINE c == close  d == px - p.avg_entry_price
    <3>1. c \in Int /\ d \in Int
      BY <1>1, <1>3
    <3>2. d * c \in Int
      <4> HIDE DEF c, d
      <4> QED BY <3>1
    <3> QED BY <1>3, <3>2
  <2> HIDE DEF net, total, avg, pnl
  <2>6. A(p, seq) \in Position /\ ShownPosition(A(p, seq)) = A(s, 0)
    <3>1. A(p, seq) \in Position
      BY <1>1, <2>3, <2>4, <2>5 DEF Position
    <3>2. ShownPosition(A(p, seq)) = A(s, 0)
      BY <1>2 DEF ShownPosition, Position
    <3> QED BY <3>1, <3>2
  <2> HIDE DEF A
  <2> QED BY <2>1, <2>2, <2>6, ShownRefresh DEF f, s
<1> QED BY <1>4, <1>5

(* apply_event() does to the shown table what it does to the table. *)
LEMMA ShownBookPosition ==
  ASSUME NEW ps \in PositionTable, NEW e \in FillEvents
  PROVE  ShownPositions(BookPosition(ps, e)) =
           BookPosition(ShownPositions(ps), [e EXCEPT !.sequence = 0])
<1> DEFINE f == [e EXCEPT !.sequence = 0]
           ss == ShownPositions(ps)
           i == FindPosition(ps, e.symbol)
           z == ZeroPosition(e.symbol)
<1>1. ps \in Seq(Position) /\ Len(ps) \in Nat
  BY DEF PositionTable
<1>2. f.type = e.type /\ f.symbol = e.symbol /\ e.symbol \in Symbols
  BY DEF FillEvents, Events
<1>3. /\ ss = [k \in 1..Len(ps) |-> ShownPosition(ps[k])] /\ Len(ss) = Len(ps)
      /\ \A k \in 1..Len(ps) : ss[k].symbol = ps[k].symbol
  <2>1. \A k \in 1..Len(ps) : ps[k] \in Position
    BY <1>1
  <2>2. \A p \in Position : ShownPosition(p).symbol = p.symbol
    BY DEF ShownPosition, Position
  <2>3. ss = [k \in 1..Len(ps) |-> ShownPosition(ps[k])]
    BY DEF ShownPositions
  <2> HIDE DEF ss
  <2> QED BY <1>1, <2>1, <2>2, <2>3
<1>4. FindPosition(ss, f.symbol) = i
  <2>1. { k \in 1..Len(ss) : ss[k].symbol = e.symbol }
          = { k \in 1..Len(ps) : ps[k].symbol = e.symbol }
    BY <1>3
  <2> HIDE DEF ss
  <2> QED BY <1>2, <2>1, FindBySymbols
<1>5. i \in 0..Len(ps)
  BY <1>1, FindPositionProps
<1>6. z \in Position /\ ShownPosition(z) = z
  <2>1. z \in Position
    BY <1>2, ZeroPositionType
  <2>2. ShownPosition(z) = z
    BY DEF ShownPosition, ZeroPosition
  <2> QED BY <2>1, <2>2
<1>7. ShownPosition(ApplyFill(z, e)) = ApplyFill(z, f)
  <2> HIDE DEF z
  <2> QED BY <1>6, ShownFill
<1>8. BookPosition(ps, e) =
        IF ~IsFill(e) THEN ps
        ELSE IF i # 0 THEN [ps EXCEPT ![i] = ApplyFill(ps[i], e)]
        ELSE IF Len(ps) >= MaxSymbols THEN ps ELSE Append(ps, ApplyFill(z, e))
  BY DEF BookPosition
<1>9. BookPosition(ss, f) =
        IF ~IsFill(e) THEN ss
        ELSE IF i # 0 THEN [ss EXCEPT ![i] = ApplyFill(ss[i], f)]
        ELSE IF Len(ps) >= MaxSymbols THEN ss ELSE Append(ss, ApplyFill(z, f))
  <2> HIDE DEF ss, f, i
  <2>1. BookPosition(ss, f) =
          IF ~IsFill(f) THEN ss
          ELSE IF FindPosition(ss, f.symbol) # 0
               THEN [ss EXCEPT ![FindPosition(ss, f.symbol)] =
                                  ApplyFill(ss[FindPosition(ss, f.symbol)], f)]
          ELSE IF Len(ss) >= MaxSymbols THEN ss
          ELSE Append(ss, ApplyFill(ZeroPosition(f.symbol), f))
    BY DEF BookPosition
  <2>2. IsFill(f) = IsFill(e)
    BY <1>2 DEF IsFill
  <2> QED BY <1>2, <1>3, <1>4, <2>1, <2>2
<1> HIDE DEF i, ss, z
<1>10. ASSUME i # 0, NEW h, NEW g, g = ShownPosition(h)
       PROVE  ShownPositions([ps EXCEPT ![i] = h]) = [ss EXCEPT ![i] = g]
  <2>1. Len([ps EXCEPT ![i] = h]) = Len(ps)
    BY <1>1
  <2>2. ShownPositions([ps EXCEPT ![i] = h])
          = [k \in 1..Len(ps) |-> ShownPosition([ps EXCEPT ![i] = h][k])]
    BY <2>1 DEF ShownPositions
  <2> HIDE DEF f
  <2> QED BY <1>1, <1>3, <1>5, <1>10, <2>2
<1>11. ASSUME NEW h, NEW g, g = ShownPosition(h)
       PROVE  ShownPositions(Append(ps, h)) = Append(ss, g)
  <2>1. /\ Len(Append(ps, h)) = Len(ps) + 1
        /\ \A k \in 1..(Len(ps) + 1) : Append(ps, h)[k] = IF k = Len(ps) + 1 THEN h ELSE ps[k]
    BY <1>1
  <2>2. Append(ss, g) = [k \in 1..(Len(ps) + 1) |-> IF k = Len(ps) + 1 THEN g ELSE ss[k]]
    BY <1>1, <1>3
  <2>3. ShownPositions(Append(ps, h)) = [k \in 1..(Len(ps) + 1) |-> ShownPosition(Append(ps, h)[k])]
    BY <2>1 DEF ShownPositions
  <2> QED BY <1>1, <1>3, <1>11, <2>1, <2>2, <2>3
<1>12. i # 0 => ApplyFill(ss[i], f) = ShownPosition(ApplyFill(ps[i], e))
  <2> SUFFICES ASSUME i # 0 PROVE ApplyFill(ss[i], f) = ShownPosition(ApplyFill(ps[i], e))
    OBVIOUS
  <2>1. i \in 1..Len(ps) /\ ps[i] \in Position
    BY <1>1, <1>5
  <2>2. ss[i] = ShownPosition(ps[i])
    BY <1>3, <2>1
  <2> QED BY <2>1, <2>2, ShownFill
<1> HIDE DEF f
<1>13. CASE ~IsFill(e)
  BY <1>8, <1>9, <1>13 DEF ss, f
<1>14. CASE IsFill(e) /\ i # 0
  <2>1. /\ BookPosition(ps, e) = [ps EXCEPT ![i] = ApplyFill(ps[i], e)]
        /\ BookPosition(ss, f) = [ss EXCEPT ![i] = ApplyFill(ss[i], f)]
    BY <1>8, <1>9, <1>14, Zenon
  <2>2. ShownPositions([ps EXCEPT ![i] = ApplyFill(ps[i], e)]) = [ss EXCEPT ![i] = ApplyFill(ss[i], f)]
    BY <1>10, <1>12, <1>14
  <2> QED BY <2>1, <2>2 DEF ss, f
<1>15. CASE IsFill(e) /\ i = 0
  BY <1>7, <1>8, <1>9, <1>11, <1>15, Zenon DEF ss, f
<1> QED BY <1>13, <1>14, <1>15
-----------------------------------------------------------------------------
(* One slot for a symbol. *)
OneSlotEach(ps) == \A i, j \in 1..Len(ps) : ps[i].symbol = ps[j].symbol => i = j

(* With a slot for every symbol there is, a fill always finds one. *)
LEMMA RoomForSymbol ==
  ASSUME NEW ps \in PositionTable, OneSlotEach(ps), NEW sym \in Symbols,
         IsFiniteSet(Symbols), Cardinality(Symbols) <= MaxSymbols,
         FindPosition(ps, sym) = 0
  PROVE  ~(Len(ps) >= MaxSymbols)
<1> DEFINE n == Len(ps) + 1
           f == [i \in 1..n |-> IF i = n THEN sym ELSE ps[i].symbol]
<1>1. ps \in Seq(Position) /\ Len(ps) \in Nat /\ n \in Nat /\ MaxSymbols \in Nat
  BY MaxSymbolsAssumption DEF PositionTable
<1>2. \A i \in 1..Len(ps) : ps[i].symbol # sym /\ ps[i].symbol \in Symbols
  <2>1. \A i \in 1..Len(ps) : ps[i].symbol # sym
    BY <1>1, FindPositionProps
  <2>2. \A i \in 1..Len(ps) : ps[i] \in Position
    BY <1>1
  <2> QED BY <2>1, <2>2 DEF Position
<1>3. f \in [1..n -> Symbols]
  BY <1>1, <1>2
<1>4. IsInjective(f)
  <2> SUFFICES ASSUME NEW i \in 1..n, NEW j \in 1..n, f[i] = f[j] PROVE i = j
    BY <1>3 DEF IsInjective
  <2>1. CASE i \in 1..Len(ps) /\ j \in 1..Len(ps)
    BY <1>1, <2>1 DEF OneSlotEach
  <2>2. CASE i \notin 1..Len(ps) \/ j \notin 1..Len(ps)
    BY <1>1, <1>2, <2>2
  <2> QED BY <2>1, <2>2
<1>5. f \in Injection(1..n, Symbols)
  BY <1>3, <1>4 DEF Injection
<1> HIDE DEF f
<1>6. Cardinality(1..n) <= Cardinality(Symbols)
  BY <1>5, FS_Injection
<1>7. Cardinality(1..n) = n
  BY <1>1, FS_Interval
<1>8. Cardinality(Symbols) \in Nat
  BY FS_CardinalityType
<1> QED BY <1>1, <1>6, <1>7, <1>8

(* A fill keeps one slot for a symbol, and moves the slot of its own. *)
LEMMA BookPositionSlots ==
  ASSUME NEW ps \in PositionTable, OneSlotEach(ps), NEW e \in FillEvents
  PROVE  LET qs == BookPosition(ps, e)
             i == FindPosition(ps, e.symbol)
         IN  /\ OneSlotEach(qs)
             /\ IsFill(e) /\ i # 0 =>
                  qs = [ps EXCEPT ![i] = ApplyFill(ps[i], e)] /\ i \in 1..Len(ps)
             /\ IsFill(e) /\ i = 0 /\ ~(Len(ps) >= MaxSymbols) =>
                  qs = Append(ps, ApplyFill(ZeroPosition(e.symbol), e))
             /\ ~IsFill(e) => qs = ps
<1> DEFINE qs == BookPosition(ps, e)
           i == FindPosition(ps, e.symbol)
           z == ApplyFill(ZeroPosition(e.symbol), e)
<1>1. ps \in Seq(Position) /\ Len(ps) \in Nat
  BY DEF PositionTable
<1>2. /\ i \in 0..Len(ps)
      /\ i # 0 => ps[i].symbol = e.symbol
      /\ i = 0 => \A k \in 1..Len(ps) : ps[k].symbol # e.symbol
  BY <1>1, FindPositionProps
<1>3. qs = IF ~IsFill(e) THEN ps
           ELSE IF i # 0 THEN [ps EXCEPT ![i] = ApplyFill(ps[i], e)]
           ELSE IF Len(ps) >= MaxSymbols THEN ps ELSE Append(ps, z)
  BY DEF BookPosition
<1>4. z.symbol = e.symbol
  <2>1. e.symbol \in Symbols
    BY DEF FillEvents, Events
  <2> QED BY <2>1, ZeroPositionType, FillMoves
<1> HIDE DEF i, z, qs
<1>5. OneSlotEach(qs)
  <2>1. CASE qs = ps
    BY <2>1
  <2>2. CASE IsFill(e) /\ i # 0
    <3> DEFINE h == ApplyFill(ps[i], e)
    <3>1. i \in 1..Len(ps) /\ ps[i] \in Position
      BY <1>1, <1>2, <2>2
    <3>2. h.symbol = ps[i].symbol
      BY <3>1, FillMoves
    <3>3. qs = [ps EXCEPT ![i] = h]
      BY <1>3, <2>2
    <3> HIDE DEF h
    <3>4. Len(qs) = Len(ps) /\ \A k \in 1..Len(ps) : qs[k].symbol = ps[k].symbol
      BY <1>1, <3>1, <3>2, <3>3
    <3> QED BY <3>4 DEF OneSlotEach
  <2>3. CASE i = 0 /\ qs = Append(ps, z)
    <3>1. Len(qs) = Len(ps) + 1 /\ qs[Len(ps) + 1] = z /\ \A k \in 1..Len(ps) : qs[k] = ps[k]
      BY <1>1, <2>3
    <3> SUFFICES ASSUME NEW a \in 1..Len(qs), NEW b \in 1..Len(qs), qs[a].symbol = qs[b].symbol
                 PROVE  a = b
      BY DEF OneSlotEach
    <3>2. (a \in 1..Len(ps) \/ a = Len(ps) + 1) /\ (b \in 1..Len(ps) \/ b = Len(ps) + 1)
      BY <1>1, <3>1
    <3> QED BY <1>2, <1>4, <2>3, <3>1, <3>2 DEF OneSlotEach
  <2> QED BY <1>3, <2>1, <2>2, <2>3
<1>6. i # 0 => i \in 1..Len(ps)
  BY <1>1, <1>2
<1> QED BY <1>3, <1>5, <1>6 DEF i, z, qs
=============================================================================
