--------------------------- MODULE PositionTracker ---------------------------
(***************************************************************************)
(* Per-symbol positions projected from the fills of the event stream       *)
(* (include/PositionTracker.h).  positions is slots_[0 .. count_-1]: a     *)
(* slot is taken on the first fill of a symbol and never given back.       *)
(***************************************************************************)
EXTENDS OrderEvent, SequencesExt

CONSTANT MaxSymbols     \* MAX_SYMBOLS, the capacity of slots_

ASSUME MaxSymbolsAssumption == MaxSymbols \in Nat

VARIABLE positions

Position ==
  [ symbol           : Symbols,
    net_qty          : Int,
    avg_entry_price  : Int,
    realized_pnl     : Int,
    unrealized_pnl   : Int,
    total_buy_qty    : Int,
    total_sell_qty   : Int,
    last_price       : Int,
    last_updated_seq : Nat ]

ZeroPosition(sym) ==
  [ symbol           |-> sym,
    net_qty          |-> 0,
    avg_entry_price  |-> 0,
    realized_pnl     |-> 0,
    unrealized_pnl   |-> 0,
    total_buy_qty    |-> 0,
    total_sell_qty   |-> 0,
    last_price       |-> 0,
    last_updated_seq |-> 0 ]

IsFlat(p) == p.net_qty = 0

(* Index of the slot that holds sym, 0 for the nullptr of find(). *)
FindPosition(ps, sym) == SelectInSeq(ps, LAMBDA p : p.symbol = sym)

(* Mutant of RefreshUnrealized: fills leave the last mark in place. *)
RefreshUnrealizedNever(p) == p

RefreshUnrealized(p) ==
  [ p EXCEPT !.unrealized_pnl =
      IF p.last_price > 0 /\ p.net_qty # 0
      THEN (p.last_price - p.avg_entry_price) * p.net_qty
      ELSE 0 ]

-----------------------------------------------------------------------------
(* Mutant of Averaged: divides by the quantity held before the fill. *)
AveragedOverHeld(avg, held, price, qty) ==
  IF held > 0 THEN CDiv(avg * held + price * qty, held) ELSE price

(* A fill on the side the position already has, or on a flat one: the      *)
(* weighted average of the two costs, truncated.                           *)
Averaged(avg, held, price, qty) ==
  IF held + qty > 0 THEN CDiv(avg * held + price * qty, held + qty) ELSE 0

(* Mutant of AfterReducing: no reset of the entry price of a flat position. *)
AfterReducingKeeps(avg, net, price, crossed) == IF crossed THEN price ELSE avg

(* The entry price once a fill at `price' has reduced a position held at   *)
(* avg to `net': a new position, nothing, or what is left of the old one.  *)
AfterReducing(avg, net, price, crossed) ==
  IF crossed THEN price ELSE IF net = 0 THEN 0 ELSE avg

(* Mutant of ApplyBuy: what a buy has left after covering a short is lost. *)
ApplyBuyDropsExcess(p, qty, price, seq) ==
  LET bought == IF p.net_qty < 0 /\ qty > -p.net_qty THEN -p.net_qty ELSE qty
      net    == p.net_qty + bought
  IN  RefreshUnrealized(
        [ p EXCEPT
            !.total_buy_qty    = @ + bought,
            !.net_qty          = net,
            !.avg_entry_price  = IF p.net_qty >= 0
                                 THEN Averaged(@, p.net_qty, price, qty)
                                 ELSE AfterReducing(@, net, price, FALSE),
            !.realized_pnl     = IF p.net_qty >= 0
                                 THEN @
                                 ELSE @ + (p.avg_entry_price - price) * bought,
            !.last_updated_seq = seq ])

ApplyBuy(p, qty, price, seq) ==
  LET net   == p.net_qty + qty
      cover == IF qty <= -p.net_qty THEN qty ELSE -p.net_qty
  IN  RefreshUnrealized(
        [ p EXCEPT
            !.total_buy_qty    = @ + qty,
            !.net_qty          = net,
            !.avg_entry_price  = IF p.net_qty >= 0
                                 THEN Averaged(@, p.net_qty, price, qty)
                                 ELSE AfterReducing(@, net, price, net > 0),
            !.realized_pnl     = IF p.net_qty >= 0
                                 THEN @
                                 ELSE @ + (p.avg_entry_price - price) * cover,
            !.last_updated_seq = seq ])

(* Mutant of ApplySell: realises PnL on the whole fill, not on what it closes. *)
ApplySellUnclamped(p, qty, price, seq) ==
  LET net == p.net_qty - qty
  IN  RefreshUnrealized(
        [ p EXCEPT
            !.total_sell_qty   = @ + qty,
            !.net_qty          = net,
            !.avg_entry_price  = IF p.net_qty > 0
                                 THEN AfterReducing(@, net, price, net < 0)
                                 ELSE Averaged(@, -p.net_qty, price, qty),
            !.realized_pnl     = IF p.net_qty > 0
                                 THEN @ + (price - p.avg_entry_price) * qty
                                 ELSE @,
            !.last_updated_seq = seq ])

ApplySell(p, qty, price, seq) ==
  LET net   == p.net_qty - qty
      close == IF qty <= p.net_qty THEN qty ELSE p.net_qty
  IN  RefreshUnrealized(
        [ p EXCEPT
            !.total_sell_qty   = @ + qty,
            !.net_qty          = net,
            !.avg_entry_price  = IF p.net_qty > 0
                                 THEN AfterReducing(@, net, price, net < 0)
                                 ELSE Averaged(@, -p.net_qty, price, qty),
            !.realized_pnl     = IF p.net_qty > 0
                                 THEN @ + (price - p.avg_entry_price) * close
                                 ELSE @,
            !.last_updated_seq = seq ])

ApplyFill(p, e) ==
  IF e.side = "Buy"
  THEN ApplyBuy(p, e.fill_qty, e.fill_price, e.sequence)
  ELSE ApplySell(p, e.fill_qty, e.fill_price, e.sequence)

(* Mutant of BookPosition: the capacity test is off by one. *)
BookPositionOverrun(ps, e) ==
  LET i == FindPosition(ps, e.symbol)
  IN  IF ~IsFill(e) THEN ps
      ELSE IF i # 0 THEN [ps EXCEPT ![i] = ApplyFill(@, e)]
      ELSE IF Len(ps) > MaxSymbols THEN ps
      ELSE Append(ps, ApplyFill(ZeroPosition(e.symbol), e))

(* apply_event() as a function of the slots: a fill of a symbol that finds *)
(* no slot and no free one is dropped.                                     *)
BookPosition(ps, e) ==
  LET i == FindPosition(ps, e.symbol)
  IN  IF ~IsFill(e) THEN ps
      ELSE IF i # 0 THEN [ps EXCEPT ![i] = ApplyFill(@, e)]
      ELSE IF Len(ps) >= MaxSymbols THEN ps
      ELSE Append(ps, ApplyFill(ZeroPosition(e.symbol), e))

(* replay_from(): clear the slots, then apply every event of the log. *)
ReplayPositions(log) == FoldLeft(BookPosition, << >>, log)

-----------------------------------------------------------------------------
InitPositions == positions = << >>

ApplyEvent(e) == positions' = BookPosition(positions, e)

MarkToMarket(sym, px) ==
  LET i == FindPosition(positions, sym)
  IN  /\ i # 0
      /\ ~IsFlat(positions[i])
      /\ positions' = [ positions EXCEPT
                          ![i].last_price     = px,
                          ![i].unrealized_pnl =
                             (px - positions[i].avg_entry_price)
                               * positions[i].net_qty ]
=============================================================================
