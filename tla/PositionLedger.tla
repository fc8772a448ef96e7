--------------------------- MODULE PositionLedger ---------------------------
(***************************************************************************)
(* The PositionTracker fed with every possible stream of fills and market  *)
(* ticks, next to the ledger a broker would keep of the same fills: shares *)
(* held, cash paid and received, prices traded.  The ledger is a history   *)
(* variable; what the tracker reports must reconcile with it.              *)
(***************************************************************************)
EXTENDS PositionTracker

CONSTANT MaxFills     \* bound on the fills of a behaviour

ASSUME MaxFillsAssumption == MaxFills \in Nat

VARIABLES
  ledger,   \* ledger[sym]: the broker's statement of the symbol
  fills     \* how many fills have been delivered

vars == <<positions, ledger, fills>>

(* slack is the rounding allowance: an averaging fill that leaves a        *)
(* position of n shares may lose up to n-1 price ticks of cost.            *)
Statement == [ net : Int, cash : Int, slack : Nat, traded : SUBSET Prices ]

Abs(n) == IF n < 0 THEN -n ELSE n

(* A fill that opens or extends a position, the only kind that averages. *)
Extends(net, side) == (side = "Buy" /\ net >= 0) \/ (side = "Sell" /\ net <= 0)

Settled(st, e) ==
  LET net == st.net + Signed(e.side, e.fill_qty)
  IN  [ net    |-> net,
        cash   |-> st.cash - Signed(e.side, e.fill_qty) * e.fill_price,
        slack  |-> IF Extends(st.net, e.side) /\ net # 0
                   THEN st.slack + (Abs(net) - 1) ELSE st.slack,
        traded |-> IF e.fill_qty > 0 THEN st.traded \cup {e.fill_price}
                                     ELSE st.traded ]

Tracked(sym) == \E i \in 1..Len(positions) : positions[i].symbol = sym

-----------------------------------------------------------------------------
Init ==
  /\ InitPositions
  /\ ledger = [ s \in Symbols |->
                  [net |-> 0, cash |-> 0, slack |-> 0, traded |-> {}] ]
  /\ fills = 0

Fill(sym, side, qty, px, oid) ==
  LET e == MakeFill(sym, side, qty, px, oid, FALSE)
  IN  /\ fills < MaxFills
      /\ fills' = fills + 1
      /\ ApplyEvent(e)
      /\ ledger' = [ledger EXCEPT ![sym] = Settled(@, e)]

(* Every event type that is not a fill goes through apply_event() too. *)
OtherEvent(sym, side, qty, px, oid) ==
  /\ ApplyEvent(MakeNewOrder(sym, side, qty, px, oid))
  /\ UNCHANGED <<ledger, fills>>

Tick(sym, px) ==
  /\ MarkToMarket(sym, px)
  /\ UNCHANGED <<ledger, fills>>

Next ==
  \/ \E sym \in Symbols, side \in Sides, qty \in Quantities,
        px \in Prices, oid \in OrderIds :
       \/ Fill(sym, side, qty, px, oid)
       \/ OtherEvent(sym, side, qty, px, oid)
  \/ \E sym \in Symbols, px \in Prices : Tick(sym, px)

Spec == Init /\ [][Next]_vars

-----------------------------------------------------------------------------
TypeOK ==
  /\ positions \in Seq(Position)
  /\ Len(positions) <= MaxSymbols
  /\ ledger \in [Symbols -> Statement]
  /\ fills \in Nat

(* Position p reconciles with the statement st up to the truncation of     *)
(* the average entry price.                                                *)
Reconciles(p, st) ==
  Abs(p.realized_pnl - st.cash - p.net_qty * p.avg_entry_price) <= st.slack

(* A position holds exactly the shares of the broker's statement and has   *)
(* the buys and sells that add up to it; a symbol has at most one slot; a  *)
(* symbol whose fills were dropped is one that found the table full.       *)
FillsAccounted ==
  /\ \A i \in 1..Len(positions) :
       /\ positions[i].net_qty = ledger[positions[i].symbol].net
       /\ positions[i].net_qty =
            positions[i].total_buy_qty - positions[i].total_sell_qty
  /\ \A i, j \in 1..Len(positions) :
       positions[i].symbol = positions[j].symbol => i = j
  /\ \A s \in Symbols :
       ~Tracked(s) /\ Len(positions) < MaxSymbols =>
         ledger[s].net = 0 /\ ledger[s].cash = 0

(* Realised PnL plus the book value of what is still held equals the cash  *)
(* that changed hands, up to the truncation of the average entry price.    *)
RoundingBounded ==
  \A i \in 1..Len(positions) :
    Reconciles(positions[i], ledger[positions[i].symbol])

(* A position that fills brought to zero keeps neither an entry price nor  *)
(* an unrealised PnL, whatever sequence of opens, covers and crosses led   *)
(* there.  Its last_price is kept, and values the next position of the     *)
(* symbol until a tick comes.                                              *)
FlatIsClean ==
  \A i \in 1..Len(positions) :
    IsFlat(positions[i]) => /\ positions[i].avg_entry_price = 0
                            /\ positions[i].unrealized_pnl = 0

(* Between two ticks, fills keep unrealized_pnl at the value the last      *)
(* market price gives to what is held now, however it was acquired.        *)
UnrealizedInSync ==
  \A i \in 1..Len(positions) :
    positions[i].last_price > 0 =>
      positions[i].unrealized_pnl =
        (positions[i].last_price - positions[i].avg_entry_price)
          * positions[i].net_qty

(* The entry price of an open position lies between prices the symbol      *)
(* really traded at: averaging, crossing and truncation never leave that   *)
(* range.                                                                  *)
AvgWithinTraded ==
  \A i \in 1..Len(positions) :
    ~IsFlat(positions[i]) =>
      \E lo, hi \in ledger[positions[i].symbol].traded :
        /\ lo <= positions[i].avg_entry_price
        /\ positions[i].avg_entry_price <= hi
=============================================================================
