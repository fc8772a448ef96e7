----------------------------- MODULE RiskChecker -----------------------------
(***************************************************************************)
(* The pre-trade checks (include/RiskChecker.h).  send_order() makes the   *)
(* one that takes the tracker and the order manager.  It reads the         *)
(* position, then the open exposure, then the position again for its       *)
(* realised PnL; other threads may write in between, so the operator takes *)
(* what was read.  The other overloads look at the position alone.         *)
(***************************************************************************)
EXTENDS PositionTracker, OrderManager

CONSTANTS              \* RiskLimits
  MaxOrderQty, MaxOrderNotional, MaxNetPosition, MaxLoss, AllowPositionCross

ASSUME LimitsAssumption ==
  /\ {MaxOrderQty, MaxOrderNotional, MaxNetPosition, MaxLoss} \subseteq Nat
  /\ AllowPositionCross \in BOOLEAN

(* The result of tracker.get(): no position, or one. *)
GetPosition(ps, sym) == { ps[i] : i \in { j \in 1..Len(ps) : ps[j].symbol = sym } }

NetQty(pos) == IF pos = {} THEN 0 ELSE (CHOOSE p \in pos : TRUE).net_qty

(* check(): filled_qty is the net_qty that was read, pending_qty the open  *)
(* exposure, pos the position at the time its PnL is read.                 *)
Check(side, qty, px, filled_qty, pending_qty, pos) ==
  LET true_qty  == filled_qty + pending_qty
      projected == true_qty + Signed(side, qty)
      crosses   == (true_qty > 0 /\ projected < 0) \/ (true_qty < 0 /\ projected > 0)
  IN  IF qty > MaxOrderQty THEN "FailMaxQty"
      ELSE IF qty * px > MaxOrderNotional THEN "FailMaxNotional"
      ELSE IF projected > MaxNetPosition \/ projected < -MaxNetPosition
           THEN "FailPositionLimit"
      ELSE IF ~AllowPositionCross /\ crosses THEN "FailPositionCross"
      ELSE IF \E p \in pos : p.realized_pnl < -MaxLoss THEN "FailMaxLoss"
      ELSE "Pass"

(* Mutant of CheckPosition: a short position has no limit. *)
CheckPositionLongOnly(side, qty, px, pos) ==
  IF qty > MaxOrderQty THEN "FailMaxQty"
  ELSE IF qty * px > MaxOrderNotional THEN "FailMaxNotional"
  ELSE IF \E p \in pos : p.net_qty + Signed(side, qty) > MaxNetPosition THEN "FailPositionLimit"
  ELSE "Pass"

(* check() with a Position or the tracker: without a position nothing but  *)
(* the size of the order is tested, not even the position limit.           *)
CheckPosition(side, qty, px, pos) ==
  LET Projected(p) == p.net_qty + Signed(side, qty)
      Crosses(p)   == \/ p.net_qty > 0 /\ Projected(p) < 0
                      \/ p.net_qty < 0 /\ Projected(p) > 0
  IN  IF qty > MaxOrderQty THEN "FailMaxQty"
      ELSE IF qty * px > MaxOrderNotional THEN "FailMaxNotional"
      ELSE IF \E p \in pos : Projected(p) > MaxNetPosition \/ Projected(p) < -MaxNetPosition
           THEN "FailPositionLimit"
      ELSE IF ~AllowPositionCross /\ \E p \in pos : Crosses(p) THEN "FailPositionCross"
      ELSE IF \E p \in pos : p.realized_pnl < -MaxLoss THEN "FailMaxLoss"
      ELSE "Pass"
=============================================================================
