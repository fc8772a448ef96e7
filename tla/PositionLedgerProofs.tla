------------------------ MODULE PositionLedgerProofs ------------------------
(***************************************************************************)
(* PositionLedger proved for every set of symbols, prices and quantities,  *)
(* every table capacity and every number of fills.                         *)
(***************************************************************************)
EXTENDS PositionLedger, PositionLemmas

(* Truncating division loses less than one unit of the divisor. *)
LEMMA CDivBound ==
  ASSUME NEW a \in Int, NEW b \in Nat \ {0}
  PROVE  /\ CDiv(a, b) \in Int
         /\ Abs(a - b * CDiv(a, b)) <= b - 1
<1>1. CASE a >= 0
  BY <1>1, DivBound DEF CDiv, Abs
<1>2. CASE a < 0
  <2>1. -a \in Nat BY <1>2
  <2> DEFINE q == (-a) \div b
  <2>2. /\ q \in Nat
        /\ b * q <= -a
        /\ (-a) - b * q <= b - 1
    BY <2>1, DivBound
  <2>3. CDiv(a, b) = -q
    BY <1>2 DEF CDiv
  <2>4. b * (-q) = -(b * q)
    BY <2>2
  <2> QED BY <2>2, <2>3, <2>4 DEF Abs
<1> QED BY <1>1, <1>2

-----------------------------------------------------------------------------
(* An averaging fill keeps the cost of the position up to the truncation. *)
LEMMA AveragedBound ==
  ASSUME NEW avg \in Int, NEW held \in Nat, NEW price \in Int, NEW qty \in Nat
  PROVE  /\ Averaged(avg, held, price, qty) \in Int
         /\ held + qty # 0 =>
              Abs(avg * held + price * qty
                   - (held + qty) * Averaged(avg, held, price, qty))
                <= held + qty - 1
<1>1. CASE held + qty > 0
  <2> DEFINE c == avg * held + price * qty
  <2>1. c \in Int /\ held + qty \in Nat \ {0}
    BY <1>1
  <2>2. Averaged(avg, held, price, qty) = CDiv(c, held + qty)
    BY <1>1 DEF Averaged
  <2> HIDE DEF c
  <2>3. /\ CDiv(c, held + qty) \in Int
        /\ Abs(c - (held + qty) * CDiv(c, held + qty)) <= held + qty - 1
    BY <2>1, CDivBound
  <2> QED BY <2>2, <2>3 DEF c
<1>2. CASE held + qty = 0
  BY <1>2 DEF Averaged
<1> QED BY <1>1, <1>2

-----------------------------------------------------------------------------
(* Realised PnL - cash - book value changes by the remainder of the        *)
(* division when a fill averages.                                          *)
LEMMA BuyAverages ==
  ASSUME NEW R \in Int, NEW C \in Int, NEW n \in Int, NEW avg \in Int, NEW new \in Int,
         NEW q \in Nat, NEW price \in Int, NEW slack \in Nat,
         Abs(R - C - n * avg) <= slack,
         Abs(avg * n + price * q - (n + q) * new) <= n + q - 1
  PROVE  Abs(R - (C - q * price) - (n + q) * new) <= slack + (n + q - 1)
<1> DEFINE X == n * avg   Y == q * price   Z == (n + q) * new
<1>1. X \in Int /\ Y \in Int /\ Z \in Int
  OBVIOUS
<1>2. avg * n = X /\ price * q = Y
  OBVIOUS
<1> HIDE DEF X, Y, Z
<1>3. /\ Abs(R - C - X) <= slack
      /\ Abs(X + Y - Z) <= n + q - 1
  BY <1>2 DEF X, Y, Z
<1>4. Abs(R - (C - Y) - Z) <= slack + (n + q - 1)
  BY <1>1, <1>3 DEF Abs
<1> QED BY <1>4 DEF Y, Z

(* The same for a sell. *)
LEMMA SellAverages ==
  ASSUME NEW R \in Int, NEW C \in Int, NEW n \in Int, NEW avg \in Int, NEW new \in Int,
         NEW q \in Nat, NEW price \in Int, NEW slack \in Nat,
         Abs(R - C - n * avg) <= slack,
         Abs(avg * (-n) + price * q - ((-n) + q) * new) <= (-n) + q - 1
  PROVE  Abs(R - (C - (-q) * price) - (n - q) * new) <= slack + ((-n) + q - 1)
<1> DEFINE X == n * avg   Y == q * price   Z == (n - q) * new
<1>1. X \in Int /\ Y \in Int /\ Z \in Int
  OBVIOUS
<1>2. /\ avg * (-n) = -X
      /\ price * q = Y
      /\ (-q) * price = -Y
      /\ ((-n) + q) * new = -Z
  OBVIOUS
<1> HIDE DEF X, Y, Z
<1>3. /\ Abs(R - C - X) <= slack
      /\ Abs((-X) + Y - (-Z)) <= (-n) + q - 1
  BY <1>2 DEF X
<1>4. Abs(R - (C - (-Y)) - Z) <= slack + ((-n) + q - 1)
  BY <1>1, <1>3 DEF Abs
<1> QED BY <1>2, <1>4 DEF Z

-----------------------------------------------------------------------------
(* A quotient lies between the bounds its numerator gives it. *)
LEMMA CDivRange ==
  ASSUME NEW c \in Int, NEW n \in Nat \ {0}, NEW lo \in Int, NEW hi \in Int,
         n * lo <= c, c <= n * hi
  PROVE  lo <= CDiv(c, n) /\ CDiv(c, n) <= hi
<1> DEFINE k == CDiv(c, n)
<1>1. k \in Int /\ Abs(c - n * k) <= n - 1
  BY CDivBound
<1> HIDE DEF k
<1>2. n * k \in Int /\ n * lo \in Int /\ n * hi \in Int
  BY <1>1
<1>3. n * lo <= n * k + n - 1 /\ n * k <= n * hi + n - 1
  BY <1>1, <1>2 DEF Abs
<1>4. lo <= k /\ k <= hi
  BY <1>1, <1>3, ProductOrder
<1> QED BY <1>4 DEF k

(* The average lies between the prices it averages. *)
LEMMA AveragedRange ==
  ASSUME NEW avg \in Int, NEW held \in Nat, NEW price \in Int, NEW qty \in Nat,
         NEW lo \in Int, NEW hi \in Int, held + qty > 0,
         held > 0 => lo <= avg /\ avg <= hi,
         qty > 0 => lo <= price /\ price <= hi
  PROVE  /\ lo <= Averaged(avg, held, price, qty)
         /\ Averaged(avg, held, price, qty) <= hi
<1>1. /\ held * lo <= avg * held /\ avg * held <= held * hi
      /\ held * lo \in Int /\ avg * held \in Int /\ held * hi \in Int
  <2>1. CASE held = 0
    BY <2>1
  <2>2. CASE held > 0
    <3>1. held * lo <= held * avg /\ held * avg <= held * hi
      BY <2>2, ProductOrder
    <3> QED BY <3>1
  <2> QED BY <2>1, <2>2
<1>2. /\ qty * lo <= price * qty /\ price * qty <= qty * hi
      /\ qty * lo \in Int /\ price * qty \in Int /\ qty * hi \in Int
  <2>1. CASE qty = 0
    BY <2>1
  <2>2. CASE qty > 0
    <3>1. qty * lo <= qty * price /\ qty * price <= qty * hi
      BY <2>2, ProductOrder
    <3> QED BY <3>1
  <2> QED BY <2>1, <2>2
<1> DEFINE c == avg * held + price * qty
<1>3. c \in Int /\ held + qty \in Nat \ {0}
  OBVIOUS
<1>4. (held + qty) * lo = held * lo + qty * lo /\ (held + qty) * hi = held * hi + qty * hi
  OBVIOUS
<1>5. (held + qty) * lo <= c /\ c <= (held + qty) * hi
  BY <1>1, <1>2, <1>4
<1>6. Averaged(avg, held, price, qty) = CDiv(c, held + qty)
  BY DEF Averaged
<1> HIDE DEF c
<1> QED BY <1>3, <1>5, <1>6, CDivRange

-----------------------------------------------------------------------------
(* The part of the inductive invariant that concerns one slot. *)
SlotOK(p, st) ==
  /\ p.net_qty = st.net
  /\ p.net_qty = p.total_buy_qty - p.total_sell_qty
  /\ Reconciles(p, st)
  /\ IsFlat(p) => p.avg_entry_price = 0 /\ p.unrealized_pnl = 0
  /\ p.last_price > 0 =>
       p.unrealized_pnl = (p.last_price - p.avg_entry_price) * p.net_qty
  /\ ~IsFlat(p) => \E lo, hi \in st.traded :
                     lo <= p.avg_entry_price /\ p.avg_entry_price <= hi

(* The statement t that a fill of position p leaves after st, by side. *)
BuySettled(p, st, t, qty, price) ==
  /\ t.net = p.net_qty + qty
  /\ t.cash = st.cash - qty * price
  /\ t.slack = IF p.net_qty >= 0 /\ p.net_qty + qty # 0
               THEN st.slack + (Abs(p.net_qty + qty) - 1) ELSE st.slack
  /\ t.traded = IF qty > 0 THEN st.traded \cup {price} ELSE st.traded

SellSettled(p, st, t, qty, price) ==
  /\ t.net = p.net_qty - qty
  /\ t.cash = st.cash - (-qty) * price
  /\ t.slack = IF p.net_qty <= 0 /\ p.net_qty - qty # 0
               THEN st.slack + (Abs(p.net_qty - qty) - 1) ELSE st.slack
  /\ t.traded = IF qty > 0 THEN st.traded \cup {price} ELSE st.traded

(* apply_buy() and apply_sell() against the same fill in the ledger: one   *)
(* case for the fill that averages, one for the fill that reduces.         *)
LEMMA BuyKeepsSlot ==
  ASSUME NEW p \in Position, NEW st \in Statement, NEW qty \in Nat, NEW price \in Prices,
         NEW seq \in Nat, NEW t \in Statement, SlotOK(p, st),
         BuySettled(p, st, t, qty, price)
  PROVE  SlotOK(ApplyBuy(p, qty, price, seq), t)
<1> DEFINE r == ApplyBuy(p, qty, price, seq)
           n == p.net_qty   avg == p.avg_entry_price   R == p.realized_pnl
<1>1. /\ n \in Int /\ avg \in Int /\ R \in Int /\ price \in Int
      /\ p.total_buy_qty \in Int /\ p.total_sell_qty \in Int
      /\ st.cash \in Int /\ st.slack \in Nat /\ st.traded \subseteq Int
      /\ t.traded \subseteq Int
  BY PricesAssumption DEF Position, Statement
<1>2. /\ r \in Position
      /\ r.net_qty = n + qty
      /\ r.net_qty = r.total_buy_qty - r.total_sell_qty
      /\ r.net_qty = 0 => r.unrealized_pnl = 0
      /\ r.last_price > 0 =>
           r.unrealized_pnl = (r.last_price - r.avg_entry_price) * r.net_qty
  BY <1>1, BuyFields DEF SlotOK
<1>f. /\ r.avg_entry_price = IF n >= 0 THEN Averaged(avg, n, price, qty) ELSE AfterReducing(avg, n + qty, price, n + qty > 0)
      /\ r.realized_pnl = IF n >= 0 THEN R ELSE R + (avg - price) * (IF qty <= -n THEN qty ELSE -n)
  BY <1>1, BuyFields, SMTT(30)
<1> HIDE DEF r
<1>3. n >= 0 => /\ r.avg_entry_price = Averaged(avg, n, price, qty)
                /\ r.realized_pnl = R
  BY <1>1, <1>f
<1>4. n < 0 => /\ r.avg_entry_price = AfterReducing(avg, n + qty, price, n + qty > 0)
               /\ r.realized_pnl = R + (avg - price) * (IF qty <= -n THEN qty ELSE -n)
  BY <1>1, <1>f
<1>5. Abs(R - st.cash - n * avg) <= st.slack
  BY DEF SlotOK, Reconciles
<1>6. n # 0 => \E lo, hi \in st.traded : lo <= avg /\ avg <= hi
  BY DEF SlotOK, IsFlat
<1>7. n = 0 => avg = 0
  BY DEF SlotOK, IsFlat
<1>t. /\ t.net = n + qty
      /\ t.cash = st.cash - qty * price
      /\ t.slack = IF n >= 0 /\ n + qty # 0 THEN st.slack + (Abs(n + qty) - 1) ELSE st.slack
      /\ t.traded = IF qty > 0 THEN st.traded \cup {price} ELSE st.traded
  BY DEF BuySettled
<1> HIDE DEF r, n, avg, R
<1>8. r.avg_entry_price \in Int
  BY <1>2 DEF Position
<1>9. CASE n >= 0 /\ n + qty = 0
  <2>1. n = 0 /\ qty = 0
    BY <1>1, <1>9
  <2>2. r.avg_entry_price = 0
    BY <1>3, <1>9, <2>1, <1>1 DEF Averaged
  <2>3. Reconciles(r, t)
    <3>1. t.cash = st.cash /\ t.slack = st.slack
      BY <1>1, <1>9, <1>t, <2>1
    <3>2. n * avg = 0 /\ r.net_qty * r.avg_entry_price = 0 /\ r.realized_pnl = R
      BY <1>1, <1>2, <1>3, <1>9, <2>1, <2>2
    <3> QED BY <1>5, <3>1, <3>2 DEF Reconciles
  <2> QED BY <1>2, <1>9, <1>t, <2>2, <2>3 DEF SlotOK, IsFlat, r
<1>10. CASE n >= 0 /\ n + qty # 0
  <2>1. n \in Nat /\ n + qty \in Nat \ {0} /\ Abs(n + qty) = n + qty
    BY <1>1, <1>10 DEF Abs
  <2>2. Abs(avg * n + price * qty - (n + qty) * r.avg_entry_price) <= n + qty - 1
    BY <1>1, <1>3, <1>10, <2>1, AveragedBound
  <2>3. Reconciles(r, t)
    <3>1. Abs(R - (st.cash - qty * price) - (n + qty) * r.avg_entry_price) <= st.slack + (n + qty - 1)
      BY <1>1, <1>5, <1>8, <2>2, BuyAverages, Zenon
    <3>2. t.slack = st.slack + (n + qty - 1)
      BY <1>10, <1>t, <2>1
    <3> QED BY <1>2, <1>3, <1>10, <1>t, <3>1, <3>2 DEF Reconciles
  <2>4. \E lo, hi \in t.traded : lo <= r.avg_entry_price /\ r.avg_entry_price <= hi
    <3>1. ASSUME NEW lo \in t.traded, NEW hi \in t.traded,
                 n # 0 => lo <= avg /\ avg <= hi,
                 qty > 0 => lo <= price /\ price <= hi
          PROVE  lo <= r.avg_entry_price /\ r.avg_entry_price <= hi
      <4>1. n > 0 => lo <= avg /\ avg <= hi
        BY <1>1, <3>1
      <4>2. lo \in Int /\ hi \in Int
        BY <1>1
      <4>3. n + qty > 0
        BY <2>1
      <4>4. /\ lo <= Averaged(avg, n, price, qty)
            /\ Averaged(avg, n, price, qty) <= hi
        BY <1>1, <2>1, <3>1, <4>1, <4>2, <4>3, AveragedRange, Zenon
      <4> QED BY <1>3, <1>10, <4>4, Zenon
    <3>2. CASE n = 0
      <4>1. qty > 0 /\ price \in t.traded
        BY <1>1, <1>10, <1>t, <3>2
      <4>2. price <= price
        BY <1>1
      <4> QED BY <3>1, <3>2, <4>1, <4>2, Zenon
    <3>3. CASE n # 0
      <4>1. PICK lo, hi \in st.traded : lo <= avg /\ avg <= hi
        BY <1>6, <3>3
      <4>2. lo \in Int /\ hi \in Int /\ lo \in t.traded /\ hi \in t.traded
        BY <1>1, <1>t, <4>1
      <4>3. CASE qty = 0
        BY <1>1, <3>1, <4>1, <4>2, <4>3
      <4>4. CASE qty > 0
        <5> DEFINE lo2 == IF price < lo THEN price ELSE lo
                   hi2 == IF price > hi THEN price ELSE hi
        <5>1. lo2 \in t.traded /\ hi2 \in t.traded
          BY <1>t, <4>2, <4>4
        <5>2. /\ lo2 <= avg /\ avg <= hi2
              /\ lo2 <= price /\ price <= hi2
          BY <1>1, <4>1, <4>2
        <5> HIDE DEF lo2, hi2
        <5> QED BY <3>1, <5>1, <5>2
      <4> QED BY <4>3, <4>4
    <3> QED BY <3>2, <3>3
  <2> QED BY <1>2, <1>10, <1>t, <2>3, <2>4 DEF SlotOK, IsFlat, r
<1>11. CASE n < 0
  <2>1. t.slack = st.slack
    BY <1>1, <1>11, <1>t
  <2>2. Reconciles(r, t)
    <3>1. r.realized_pnl - t.cash - r.net_qty * r.avg_entry_price = R - st.cash - n * avg
      <4>1. PICK cover : /\ cover = IF qty <= -n THEN qty ELSE -n
                        /\ r.realized_pnl = R + (avg - price) * cover
        BY <1>4, <1>11
      <4>2. /\ qty <= -n => cover = qty
            /\ qty > -n => cover = -n
        BY <1>1, <4>1
      <4>3. /\ n + qty > 0 => r.avg_entry_price = price
            /\ n + qty < 0 => r.avg_entry_price = avg
        BY <1>1, <1>4, <1>11 DEF AfterReducing
      <4>4. /\ r.realized_pnl = R + (avg - price) * cover
            /\ r.net_qty = n + qty
            /\ t.cash = st.cash - qty * price
        BY <1>2, <1>t, <4>1
      <4>5. CASE qty < -n
        BY <1>1, <1>11, <4>2, <4>3, <4>4, <4>5
      <4>6. CASE qty = -n
        BY <1>1, <1>8, <1>11, <4>2, <4>4, <4>6
      <4>7. CASE qty > -n
        BY <1>1, <1>11, <4>2, <4>3, <4>4, <4>7
      <4> QED BY <1>1, <4>5, <4>6, <4>7
    <3> QED BY <1>5, <2>1, <3>1 DEF Reconciles
  <2>3. IsFlat(r) => r.avg_entry_price = 0
    BY <1>1, <1>2, <1>4, <1>11 DEF IsFlat, AfterReducing
  <2>4. ~IsFlat(r) =>
          \E lo, hi \in t.traded : lo <= r.avg_entry_price /\ r.avg_entry_price <= hi
    <3>1. PICK lo, hi \in st.traded : lo <= avg /\ avg <= hi
      BY <1>1, <1>6, <1>11
    <3>2. lo \in t.traded /\ hi \in t.traded
      BY <1>t, <3>1
    <3>3. CASE n + qty > 0
      <4>1. r.avg_entry_price = price
        BY <1>4, <1>11, <3>3 DEF AfterReducing
      <4>2. qty > 0 /\ price \in t.traded
        BY <1>1, <1>11, <1>t, <3>3
      <4>3. price <= price
        BY <1>1
      <4> QED BY <4>1, <4>2, <4>3, Zenon
    <3>4. CASE ~(n + qty > 0)
      BY <1>1, <1>2, <1>4, <1>11, <3>1, <3>2, <3>4 DEF AfterReducing, IsFlat
    <3> QED BY <3>3, <3>4
  <2> QED BY <1>2, <1>t, <2>2, <2>3, <2>4 DEF SlotOK, IsFlat, r
<1> QED BY <1>1, <1>9, <1>10, <1>11

(* The same for a sell. *)
LEMMA SellKeepsSlot ==
  ASSUME NEW p \in Position, NEW st \in Statement, NEW qty \in Nat, NEW price \in Prices,
         NEW seq \in Nat, NEW t \in Statement, SlotOK(p, st),
         SellSettled(p, st, t, qty, price)
  PROVE  SlotOK(ApplySell(p, qty, price, seq), t)
<1> DEFINE r == ApplySell(p, qty, price, seq)
           n == p.net_qty   avg == p.avg_entry_price   R == p.realized_pnl
<1>1. /\ n \in Int /\ avg \in Int /\ R \in Int /\ price \in Int
      /\ p.total_buy_qty \in Int /\ p.total_sell_qty \in Int
      /\ st.cash \in Int /\ st.slack \in Nat /\ st.traded \subseteq Int
      /\ t.traded \subseteq Int
  BY PricesAssumption DEF Position, Statement
<1>2. /\ r \in Position
      /\ r.net_qty = n - qty
      /\ r.net_qty = r.total_buy_qty - r.total_sell_qty
      /\ r.net_qty = 0 => r.unrealized_pnl = 0
      /\ r.last_price > 0 =>
           r.unrealized_pnl = (r.last_price - r.avg_entry_price) * r.net_qty
  BY <1>1, SellFields DEF SlotOK
<1>f. /\ r.avg_entry_price = IF n > 0 THEN AfterReducing(avg, n - qty, price, n - qty < 0) ELSE Averaged(avg, -n, price, qty)
      /\ r.realized_pnl = IF n > 0 THEN R + (price - avg) * (IF qty <= n THEN qty ELSE n) ELSE R
  BY <1>1, SellFields, SMTT(30)
<1> HIDE DEF r
<1>3. n <= 0 => /\ r.avg_entry_price = Averaged(avg, -n, price, qty)
                /\ r.realized_pnl = R
  BY <1>1, <1>f
<1>4. n > 0 => /\ r.avg_entry_price = AfterReducing(avg, n - qty, price, n - qty < 0)
               /\ r.realized_pnl = R + (price - avg) * (IF qty <= n THEN qty ELSE n)
  BY <1>1, <1>f
<1>5. Abs(R - st.cash - n * avg) <= st.slack
  BY DEF SlotOK, Reconciles
<1>6. n # 0 => \E lo, hi \in st.traded : lo <= avg /\ avg <= hi
  BY DEF SlotOK, IsFlat
<1>7. n = 0 => avg = 0
  BY DEF SlotOK, IsFlat
<1>t. /\ t.net = n - qty
      /\ t.cash = st.cash - (-qty) * price
      /\ t.slack = IF n <= 0 /\ n - qty # 0 THEN st.slack + (Abs(n - qty) - 1) ELSE st.slack
      /\ t.traded = IF qty > 0 THEN st.traded \cup {price} ELSE st.traded
  BY DEF SellSettled
<1> HIDE DEF r, n, avg, R
<1>8. r.avg_entry_price \in Int
  BY <1>2 DEF Position
<1>9. CASE n <= 0 /\ n - qty = 0
  <2>1. n = 0 /\ qty = 0
    BY <1>1, <1>9
  <2>2. r.avg_entry_price = 0
    BY <1>3, <1>9, <2>1, <1>1 DEF Averaged
  <2>3. Reconciles(r, t)
    <3>1. t.cash = st.cash /\ t.slack = st.slack
      BY <1>1, <1>9, <1>t, <2>1
    <3>2. n * avg = 0 /\ r.net_qty * r.avg_entry_price = 0 /\ r.realized_pnl = R
      BY <1>1, <1>2, <1>3, <1>9, <2>1, <2>2
    <3> QED BY <1>5, <3>1, <3>2 DEF Reconciles
  <2> QED BY <1>2, <1>9, <1>t, <2>2, <2>3 DEF SlotOK, IsFlat, r
<1>10. CASE n <= 0 /\ n - qty # 0
  <2>1. -n \in Nat /\ (-n) + qty \in Nat \ {0} /\ Abs(n - qty) = (-n) + qty
    BY <1>1, <1>10 DEF Abs
  <2>2. Abs(avg * (-n) + price * qty - ((-n) + qty) * r.avg_entry_price) <= (-n) + qty - 1
    BY <1>1, <1>3, <1>10, <2>1, AveragedBound
  <2>3. Reconciles(r, t)
    <3>1. Abs(R - (st.cash - (-qty) * price) - (n - qty) * r.avg_entry_price) <= st.slack + ((-n) + qty - 1)
      BY <1>1, <1>5, <1>8, <2>2, SellAverages, Zenon
    <3>2. t.slack = st.slack + ((-n) + qty - 1)
      BY <1>10, <1>t, <2>1
    <3> QED BY <1>2, <1>3, <1>10, <1>t, <3>1, <3>2 DEF Reconciles
  <2>4. \E lo, hi \in t.traded : lo <= r.avg_entry_price /\ r.avg_entry_price <= hi
    <3>1. ASSUME NEW lo \in t.traded, NEW hi \in t.traded,
                 n # 0 => lo <= avg /\ avg <= hi,
                 qty > 0 => lo <= price /\ price <= hi
          PROVE  lo <= r.avg_entry_price /\ r.avg_entry_price <= hi
      <4>1. (-n) > 0 => lo <= avg /\ avg <= hi
        BY <1>1, <3>1
      <4>2. lo \in Int /\ hi \in Int
        BY <1>1
      <4>3. (-n) + qty > 0
        BY <2>1
      <4>4. /\ lo <= Averaged(avg, -n, price, qty)
            /\ Averaged(avg, -n, price, qty) <= hi
        BY <1>1, <2>1, <3>1, <4>1, <4>2, <4>3, AveragedRange, Zenon
      <4> QED BY <1>3, <1>10, <4>4, Zenon
    <3>2. CASE n = 0
      <4>1. qty > 0 /\ price \in t.traded
        BY <1>1, <1>10, <1>t, <3>2
      <4>2. price <= price
        BY <1>1
      <4> QED BY <3>1, <3>2, <4>1, <4>2, Zenon
    <3>3. CASE n # 0
      <4>1. PICK lo, hi \in st.traded : lo <= avg /\ avg <= hi
        BY <1>6, <3>3
      <4>2. lo \in Int /\ hi \in Int /\ lo \in t.traded /\ hi \in t.traded
        BY <1>1, <1>t, <4>1
      <4>3. CASE qty = 0
        BY <1>1, <3>1, <4>1, <4>2, <4>3
      <4>4. CASE qty > 0
        <5> DEFINE lo2 == IF price < lo THEN price ELSE lo
                   hi2 == IF price > hi THEN price ELSE hi
        <5>1. lo2 \in t.traded /\ hi2 \in t.traded
          BY <1>t, <4>2, <4>4
        <5>2. /\ lo2 <= avg /\ avg <= hi2
              /\ lo2 <= price /\ price <= hi2
          BY <1>1, <4>1, <4>2
        <5> HIDE DEF lo2, hi2
        <5> QED BY <3>1, <5>1, <5>2
      <4> QED BY <4>3, <4>4
    <3> QED BY <3>2, <3>3
  <2> QED BY <1>2, <1>10, <1>t, <2>3, <2>4 DEF SlotOK, IsFlat, r
<1>11. CASE n > 0
  <2>1. t.slack = st.slack
    BY <1>1, <1>11, <1>t
  <2>2. Reconciles(r, t)
    <3>1. r.realized_pnl - t.cash - r.net_qty * r.avg_entry_price = R - st.cash - n * avg
      <4>1. PICK close : /\ close = IF qty <= n THEN qty ELSE n
                        /\ r.realized_pnl = R + (price - avg) * close
        BY <1>4, <1>11
      <4>2. /\ qty <= n => close = qty
            /\ qty > n => close = n
        BY <1>1, <4>1
      <4>3. /\ n - qty < 0 => r.avg_entry_price = price
            /\ n - qty > 0 => r.avg_entry_price = avg
        BY <1>1, <1>4, <1>11 DEF AfterReducing
      <4>4. /\ r.realized_pnl = R + (price - avg) * close
            /\ r.net_qty = n - qty
            /\ t.cash = st.cash - (-qty) * price
        BY <1>2, <1>t, <4>1
      <4>5. CASE qty < n
        BY <1>1, <1>11, <4>2, <4>3, <4>4, <4>5
      <4>6. CASE qty = n
        BY <1>1, <1>8, <1>11, <4>2, <4>4, <4>6
      <4>7. CASE qty > n
        BY <1>1, <1>11, <4>2, <4>3, <4>4, <4>7
      <4> QED BY <1>1, <4>5, <4>6, <4>7
    <3> QED BY <1>5, <2>1, <3>1 DEF Reconciles
  <2>3. IsFlat(r) => r.avg_entry_price = 0
    BY <1>1, <1>2, <1>4, <1>11 DEF IsFlat, AfterReducing
  <2>4. ~IsFlat(r) =>
          \E lo, hi \in t.traded : lo <= r.avg_entry_price /\ r.avg_entry_price <= hi
    <3>1. PICK lo, hi \in st.traded : lo <= avg /\ avg <= hi
      BY <1>1, <1>6, <1>11
    <3>2. lo \in t.traded /\ hi \in t.traded
      BY <1>t, <3>1
    <3>3. CASE n - qty < 0
      <4>1. r.avg_entry_price = price
        BY <1>4, <1>11, <3>3 DEF AfterReducing
      <4>2. qty > 0 /\ price \in t.traded
        BY <1>1, <1>11, <1>t, <3>3
      <4>3. price <= price
        BY <1>1
      <4> QED BY <4>1, <4>2, <4>3, Zenon
    <3>4. CASE ~(n - qty < 0)
      BY <1>1, <1>2, <1>4, <1>11, <3>1, <3>2, <3>4 DEF AfterReducing, IsFlat
    <3> QED BY <3>3, <3>4
  <2> QED BY <1>2, <1>t, <2>2, <2>3, <2>4 DEF SlotOK, IsFlat, r
<1> QED BY <1>1, <1>9, <1>10, <1>11

-----------------------------------------------------------------------------
(* Settling a fill yields a statement again. *)
LEMMA SettledType ==
  ASSUME NEW st \in Statement,
         NEW side \in Sides, NEW qty \in Quantities, NEW px \in Prices,
         NEW e, e.side = side, e.fill_qty = qty, e.fill_price = px
  PROVE  Settled(st, e) \in Statement
<1> DEFINE t == Settled(st, e)
<1>1. qty \in Nat /\ px \in Int
  BY PricesAssumption, QuantitiesAssumption
<1>2. e.side = side /\ e.fill_qty = qty /\ e.fill_price = px
  OBVIOUS
<1>3. st.net \in Int /\ st.cash \in Int /\ st.slack \in Nat /\ st.traded \subseteq Prices
  BY DEF Statement
<1>4. st.net + Signed(side, qty) \in Int /\ st.cash - Signed(side, qty) * px \in Int
  BY <1>1, <1>3 DEF Signed
<1>5. \A m \in Int : m # 0 => Abs(m) - 1 \in Nat
  BY DEF Abs
<1> DEFINE m  == st.net + Signed(side, qty)
           c  == st.cash - Signed(side, qty) * px
           sl == IF Extends(st.net, side) /\ m # 0 THEN st.slack + (Abs(m) - 1) ELSE st.slack
           tr == IF qty > 0 THEN st.traded \cup {px} ELSE st.traded
<1>6. t = [net |-> m, cash |-> c, slack |-> sl, traded |-> tr]
  BY <1>2 DEF Settled
<1>7. m \in Int /\ c \in Int
  BY <1>4
<1> HIDE DEF m, c
<1>8. sl \in Nat
  BY <1>3, <1>5, <1>7
<1>9. tr \in SUBSET Prices
  BY <1>3
<1> HIDE DEF sl, tr
<1>10. t \in Statement
  BY <1>6, <1>7, <1>8, <1>9 DEF Statement
<1> HIDE DEF t
<1> QED BY <1>10 DEF t

(* One fill, applied to the slot and settled in the ledger. *)
LEMMA FillKeepsSlot ==
  ASSUME NEW p \in Position, NEW st \in Statement, SlotOK(p, st),
         NEW side \in Sides, NEW qty \in Quantities, NEW px \in Prices,
         NEW e, e.side = side, e.fill_qty = qty, e.fill_price = px, e.sequence = 0
  PROVE  /\ ApplyFill(p, e) \in Position
         /\ ApplyFill(p, e).symbol = p.symbol
         /\ SlotOK(ApplyFill(p, e), Settled(st, e))
<1> DEFINE t == Settled(st, e)
<1>1. qty \in Nat /\ px \in Int
  BY PricesAssumption, QuantitiesAssumption
<1>2. e.side = side /\ e.fill_qty = qty /\ e.fill_price = px /\ e.sequence = 0
  OBVIOUS
<1>3. p.net_qty = st.net
  BY DEF SlotOK
<1>4. st.net \in Int /\ st.cash \in Int /\ st.slack \in Nat /\ st.traded \subseteq Prices
  BY DEF Statement
<1>5. t \in Statement
  BY <1>2, SettledType
<1>6. CASE side = "Buy"
  <2>1. ApplyFill(p, e) = ApplyBuy(p, qty, px, 0)
    BY <1>2, <1>6 DEF ApplyFill
  <2>2. BuySettled(p, st, t, qty, px)
    BY <1>1, <1>2, <1>3, <1>4, <1>6 DEF BuySettled, Settled, Signed, Extends
  <2> HIDE DEF t
  <2>3. SlotOK(ApplyBuy(p, qty, px, 0), t)
    BY <1>1, <1>5, <2>2, BuyKeepsSlot
  <2>4. ApplyBuy(p, qty, px, 0) \in Position /\ ApplyBuy(p, qty, px, 0).symbol = p.symbol
    BY <1>1, BuyFields
  <2> QED BY <1>5, <2>1, <2>3, <2>4 DEF t
<1>7. CASE side = "Sell"
  <2>1. ApplyFill(p, e) = ApplySell(p, qty, px, 0)
    BY <1>2, <1>7 DEF ApplyFill
  <2>2. SellSettled(p, st, t, qty, px)
    BY <1>1, <1>2, <1>3, <1>4, <1>7 DEF SellSettled, Settled, Signed, Extends
  <2> HIDE DEF t
  <2>3. SlotOK(ApplySell(p, qty, px, 0), t)
    BY <1>1, <1>5, <2>2, SellKeepsSlot
  <2>4. ApplySell(p, qty, px, 0) \in Position /\ ApplySell(p, qty, px, 0).symbol = p.symbol
    BY <1>1, SellFields
  <2> QED BY <1>5, <2>1, <2>3, <2>4 DEF t
<1> QED BY <1>6, <1>7 DEF Sides

(* The first fill of a symbol meets a zeroed slot. *)
LEMMA ZeroSlot ==
  ASSUME NEW sym \in Symbols, NEW st \in Statement, st.net = 0, st.cash = 0
  PROVE  /\ ZeroPosition(sym) \in Position
         /\ ZeroPosition(sym).symbol = sym
         /\ SlotOK(ZeroPosition(sym), st)
<1>1. ZeroPosition(sym) \in Position
  BY DEF ZeroPosition, Position
<1>2. st.slack \in Nat
  BY DEF Statement
<1> QED BY <1>1, <1>2 DEF ZeroPosition, SlotOK, Reconciles, IsFlat, Abs

-----------------------------------------------------------------------------
(* The inductive invariant: the types, SlotOK of every slot against its    *)
(* statement, one slot per symbol, and nothing settled yet in a symbol     *)
(* that can still be given a slot.                                         *)
UniqueSlots ==
  \A i, j \in 1..Len(positions) :
    positions[i].symbol = positions[j].symbol => i = j

UntrackedIsClean ==
  \A s \in Symbols :
    ~Tracked(s) /\ Len(positions) < MaxSymbols =>
      ledger[s].net = 0 /\ ledger[s].cash = 0

IndInv ==
  /\ TypeOK
  /\ \A i \in 1..Len(positions) : SlotOK(positions[i], ledger[positions[i].symbol])
  /\ UniqueSlots
  /\ UntrackedIsClean

(* The empty table and the empty ledger satisfy the invariant. *)
LEMMA InitIndInv == Init => IndInv
<1> SUFFICES ASSUME Init PROVE IndInv
  OBVIOUS
<1>1. positions = << >> /\ Len(positions) = 0 /\ positions \in Seq(Position)
  BY DEF Init, InitPositions
<1>2. ledger \in [Symbols -> Statement]
  BY DEF Init, Statement
<1>3. \A s \in Symbols : ledger[s].net = 0 /\ ledger[s].cash = 0
  BY DEF Init
<1> QED BY <1>1, <1>2, <1>3, MaxSymbolsAssumption
        DEF IndInv, TypeOK, UniqueSlots, UntrackedIsClean, Init

(* apply_event() on a fill: of a known symbol, of a new one, of one too many. *)
LEMMA FillIndInv ==
  ASSUME IndInv, NEW sym \in Symbols, NEW side \in Sides, NEW qty \in Quantities,
         NEW px \in Prices, NEW oid \in OrderIds, Fill(sym, side, qty, px, oid)
  PROVE  IndInv'
<1> DEFINE e == MakeFill(sym, side, qty, px, oid, FALSE)
           n == FindPosition(positions, sym)
           t == Settled(ledger[sym], e)
<1>1. /\ positions \in Seq(Position) /\ Len(positions) <= MaxSymbols
      /\ ledger \in [Symbols -> Statement] /\ fills \in Nat
  BY DEF IndInv, TypeOK
<1>2. /\ e.symbol = sym /\ IsFill(e)
      /\ e.side = side /\ e.fill_qty = qty /\ e.fill_price = px /\ e.sequence = 0
  BY DEF MakeFill, IsFill
<1>3. /\ positions' = BookPosition(positions, e)
      /\ ledger' = [ledger EXCEPT ![sym] = t]
      /\ fills' \in Nat
  BY <1>1 DEF Fill, ApplyEvent
<1>4. /\ n \in 0..Len(positions)
      /\ n # 0 => positions[n].symbol = sym
      /\ n = 0 => \A k \in 1..Len(positions) : positions[k].symbol # sym
  BY <1>1, FindPositionProps
<1>5. \A k \in 1..Len(positions) :
        /\ positions[k] \in Position
        /\ SlotOK(positions[k], ledger[positions[k].symbol])
        /\ positions[k].symbol \in Symbols
  <2>1. \A k \in 1..Len(positions) : positions[k] \in Position
    BY <1>1
  <2>2. \A p \in Position : p.symbol \in Symbols
    BY DEF Position
  <2> QED BY <2>1, <2>2 DEF IndInv
<1>6. ASSUME NEW p \in Position, SlotOK(p, ledger[sym])
      PROVE  /\ ApplyFill(p, e) \in Position
             /\ ApplyFill(p, e).symbol = p.symbol
             /\ SlotOK(ApplyFill(p, e), t)
  <2>1. ledger[sym] \in Statement
    BY <1>1
  <2> HIDE DEF e
  <2> QED BY <1>2, <1>6, <2>1, FillKeepsSlot
<1>7. t \in Statement
  <2> HIDE DEF e
  <2> QED BY <1>1, <1>2, SettledType
<1>8. positions' = IF n # 0 THEN [positions EXCEPT ![n] = ApplyFill(positions[n], e)]
                   ELSE IF Len(positions) >= MaxSymbols THEN positions
                   ELSE Append(positions, ApplyFill(ZeroPosition(sym), e))
  BY <1>2, <1>3 DEF BookPosition
<1> HIDE DEF e, n, t
<1>9. /\ ledger' \in [Symbols -> Statement]
      /\ ledger'[sym] = t
      /\ \A s \in Symbols : s # sym => ledger'[s] = ledger[s]
  BY <1>1, <1>3, <1>7
<1>10. UniqueSlots /\ UntrackedIsClean
  BY DEF IndInv
<1>11. CASE n # 0
  <2> DEFINE r == ApplyFill(positions[n], e)
  <2>1. n \in 1..Len(positions) /\ positions[n].symbol = sym
    BY <1>4, <1>11
  <2>2. r \in Position /\ r.symbol = sym /\ SlotOK(r, t)
    BY <1>5, <1>6, <2>1
  <2> HIDE DEF r
  <2>3. /\ positions' \in Seq(Position)
        /\ Len(positions') = Len(positions)
        /\ positions'[n] = r
        /\ \A k \in 1..Len(positions) : k # n => positions'[k] = positions[k]
    BY <1>1, <1>8, <1>11, <2>1, <2>2 DEF r
  <2>4. \A k \in 1..Len(positions) : positions'[k].symbol = positions[k].symbol
    BY <2>1, <2>2, <2>3
  <2>5. TypeOK'
    BY <1>1, <1>3, <1>9, <2>3 DEF TypeOK
  <2>6. ASSUME NEW k \in 1..Len(positions)
        PROVE  SlotOK(positions'[k], ledger'[positions'[k].symbol])
    <3>1. CASE k = n
      BY <1>9, <2>2, <2>3, <3>1
    <3>2. CASE k # n
      <4>1. positions[k].symbol # sym
        BY <1>10, <2>1, <3>2 DEF UniqueSlots
      <4> QED BY <1>5, <1>9, <2>3, <3>2, <4>1
    <3> QED BY <3>1, <3>2
  <2>7. UniqueSlots'
    BY <1>10, <2>3, <2>4 DEF UniqueSlots
  <2>8. UntrackedIsClean'
    BY <1>9, <1>10, <2>1, <2>3, <2>4 DEF UntrackedIsClean, Tracked
  <2> QED BY <2>3, <2>5, <2>6, <2>7, <2>8 DEF IndInv
<1>12. CASE n = 0 /\ Len(positions) >= MaxSymbols
  <2>1. positions' = positions
    BY <1>8, <1>12
  <2>2. \A k \in 1..Len(positions) : ledger'[positions[k].symbol] = ledger[positions[k].symbol]
    BY <1>4, <1>5, <1>9, <1>12
  <2>3. ~(Len(positions) < MaxSymbols)
    BY <1>1, <1>12, MaxSymbolsAssumption
  <2>4. TypeOK'
    BY <1>1, <1>3, <1>9, <2>1 DEF TypeOK
  <2>5. \A k \in 1..Len(positions') : SlotOK(positions'[k], ledger'[positions'[k].symbol])
    BY <1>5, <2>1, <2>2
  <2>6. UniqueSlots' /\ UntrackedIsClean'
    BY <1>10, <2>1, <2>3 DEF UniqueSlots, UntrackedIsClean
  <2> QED BY <2>4, <2>5, <2>6 DEF IndInv
<1>13. CASE n = 0 /\ ~(Len(positions) >= MaxSymbols)
  <2> DEFINE r == ApplyFill(ZeroPosition(sym), e)
             m == Len(positions) + 1
  <2>1. Len(positions) < MaxSymbols /\ Len(positions) \in Nat
    BY <1>1, <1>13, MaxSymbolsAssumption
  <2>2. ledger[sym].net = 0 /\ ledger[sym].cash = 0
    BY <1>4, <1>10, <1>13, <2>1 DEF UntrackedIsClean, Tracked
  <2>3. r \in Position /\ r.symbol = sym /\ SlotOK(r, t)
    BY <1>1, <1>6, <2>2, ZeroSlot
  <2> HIDE DEF r
  <2>4. /\ positions' \in Seq(Position)
        /\ Len(positions') = m
        /\ positions'[m] = r
        /\ \A k \in 1..Len(positions) : positions'[k] = positions[k]
    BY <1>1, <1>8, <1>13, <2>1, <2>3 DEF r
  <2>5. \A k \in 1..m : k = m \/ k \in 1..Len(positions)
    BY <2>1
  <2>6. TypeOK'
    BY <1>1, <1>3, <1>9, <2>1, <2>4, MaxSymbolsAssumption DEF TypeOK
  <2>7. ASSUME NEW k \in 1..m
        PROVE  SlotOK(positions'[k], ledger'[positions'[k].symbol])
    <3>1. CASE k = m
      BY <1>9, <2>3, <2>4, <3>1
    <3>2. CASE k \in 1..Len(positions)
      BY <1>4, <1>5, <1>9, <1>13, <2>4, <3>2
    <3> QED BY <2>5, <3>1, <3>2
  <2>8. UniqueSlots'
    BY <1>4, <1>10, <1>13, <2>3, <2>4, <2>5 DEF UniqueSlots
  <2>9. UntrackedIsClean'
    <3> SUFFICES ASSUME NEW s \in Symbols, ~Tracked(s)', Len(positions') < MaxSymbols
                 PROVE  ledger'[s].net = 0 /\ ledger'[s].cash = 0
      BY DEF UntrackedIsClean
    <3>1. s # sym
      BY <2>1, <2>3, <2>4 DEF Tracked
    <3>2. ~Tracked(s)
      BY <2>1, <2>4 DEF Tracked
    <3> QED BY <1>9, <1>10, <2>1, <3>1, <3>2 DEF UntrackedIsClean
  <2> QED BY <2>4, <2>6, <2>7, <2>8, <2>9 DEF IndInv
<1> QED BY <1>11, <1>12, <1>13

(* mark_to_market() moves only the two fields it assigns. *)
LEMMA TickIndInv ==
  ASSUME IndInv, NEW sym \in Symbols, NEW px \in Prices, Tick(sym, px)
  PROVE  IndInv'
<1> DEFINE n == FindPosition(positions, sym)
           p == positions[n]
           u == (px - p.avg_entry_price) * p.net_qty
           r == [p EXCEPT !.last_price = px, !.unrealized_pnl = u]
<1>1. /\ positions \in Seq(Position) /\ px \in Int
      /\ ledger \in [Symbols -> Statement]
  BY PricesAssumption DEF IndInv, TypeOK
<1>2. n \in 0..Len(positions)
  BY <1>1, FindPositionProps
<1>3. n # 0 /\ ~IsFlat(p) /\ ledger' = ledger /\ fills' = fills
  BY DEF Tick, MarkToMarket
<1>4. n \in 1..Len(positions)
  BY <1>2, <1>3
<1>5. p \in Position
  BY <1>1, <1>4
<1>6. u \in Int
  BY <1>1, <1>5 DEF Position
<1>7. positions' = [positions EXCEPT ![n] = r]
  BY <1>1, <1>4, <1>5 DEF Tick, MarkToMarket
<1>8. SlotOK(p, ledger[p.symbol])
  BY <1>4 DEF IndInv
<1> HIDE DEF n
<1>9. /\ r \in Position /\ r.symbol = p.symbol
      /\ r.net_qty = p.net_qty /\ r.avg_entry_price = p.avg_entry_price
      /\ r.realized_pnl = p.realized_pnl
      /\ r.total_buy_qty = p.total_buy_qty /\ r.total_sell_qty = p.total_sell_qty
      /\ r.last_price = px /\ r.unrealized_pnl = u
  <2> HIDE DEF u, p
  <2>1. r \in Position
    BY <1>1, <1>5, <1>6, Zenon DEF Position
  <2> QED BY <1>5, <2>1 DEF Position
<1>10. SlotOK(r, ledger[p.symbol])
  <2>1. r.last_price > 0 =>
          r.unrealized_pnl = (r.last_price - r.avg_entry_price) * r.net_qty
    BY <1>9
  <2>2. ~IsFlat(r)
    BY <1>3, <1>9 DEF IsFlat
  <2> HIDE DEF r, p, u
  <2> QED BY <1>8, <1>9, <2>1, <2>2 DEF SlotOK, Reconciles, IsFlat
<1> HIDE DEF r, p, u
<1>11. /\ positions' \in Seq(Position)
       /\ Len(positions') = Len(positions)
       /\ positions'[n] = r
       /\ \A k \in 1..Len(positions) : k # n => positions'[k] = positions[k]
  BY <1>1, <1>4, <1>7, <1>9
<1>12. \A k \in 1..Len(positions) : positions'[k].symbol = positions[k].symbol
  BY <1>4, <1>9, <1>11 DEF p
<1>13. \A k \in 1..Len(positions) : SlotOK(positions'[k], ledger[positions'[k].symbol])
  BY <1>9, <1>10, <1>11 DEF IndInv
<1>14. TypeOK'
  BY <1>3, <1>11 DEF IndInv, TypeOK
<1>15. UniqueSlots'
  BY <1>11, <1>12 DEF IndInv, UniqueSlots
<1>16. UntrackedIsClean'
  BY <1>3, <1>11, <1>12 DEF IndInv, UntrackedIsClean, Tracked
<1> QED BY <1>3, <1>11, <1>13, <1>14, <1>15, <1>16 DEF IndInv

(* Every step, stuttering included, keeps the inductive invariant. *)
LEMMA NextIndInv == IndInv /\ [Next]_vars => IndInv'
<1> SUFFICES ASSUME IndInv, [Next]_vars PROVE IndInv'
  OBVIOUS
<1>1. ASSUME NEW sym \in Symbols, NEW side \in Sides, NEW qty \in Quantities,
             NEW px \in Prices, NEW oid \in OrderIds, Fill(sym, side, qty, px, oid)
      PROVE  IndInv'
  BY <1>1, FillIndInv
<1>2. UNCHANGED vars => IndInv'
  BY DEF vars, IndInv, TypeOK, UniqueSlots, UntrackedIsClean, Tracked
<1>3. ASSUME NEW sym \in Symbols, NEW side \in Sides, NEW qty \in Quantities,
             NEW px \in Prices, NEW oid \in OrderIds, OtherEvent(sym, side, qty, px, oid)
      PROVE  IndInv'
  <2>1. ~IsFill(MakeNewOrder(sym, side, qty, px, oid))
    BY DEF IsFill, MakeNewOrder
  <2>2. UNCHANGED vars
    BY <1>3, <2>1 DEF OtherEvent, ApplyEvent, BookPosition, vars
  <2> QED BY <1>2, <2>2
<1>4. ASSUME NEW sym \in Symbols, NEW px \in Prices, Tick(sym, px)
      PROVE  IndInv'
  BY <1>4, TickIndInv
<1> QED BY <1>1, <1>2, <1>3, <1>4 DEF Next

(* Every reachable state of the tracker satisfies the inductive invariant. *)
THEOREM LedgerInductive == Spec => []IndInv
BY InitIndInv, NextIndInv, PTL DEF Spec

(* positions never outgrows its slots and every field keeps its type,      *)
(* whatever fills and ticks apply_event() and mark_to_market() are given.  *)
THEOREM LedgerTypeOK == Spec => []TypeOK
<1>1. IndInv => TypeOK
  BY DEF IndInv
<1> QED BY <1>1, LedgerInductive, PTL

(* No fill that found a slot is lost or counted twice: net_qty is what the *)
(* broker's statement says, and only a full table loses a symbol.          *)
THEOREM LedgerFillsAccounted == Spec => []FillsAccounted
<1>1. IndInv => FillsAccounted
  BY DEF IndInv, FillsAccounted, SlotOK, UniqueSlots, UntrackedIsClean
<1> QED BY <1>1, LedgerInductive, PTL

(* The realised PnL of apply_buy() and apply_sell() differs from the cash  *)
(* of the fills by no more than the truncation of the averages allows.     *)
THEOREM LedgerRoundingBounded == Spec => []RoundingBounded
<1>1. IndInv => RoundingBounded
  BY DEF IndInv, RoundingBounded, SlotOK
<1> QED BY <1>1, LedgerInductive, PTL

(* A position that fills have brought to zero hands neither an entry price *)
(* nor an unrealised PnL to the next one of its symbol.                    *)
THEOREM LedgerFlatIsClean == Spec => []FlatIsClean
<1>1. IndInv => FlatIsClean
  BY DEF IndInv, FlatIsClean, SlotOK
<1> QED BY <1>1, LedgerInductive, PTL

(* unrealized_pnl follows every fill between two ticks.                    *)
THEOREM LedgerMarks == Spec => []UnrealizedInSync
<1>1. IndInv => UnrealizedInSync
  BY DEF IndInv, UnrealizedInSync, SlotOK
<1> QED BY <1>1, LedgerInductive, PTL

(* The average entry price never leaves the range of the traded prices.    *)
THEOREM LedgerAvgWithinTraded == Spec => []AvgWithinTraded
<1>1. IndInv => AvgWithinTraded
  BY DEF IndInv, AvgWithinTraded, SlotOK
<1> QED BY <1>1, LedgerInductive, PTL
=============================================================================
