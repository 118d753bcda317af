---------------------------- MODULE ReportsProofs ----------------------------
(***************************************************************************)
(* Types, position, profits and flows of LedgerEngine, and what Reports    *)
(* sums up from them, for any orders, adjustments, prices and rounding:    *)
(*                                                                         *)
(*   PositionIsBalance  by the gap between position and balance,           *)
(*   ProfitsAgree       by CostInv, the books of the average price,        *)
(*   FlowsMakeNone      by PriceInv, the price a day without trade has,    *)
(*   CleanCurve         by CurveInv, what is listed and not yet summed,    *)
(*   WindowProfits      by WindowInv, both ends of a window's sums.        *)
(*                                                                         *)
(* All there is to know of rounding is RoundClose: a rounded quotient is   *)
(* off by half a divisor at most.                                          *)
(***************************************************************************)
EXTENDS Reports, TLAPS

LedgerStates == [bank : Int, exchange : Int, wac_qty : Int, wac_cost : Int,
                 realized : Int, price : Nat]
Days == [events : BOOLEAN, trades : BOOLEAN, price : Nat, bank_adj : Int,
         exchange_adj : Int]
Snapshots == [exists : BOOLEAN, equity : Int, pnl : Int, running : Int, price : Nat]
Pasts == [funds : Int, sells : Nat, peak : Nat, oversold : BOOLEAN, unpriced : BOOLEAN,
          unmatched : BOOLEAN]

(* Products of whole steps are whole, and so is the scale.                 *)
LEMMA TimesInt == ASSUME NEW m \in Int, NEW n \in Int PROVE m * n \in Int
  OBVIOUS

LEMMA ScaleNat == Scale \in Nat \ {0} /\ Scale \in Int
  BY ScaleAssumption

(* Whole division is off by less than the divisor.                         *)
LEMMA DivBounds ==
  ASSUME NEW n \in Int, NEW k \in Nat \ {0}
  PROVE  n \div k \in Int /\ k * (n \div k) <= n /\ n < k * (n \div k) + k
  OBVIOUS

(* Rounding half up stays within the whole steps, and half a step.         *)
LEMMA RoundClose ==
  ASSUME NEW n \in Int, NEW k \in Nat \ {0}
  PROVE  /\ Round(n, k) \in Int /\ k * Round(n, k) \in Int
         /\ -k <= 2 * (n - k * Round(n, k)) /\ 2 * (n - k * Round(n, k)) <= k
<1> DEFINE m == 2 * k
           up == 2 * n + k
           down == k - 2 * n
           a == up \div m
           b == down \div m
<1>1. m \in Nat \ {0} /\ up \in Int /\ down \in Int
  OBVIOUS
<1>2. Round(n, k) = IF n >= 0 THEN a ELSE -b
  BY DEF Round
<1>3. /\ a \in Int /\ m * a <= up /\ up < m * a + m
      /\ b \in Int /\ m * b <= down /\ down < m * b + m
  <2> HIDE DEF m, up, down
  <2> QED BY <1>1, DivBounds
<1>4. /\ m * a = 2 * (k * a) /\ m * b = 2 * (k * b) /\ k * (-b) = -(k * b)
      /\ k * a \in Int /\ k * b \in Int
  <2> HIDE DEF a, b
  <2> QED BY <1>3
<1> HIDE DEF a, b
<1> QED BY <1>2, <1>3, <1>4

(* A positive factor may be left out.                                      *)
LEMMA Cancels ==
  ASSUME NEW k \in Nat \ {0}, NEW m \in Int, NEW n \in Int, k * m <= k * n
  PROVE  m <= n
<1>1. SUFFICES ASSUME n + 1 <= m PROVE FALSE
  OBVIOUS
<1>2. k * (n + 1) <= k * m
  BY <1>1
<1>3. k * (n + 1) = k * n + k
  OBVIOUS
<1>4. k * n \in Int /\ k * m \in Int
  OBVIOUS
<1> QED BY <1>2, <1>3, <1>4

(* So does the average price of a position, whatever sign its cost has.    *)
LEMMA WacPriceInt == ASSUME NEW s \in LedgerStates PROVE WacPrice(s) \in Int
<1>1. CASE s.wac_qty > 0
  <2>1. s.wac_cost \in Int /\ s.wac_qty \in Nat \ {0}
    BY <1>1 DEF LedgerStates
  <2>2. s.wac_cost * Scale \in Int
    BY <2>1, ScaleNat, TimesInt
  <2> QED BY <1>1, <2>1, <2>2, RoundClose DEF WacPrice
<1>2. CASE ~(s.wac_qty > 0)
  BY <1>2 DEF WacPrice
<1> QED BY <1>1, <1>2

(* The amounts of an order, and the sign an adjustment gets.               *)
LEMMA OrderAmounts ==
  ASSUME NEW o \in Orders
  PROVE  /\ NetQty(o) \in Int /\ NetRub(o) \in Int /\ QtyOut(o) \in Int
         /\ \A c \in {"USDT", "RUB"} : Fee(o, c) \in Nat
         /\ o.price \in Nat
<1>1. o.quantity \in Nat /\ o.amount \in Nat /\ o.price \in Nat /\ o.fee \in Nat
  BY OrdersAssumption
<1> QED BY <1>1 DEF NetQty, NetRub, QtyOut, Fee, Abs

LEMMA SignedInt == ASSUME NEW a \in Adjustments PROVE Signed(a) \in Int
<1>1. a.value \in Int
  BY AdjustmentsAssumption
<1>2. Abs(a.value) \in Int /\ -Abs(a.value) \in Int
  BY <1>1 DEF Abs
<1> QED BY <1>1, <1>2 DEF Signed

(* A purchase leaves the state in whole steps.                             *)
LEMMA BuyState ==
  ASSUME NEW s \in LedgerStates, NEW o \in Orders
  PROVE  ApplyBuy(s, o) \in LedgerStates
<1>1. /\ s.bank \in Int /\ s.exchange \in Int /\ s.wac_qty \in Int /\ s.wac_cost \in Int
      /\ s.realized \in Int /\ s.price \in Nat
  BY DEF LedgerStates
<1>2. /\ NetQty(o) \in Int /\ NetRub(o) + Fee(o, "RUB") \in Int /\ NewPrice(s, o) \in Nat
  BY <1>1, OrderAmounts DEF NewPrice
<1> QED BY <1>1, <1>2 DEF ApplyBuy, LedgerStates

(* So does a sale, of whatever size.                                       *)
LEMMA SellState ==
  ASSUME NEW s \in LedgerStates, NEW o \in Orders
  PROVE  ApplySell(s, o) \in LedgerStates
<1> DEFINE rub == NetRub(o) - Fee(o, "RUB")
           wac == WacPrice(s)
           pos == IF QtyOut(o) <= s.wac_qty THEN QtyOut(o) ELSE s.wac_qty
           cost == Round(s.wac_cost * Scale - wac * pos, Scale)
           gain == Round(rub * Scale - wac * QtyOut(o), Scale)
<1>1. rub \in Int /\ wac \in Int /\ pos \in Int /\ QtyOut(o) \in Int
  BY OrderAmounts, WacPriceInt DEF LedgerStates
<1>2. s.wac_cost * Scale - wac * pos \in Int /\ rub * Scale - wac * QtyOut(o) \in Int
  <2> HIDE DEF rub, wac, pos
  <2>1. s.wac_cost \in Int
    BY DEF LedgerStates
  <2>2. /\ s.wac_cost * Scale \in Int /\ wac * pos \in Int
        /\ rub * Scale \in Int /\ wac * QtyOut(o) \in Int
    BY <1>1, <2>1, ScaleNat, TimesInt
  <2> QED BY <2>2
<1>3. cost \in Int /\ gain \in Int
  <2> HIDE DEF rub, wac, pos
  <2> QED BY <1>2, ScaleNat, RoundClose
<1>4. ApplySell(s, o) = [bank |-> s.bank + rub, exchange |-> s.exchange - QtyOut(o),
                         wac_qty |-> s.wac_qty - pos, wac_cost |-> cost,
                         realized |-> s.realized + gain, price |-> NewPrice(s, o)]
  BY DEF ApplySell
<1>5. NewPrice(s, o) \in Nat
  BY OrderAmounts DEF NewPrice, LedgerStates
<1>6. s.bank \in Int /\ s.exchange \in Int /\ s.wac_qty \in Int /\ s.realized \in Int
  BY DEF LedgerStates
<1> HIDE DEF rub, wac, pos, cost, gain
<1> QED BY <1>1, <1>3, <1>4, <1>5, <1>6 DEF LedgerStates

-----------------------------------------------------------------------------
(* A snapshot's amounts are whole steps.                                   *)
LEMMA SnapshotType ==
  ASSUME TypeOK
  PROVE  Snapshot \in [exists : BOOLEAN, equity : Int, pnl : Int, running : Int, price : Nat]
<1>1. state \in LedgerStates /\ WacPrice(state) \in Int
  BY WacPriceInt DEF TypeOK, LedgerStates
<1>2. LastPrice \in Nat
  BY <1>1 DEF TypeOK, LastPrice
<1>3. \A q \in Int : Value(q, LastPrice) \in Int
  <2> TAKE q \in Int
  <2>1. q * LastPrice \in Int
    BY <1>2, TimesInt
  <2> QED BY <2>1, ScaleNat, RoundClose DEF Value
<1>4. Equity \in Int
  BY <1>3 DEF Equity, TypeOK
<1>5. EquityPnl \in Int
  <2>1. Value(day.exchange_adj, LastPrice) \in Int
    BY <1>3 DEF TypeOK
  <2> QED BY <1>4, <2>1 DEF EquityPnl, TypeOK
<1>6. Unrealized \in Int
  <2>1. LastPrice - WacPrice(state) \in Int /\ state.wac_qty \in Int
    BY <1>1, <1>2 DEF LedgerStates
  <2>2. (LastPrice - WacPrice(state)) * state.wac_qty \in Int
    BY <2>1, TimesInt
  <2> QED BY <2>2, ScaleNat, RoundClose DEF Unrealized
<1>7. state.realized + Unrealized \in Int
  BY <1>6 DEF TypeOK
<1> QED BY <1>2, <1>4, <1>5, <1>7 DEF Snapshot

(* A record of the past is its fields.                                     *)
LEMMA PastIs ==
  ASSUME NEW p \in Pasts
  PROVE  p = [funds |-> p.funds, sells |-> p.sells, peak |-> p.peak,
              oversold |-> p.oversold, unpriced |-> p.unpriced, unmatched |-> p.unmatched]
  BY DEF Pasts

LEMMA BoughtPast ==
  ASSUME NEW p \in Pasts, NEW u \in BOOLEAN, NEW v \in BOOLEAN, NEW n \in Nat
  PROVE  [p EXCEPT !.unpriced = u, !.unmatched = v, !.peak = n]
           = [funds |-> p.funds, sells |-> p.sells, peak |-> n, oversold |-> p.oversold,
              unpriced |-> u, unmatched |-> v]
<1> DEFINE once == [p EXCEPT !.unpriced = u]
           twice == [once EXCEPT !.unmatched = v]
           q == [twice EXCEPT !.peak = n]
<1>1. /\ once \in Pasts /\ once.unpriced = u /\ once.sells = p.sells
      /\ once.funds = p.funds /\ once.oversold = p.oversold
  BY DEF Pasts
<1> HIDE DEF once
<1>2. /\ twice \in Pasts /\ twice.unpriced = u /\ twice.sells = p.sells
      /\ twice.funds = p.funds /\ twice.oversold = p.oversold /\ twice.unmatched = v
  BY <1>1 DEF Pasts
<1> HIDE DEF twice
<1>3. /\ q \in Pasts /\ q.unpriced = u /\ q.sells = p.sells
      /\ q.funds = p.funds /\ q.oversold = p.oversold /\ q.unmatched = v /\ q.peak = n
  BY <1>2 DEF Pasts
<1>4. q = [p EXCEPT !.unpriced = u, !.unmatched = v, !.peak = n]
  BY DEF once, twice
<1> HIDE DEF q
<1> QED BY <1>3, <1>4, PastIs

LEMMA SoldPast ==
  ASSUME NEW p \in Pasts, NEW u \in BOOLEAN, NEW v \in BOOLEAN, NEW n \in Nat
  PROVE  [p EXCEPT !.unpriced = u, !.sells = n, !.oversold = v]
           = [funds |-> p.funds, sells |-> n, peak |-> p.peak, oversold |-> v,
              unpriced |-> u, unmatched |-> p.unmatched]
<1> DEFINE once == [p EXCEPT !.unpriced = u]
           twice == [once EXCEPT !.sells = n]
           q == [twice EXCEPT !.oversold = v]
<1>1. /\ once \in Pasts /\ once.unpriced = u /\ once.peak = p.peak
      /\ once.funds = p.funds /\ once.unmatched = p.unmatched
  BY DEF Pasts
<1> HIDE DEF once
<1>2. /\ twice \in Pasts /\ twice.unpriced = u /\ twice.peak = p.peak
      /\ twice.funds = p.funds /\ twice.unmatched = p.unmatched /\ twice.sells = n
  BY <1>1 DEF Pasts
<1> HIDE DEF twice
<1>3. /\ q \in Pasts /\ q.unpriced = u /\ q.peak = p.peak
      /\ q.funds = p.funds /\ q.unmatched = p.unmatched /\ q.sells = n /\ q.oversold = v
  BY <1>2 DEF Pasts
<1>4. q = [p EXCEPT !.unpriced = u, !.sells = n, !.oversold = v]
  BY DEF once, twice
<1> HIDE DEF q
<1> QED BY <1>3, <1>4, PastIs

LEMMA MovedPast ==
  ASSUME NEW p \in Pasts, NEW n \in Nat
  PROVE  [p EXCEPT !.unmatched = TRUE, !.peak = n]
           = [funds |-> p.funds, sells |-> p.sells, peak |-> n, oversold |-> p.oversold,
              unpriced |-> p.unpriced, unmatched |-> TRUE]
<1> DEFINE q == [p EXCEPT !.unmatched = TRUE, !.peak = n]
<1>1. /\ q \in Pasts /\ q.unpriced = p.unpriced /\ q.sells = p.sells
      /\ q.funds = p.funds /\ q.oversold = p.oversold /\ q.unmatched = TRUE /\ q.peak = n
  BY DEF Pasts
<1> HIDE DEF q
<1>2. q = [funds |-> p.funds, sells |-> p.sells, peak |-> n,
           oversold |-> p.oversold, unpriced |-> p.unpriced, unmatched |-> TRUE]
  BY <1>1, PastIs
<1> QED BY <1>2 DEF q

(* The largest position only grows.                                        *)
LEMMA PeakNat ==
  ASSUME past \in Pasts, NEW q \in Int
  PROVE  Peak(q) \in Nat /\ Peak(q) >= q /\ Peak(q) >= past.peak
  BY DEF Pasts, Peak

(* What each event leaves in the past.                                     *)
LEMMA BuyPast ==
  ASSUME TypeOK, NEW o \in Orders, Buy(o)
  PROVE  /\ past' \in Pasts
         /\ past'.funds = past.funds /\ past'.sells = past.sells
         /\ past'.oversold = past.oversold
         /\ past'.unpriced = (past.unpriced \/ o.price = 0)
         /\ past'.unmatched = (past.unmatched \/ NetQty(o) = 0)
         /\ past'.peak >= past.peak /\ past'.peak >= state.wac_qty + NetQty(o)
<1> DEFINE u == past.unpriced \/ o.price = 0
           v == past.unmatched \/ NetQty(o) = 0
           n == Peak(state.wac_qty + NetQty(o))
<1>1. past \in Pasts /\ state.wac_qty + NetQty(o) \in Int
  BY OrderAmounts DEF TypeOK, Pasts
<1>2. /\ u \in BOOLEAN /\ v \in BOOLEAN
      /\ n \in Nat /\ n >= past.peak /\ n >= state.wac_qty + NetQty(o)
  BY <1>1, PeakNat
<1>3. past' = [past EXCEPT !.unpriced = u, !.unmatched = v, !.peak = n]
  BY DEF Buy
<1> HIDE DEF u, v, n
<1>4. /\ past' \in Pasts
      /\ past'.funds = past.funds /\ past'.sells = past.sells
      /\ past'.oversold = past.oversold
      /\ past'.unpriced = u /\ past'.unmatched = v /\ past'.peak = n
  <2>1. past' = [funds |-> past.funds, sells |-> past.sells, peak |-> n,
                 oversold |-> past.oversold, unpriced |-> u, unmatched |-> v]
    BY <1>1, <1>2, <1>3, BoughtPast
  <2> QED BY <1>1, <1>2, <2>1 DEF Pasts
<1>5. /\ past'.unpriced = (past.unpriced \/ o.price = 0)
      /\ past'.unmatched = (past.unmatched \/ NetQty(o) = 0)
  BY <1>4, Zenon DEF u, v
<1> QED BY <1>2, <1>4, <1>5

LEMMA SellPast ==
  ASSUME TypeOK, NEW o \in Orders, Sell(o)
  PROVE  /\ past' \in Pasts
         /\ past'.funds = past.funds /\ past'.sells = past.sells + 1
         /\ past'.oversold = (past.oversold \/ QtyOut(o) > state.wac_qty)
         /\ past'.unpriced = (past.unpriced \/ o.price = 0)
         /\ past'.unmatched = past.unmatched /\ past'.peak = past.peak
<1> DEFINE u == past.unpriced \/ o.price = 0
           v == past.oversold \/ QtyOut(o) > state.wac_qty
           n == past.sells + 1
<1>1. past \in Pasts
  BY DEF TypeOK, Pasts
<1>2. u \in BOOLEAN /\ v \in BOOLEAN /\ n \in Nat
  BY <1>1 DEF Pasts
<1>3. past' = [past EXCEPT !.unpriced = u, !.sells = n, !.oversold = v]
  BY DEF Sell
<1> HIDE DEF u, v, n
<1>4. /\ past' \in Pasts
      /\ past'.funds = past.funds /\ past'.sells = n /\ past'.oversold = v
      /\ past'.unpriced = u /\ past'.unmatched = past.unmatched
      /\ past'.peak = past.peak
  <2>1. past' = [funds |-> past.funds, sells |-> n, peak |-> past.peak, oversold |-> v,
                 unpriced |-> u, unmatched |-> past.unmatched]
    BY <1>1, <1>2, <1>3, SoldPast
  <2> QED BY <1>1, <1>2, <2>1 DEF Pasts
<1>5. /\ past'.oversold = (past.oversold \/ QtyOut(o) > state.wac_qty)
      /\ past'.unpriced = (past.unpriced \/ o.price = 0)
      /\ past'.sells = past.sells + 1
  BY <1>4, Zenon DEF u, v, n
<1> QED BY <1>4, <1>5

LEMMA ExchangePast ==
  ASSUME TypeOK, NEW a \in Adjustments, ExchangeFlow(a)
  PROVE  /\ past' \in Pasts
         /\ past'.funds = past.funds /\ past'.sells = past.sells
         /\ past'.oversold = past.oversold
         /\ past'.unpriced = past.unpriced /\ past'.unmatched = TRUE
         /\ past'.peak >= past.peak /\ past'.peak >= state.wac_qty + Signed(a)
<1> DEFINE n == Peak(state.wac_qty + Signed(a))
<1>1. past \in Pasts /\ state.wac_qty + Signed(a) \in Int
  BY SignedInt DEF TypeOK, Pasts
<1>2. n \in Nat /\ n >= past.peak /\ n >= state.wac_qty + Signed(a)
  BY <1>1, PeakNat
<1>3. past' = [past EXCEPT !.unmatched = TRUE, !.peak = n]
  BY DEF ExchangeFlow
<1> HIDE DEF n
<1>4. past' = [funds |-> past.funds, sells |-> past.sells, peak |-> n,
               oversold |-> past.oversold, unpriced |-> past.unpriced, unmatched |-> TRUE]
  BY <1>1, <1>2, <1>3, MovedPast
<1> QED BY <1>1, <1>2, <1>4 DEF Pasts

(* Every variable keeps its type: no event makes an amount that is not a   *)
(* whole step, nor a price below nothing.                                  *)
THEOREM TypeCorrect == Spec => []TypeOK
<1>1. Init => TypeOK
  BY EventsAssumption DEF Init, TypeOK, NewDay, NoSnapshot
<1>2. TypeOK /\ [Next]_vars => TypeOK'
  <2> SUFFICES ASSUME TypeOK, [Next]_vars PROVE TypeOK'
    OBVIOUS
  <2>1. state \in LedgerStates
    BY DEF TypeOK, LedgerStates
  <2>2. CASE UNCHANGED vars
    BY <2>2 DEF TypeOK, vars
  <2>3. /\ day \in Days /\ past \in Pasts /\ events \in 0..MaxEvents
        /\ snap \in Snapshots
    BY DEF TypeOK, Days, Pasts, Snapshots
  <2>4. ASSUME NEW o \in Orders, Buy(o) \/ Sell(o) PROVE TypeOK'
    <3>1. state' \in LedgerStates
      BY <2>1, <2>4, BuyState, SellState DEF Buy, Sell
    <3>2. day' \in Days
      BY <2>3, <2>4, OrderAmounts DEF Buy, Sell, Traded, Days
    <3>3. past' \in Pasts
      BY <2>4, BuyPast, SellPast
    <3>4. events' \in 0..MaxEvents /\ snap' = snap
      BY <2>3, <2>4, EventsAssumption DEF Buy, Sell
    <3> QED BY <2>3, <3>1, <3>2, <3>3, <3>4 DEF TypeOK, LedgerStates, Days, Pasts, Snapshots
  <2>5. ASSUME NEW a \in Adjustments, BankFlow(a) \/ ExchangeFlow(a) PROVE TypeOK'
    <3>1. Signed(a) \in Int
      BY SignedInt
    <3>3. ASSUME BankFlow(a) PROVE state' \in LedgerStates /\ day' \in Days /\ past' \in Pasts
      <4>1. state' \in LedgerStates
        BY <2>1, <3>1, <3>3 DEF BankFlow, LedgerStates
      <4>2. day' \in Days
        <5> DEFINE once == [day EXCEPT !.events = TRUE]
        <5>1. day' = [once EXCEPT !.bank_adj = @ + Signed(a)]
          BY <3>3 DEF BankFlow
        <5>2. once \in Days
          BY <2>3 DEF Days
        <5> HIDE DEF once
        <5> QED BY <3>1, <5>1, <5>2 DEF Days
      <4>3. past' \in Pasts
        BY <2>3, <3>1, <3>3 DEF BankFlow, Pasts
      <4> QED BY <4>1, <4>2, <4>3
    <3>4. ASSUME ExchangeFlow(a) PROVE state' \in LedgerStates /\ day' \in Days /\ past' \in Pasts
      <4>1. state' \in LedgerStates
        <5> DEFINE once == [state EXCEPT !.exchange = @ + Signed(a)]
        <5>1. state' = [once EXCEPT !.wac_qty = @ + Signed(a)]
          BY <3>4 DEF ExchangeFlow
        <5>2. once \in LedgerStates
          BY <2>1, <3>1 DEF LedgerStates
        <5> HIDE DEF once
        <5> QED BY <3>1, <5>1, <5>2 DEF LedgerStates
      <4>2. day' \in Days
        <5> DEFINE once == [day EXCEPT !.events = TRUE]
        <5>1. day' = [once EXCEPT !.exchange_adj = @ + Signed(a)]
          BY <3>4 DEF ExchangeFlow
        <5>2. once \in Days
          BY <2>3 DEF Days
        <5> HIDE DEF once
        <5> QED BY <3>1, <5>1, <5>2 DEF Days
      <4>3. past' \in Pasts
        BY <3>4, ExchangePast
      <4> QED BY <4>1, <4>2, <4>3
    <3>5. state' \in LedgerStates /\ day' \in Days /\ past' \in Pasts
      BY <2>5, <3>3, <3>4
    <3>6. events' \in 0..MaxEvents /\ snap' = snap
      BY <2>3, <2>5, EventsAssumption DEF BankFlow, ExchangeFlow
    <3> QED BY <2>3, <3>5, <3>6 DEF TypeOK, LedgerStates, Days, Pasts, Snapshots
  <2>6. CASE NextDay
    BY <2>6, SnapshotType DEF NextDay, NewDay, TypeOK
  <2> QED BY <2>2, <2>4, <2>5, <2>6 DEF Next
<1> QED BY <1>1, <1>2, PTL DEF Spec

-----------------------------------------------------------------------------
(* Only sales move position and balance apart, and only ever further.      *)
LEMMA SellGap ==
  ASSUME NEW s \in LedgerStates, NEW o \in Orders
  PROVE  LET t == ApplySell(s, o)
         IN  IF QtyOut(o) <= s.wac_qty
             THEN t.wac_qty - t.exchange = s.wac_qty - s.exchange
             ELSE t.wac_qty = 0 /\ t.exchange = s.exchange - QtyOut(o)
  BY OrderAmounts DEF ApplySell, LedgerStates

(* The WAC position equals the exchange balance until a sale goes beyond   *)
(* it, and exceeds it for ever after, whatever orders and adjustments the  *)
(* account has.                                                            *)
THEOREM PositionIsBalance == Spec => []PositionMatchesExchange
<1>1. Init => PositionMatchesExchange
  BY DEF Init, PositionMatchesExchange
<1>2. TypeOK /\ PositionMatchesExchange /\ [Next]_vars => PositionMatchesExchange'
  <2> SUFFICES ASSUME TypeOK, PositionMatchesExchange, [Next]_vars
               PROVE  PositionMatchesExchange'
    OBVIOUS
  <2> USE DEF PositionMatchesExchange
  <2>1. state \in LedgerStates
    BY DEF TypeOK, LedgerStates
  <2>2. CASE UNCHANGED vars
    BY <2>2 DEF vars
  <2>3. ASSUME NEW o \in Orders, Buy(o) PROVE PositionMatchesExchange'
    <3>1. /\ state'.exchange = state.exchange + NetQty(o)
          /\ state'.wac_qty = state.wac_qty + NetQty(o)
      BY <2>1, <2>3 DEF Buy, ApplyBuy, LedgerStates
    <3>2. past'.oversold = past.oversold
      BY <2>3 DEF Buy, TypeOK
    <3> QED BY <2>1, <3>1, <3>2, OrderAmounts DEF LedgerStates
  <2>4. ASSUME NEW o \in Orders, Sell(o) PROVE PositionMatchesExchange'
    <3>1. past'.oversold = (past.oversold \/ QtyOut(o) > state.wac_qty)
      BY <2>4 DEF Sell, TypeOK
    <3>2. state' = ApplySell(state, o) /\ state' \in LedgerStates /\ QtyOut(o) \in Int
      BY <2>1, <2>4, SellState, OrderAmounts DEF Sell
    <3>3. CASE QtyOut(o) <= state.wac_qty
      <4>1. state'.wac_qty - state'.exchange = state.wac_qty - state.exchange
        BY <2>1, <3>2, <3>3, SellGap
      <4>2. ~(QtyOut(o) > state.wac_qty)
        BY <2>1, <3>2, <3>3 DEF LedgerStates
      <4>3. past'.oversold <=> past.oversold
        BY <3>1, <4>2, Zenon
      <4>4. state'.exchange \in Int /\ state'.wac_qty \in Int
        BY <3>2 DEF LedgerStates
      <4> QED BY <2>1, <4>1, <4>3, <4>4 DEF LedgerStates
    <3>4. CASE ~(QtyOut(o) <= state.wac_qty)
      <4>1. state'.wac_qty = 0 /\ state'.exchange = state.exchange - QtyOut(o)
        BY <2>1, <3>2, <3>4, SellGap
      <4>2. state.exchange <= state.wac_qty /\ QtyOut(o) > state.wac_qty
        BY <2>1, <3>2, <3>4 DEF LedgerStates
      <4>3. past'.oversold
        BY <3>1, <4>2, Zenon
      <4>4. state'.exchange < state'.wac_qty
        BY <2>1, <3>2, <4>1, <4>2 DEF LedgerStates
      <4> QED BY <4>3, <4>4
    <3> QED BY <3>3, <3>4
  <2>5. ASSUME NEW a \in Adjustments, ExchangeFlow(a) PROVE PositionMatchesExchange'
    <3>1. /\ state'.exchange = state.exchange + Signed(a)
          /\ state'.wac_qty = state.wac_qty + Signed(a)
      BY <2>1, <2>5 DEF ExchangeFlow, LedgerStates
    <3>2. past'.oversold = past.oversold
      BY <2>5 DEF ExchangeFlow, TypeOK
    <3> QED BY <2>1, <3>1, <3>2, SignedInt DEF LedgerStates
  <2>6. ASSUME NEW a \in Adjustments, BankFlow(a) PROVE PositionMatchesExchange'
    BY <2>1, <2>6 DEF BankFlow, TypeOK, LedgerStates
  <2>7. CASE NextDay
    BY <2>7 DEF NextDay
  <2> QED BY <2>2, <2>3, <2>4, <2>5, <2>6, <2>7 DEF Next
<1> QED BY <1>1, <1>2, TypeCorrect, PTL DEF Spec

-----------------------------------------------------------------------------
(* Two amounts that lose the same m before they are rounded, of cost and   *)
(* of proceeds, are apart by a step more or less.                          *)
LEMMA SameOff ==
  ASSUME NEW c \in Int, NEW r \in Int, NEW m \in Int
  PROVE  LET off == (r - Round(r * Scale - m, Scale)) - (c - Round(c * Scale - m, Scale))
         IN  off \in Int /\ -1 <= off /\ off <= 1
<1> DEFINE x == Round(r * Scale - m, Scale)
           y == Round(c * Scale - m, Scale)
           off == (r - x) - (c - y)
<1>1. r * Scale \in Int /\ c * Scale \in Int /\ Scale \in Nat \ {0}
  BY ScaleNat, TimesInt
<1>2. /\ x \in Int /\ -Scale <= 2 * (r * Scale - m - Scale * x)
      /\ 2 * (r * Scale - m - Scale * x) <= Scale /\ Scale * x \in Int
  BY <1>1, RoundClose
<1>3. /\ y \in Int /\ -Scale <= 2 * (c * Scale - m - Scale * y)
      /\ 2 * (c * Scale - m - Scale * y) <= Scale /\ Scale * y \in Int
  BY <1>1, RoundClose
<1> HIDE DEF x, y
<1>4. off \in Int
  BY <1>2, <1>3
<1>5. Scale * off = (r * Scale - Scale * x) - (c * Scale - Scale * y)
  BY <1>1, <1>2, <1>3
<1> HIDE DEF off
<1>6. Scale * off \in Int /\ Scale * (-1) <= Scale * off /\ Scale * off <= Scale * 1
  BY <1>1, <1>2, <1>3, <1>5
<1>7. -1 <= off /\ off <= 1
  BY <1>1, <1>4, <1>6, Cancels
<1> QED BY <1>4, <1>7 DEF off, x, y

(* The average price is off by half a step for each step of USDT.          *)
LEMMA WacPriceClose ==
  ASSUME NEW s \in LedgerStates, s.wac_qty > 0
  PROVE  /\ WacPrice(s) \in Int /\ s.wac_qty * WacPrice(s) \in Int
         /\ -s.wac_qty <= 2 * (s.wac_cost * Scale - s.wac_qty * WacPrice(s))
         /\ 2 * (s.wac_cost * Scale - s.wac_qty * WacPrice(s)) <= s.wac_qty
<1>1. s.wac_cost \in Int /\ s.wac_qty \in Nat \ {0}
  BY DEF LedgerStates
<1>2. s.wac_cost * Scale \in Int
  BY <1>1, ScaleNat, TimesInt
<1> QED BY <1>1, <1>2, RoundClose DEF WacPrice

(* A sale of the whole position leaves of its cost what rounding has kept. *)
LEMMA EmptiedCost ==
  ASSUME NEW s \in LedgerStates, s.wac_qty > 0
  PROVE  LET cost == Round(s.wac_cost * Scale - WacPrice(s) * s.wac_qty, Scale)
         IN  cost \in Int /\ Scale * (2 * Abs(cost) - 1) <= s.wac_qty
<1> DEFINE W == WacPrice(s)
           q == s.wac_qty
           c == s.wac_cost
           cost == Round(c * Scale - W * q, Scale)
<1>1. /\ W \in Int /\ q * W \in Int /\ q \in Nat \ {0} /\ c \in Int
      /\ -q <= 2 * (c * Scale - q * W) /\ 2 * (c * Scale - q * W) <= q
  BY WacPriceClose DEF LedgerStates
<1> HIDE DEF W, q, c
<1>2. c * Scale \in Int /\ W * q = q * W /\ Scale \in Nat \ {0}
  BY <1>1, ScaleNat, TimesInt
<1>3. /\ cost \in Int /\ -Scale <= 2 * (c * Scale - q * W - Scale * cost)
      /\ 2 * (c * Scale - q * W - Scale * cost) <= Scale /\ Scale * cost \in Int
  BY <1>1, <1>2, RoundClose
<1> HIDE DEF cost
<1>4. CASE cost >= 0
  <2>1. Abs(cost) = cost /\ Scale * (2 * cost - 1) = 2 * (Scale * cost) - Scale
    BY <1>2, <1>3, <1>4 DEF Abs
  <2> QED BY <1>1, <1>2, <1>3, <2>1 DEF cost, W, q, c
<1>5. CASE cost < 0
  <2>1. Abs(cost) = -cost /\ Scale * (2 * (-cost) - 1) = -2 * (Scale * cost) - Scale
    BY <1>2, <1>3, <1>5 DEF Abs
  <2> QED BY <1>1, <1>2, <1>3, <2>1 DEF cost, W, q, c
<1> QED BY <1>3, <1>4, <1>5

(* Nothing is taken from a cost by rounding it.                            *)
LEMMA RoundExact ==
  ASSUME NEW c \in Int
  PROVE  Round(c * Scale, Scale) = c
<1> DEFINE y == Round(c * Scale, Scale)
<1>1. c * Scale \in Int /\ Scale \in Nat \ {0}
  BY ScaleNat, TimesInt
<1>2. /\ y \in Int /\ -Scale <= 2 * (c * Scale - Scale * y)
      /\ 2 * (c * Scale - Scale * y) <= Scale /\ Scale * y \in Int
  BY <1>1, RoundClose
<1> HIDE DEF y
<1>3. Scale * (2 * (c - y)) = 2 * (c * Scale - Scale * y)
  BY <1>1, <1>2
<1>4. 2 * (c - y) \in Int /\ Scale * (-1) <= Scale * (2 * (c - y))
      /\ Scale * (2 * (c - y)) <= Scale * 1
  BY <1>1, <1>2, <1>3
<1>5. -1 <= 2 * (c - y) /\ 2 * (c - y) <= 1
  BY <1>1, <1>4, Cancels
<1>6. y = c
  BY <1>2, <1>5
<1> QED BY <1>6 DEF y

(* Apart by no more than a sale may round, a step for each, one for the    *)
(* valuation and half a step of price on the largest position.             *)
Within(n, p) == 2 * Scale * (Abs(n) - p.sells - 1) <= p.peak

(* The same without absolute value, and without a product of sums.         *)
LEMMA WithinIs ==
  ASSUME NEW n \in Int, NEW p \in Pasts
  PROVE  /\ Scale * n \in Int /\ Scale * p.sells \in Int
         /\ Within(n, p) <=>
              /\ 2 * (Scale * n) <= 2 * (Scale * p.sells) + 2 * Scale + p.peak
              /\ -2 * (Scale * n) <= 2 * (Scale * p.sells) + 2 * Scale + p.peak
<1> DEFINE k == p.sells
           q == p.peak
<1>1. Scale \in Nat \ {0} /\ k \in Nat /\ q \in Nat
  BY ScaleNat DEF Pasts
<1> HIDE DEF k, q
<1>2. Scale * n \in Int /\ Scale * k \in Int /\ (n < 0 => Scale * n <= 0)
      /\ (n >= 0 => Scale * n >= 0) /\ Scale * k >= 0
  BY <1>1
<1>3. CASE n >= 0
  <2>1. 2 * Scale * (n - k - 1) = 2 * (Scale * n) - 2 * (Scale * k) - 2 * Scale
    BY <1>1
  <2> QED BY <1>1, <1>2, <1>3, <2>1 DEF Within, Abs, k, q
<1>4. CASE n < 0
  <2>1. 2 * Scale * ((-n) - k - 1) = -2 * (Scale * n) - 2 * (Scale * k) - 2 * Scale
    BY <1>1
  <2> QED BY <1>1, <1>2, <1>4, <2>1 DEF Within, Abs, k, q
<1> QED BY <1>3, <1>4

(* Scaling keeps the order.                                                *)
LEMMA ScaleUp ==
  ASSUME NEW m \in Int, NEW n \in Int, m <= n
  PROVE  Scale * m \in Int /\ Scale * n \in Int /\ Scale * m <= Scale * n
<1>1. Scale \in Nat
  BY ScaleNat
<1> QED BY <1>1

(* More sales and a larger position allow no less.                         *)
LEMMA WithinGrows ==
  ASSUME NEW n \in Int, NEW p \in Pasts, NEW r \in Pasts,
         p.sells <= r.sells, p.peak <= r.peak, Within(n, p)
  PROVE  Within(n, r)
<1>1. Scale * p.sells <= Scale * r.sells
  BY ScaleUp DEF Pasts
<1>2. Scale \in Int /\ p.peak \in Int /\ r.peak \in Int
  BY ScaleNat DEF Pasts
<1>3. /\ Scale * n \in Int /\ Scale * p.sells \in Int /\ Scale * r.sells \in Int
      /\ 2 * (Scale * n) <= 2 * (Scale * p.sells) + 2 * Scale + p.peak
      /\ -2 * (Scale * n) <= 2 * (Scale * p.sells) + 2 * Scale + p.peak
  BY WithinIs
<1> DEFINE x == Scale * n
           y == Scale * p.sells
           z == Scale * r.sells
<1>4. /\ 2 * x <= 2 * z + 2 * Scale + r.peak /\ -2 * x <= 2 * z + 2 * Scale + r.peak
  <2>1. x \in Int /\ y \in Int /\ z \in Int /\ y <= z
        /\ 2 * x <= 2 * y + 2 * Scale + p.peak /\ -2 * x <= 2 * y + 2 * Scale + p.peak
    BY <1>1, <1>3
  <2> HIDE DEF x, y, z
  <2> QED BY <1>2, <2>1
<1> QED BY <1>4, WithinIs

-----------------------------------------------------------------------------
(* What the two profits are made of: money and cost of the position are    *)
(* what was put in and what was realised, but for a step with each sale;   *)
(* and a position sold out has left no more of its cost than rounding kept *)
(* of it. Adjusting the position does not adjust its cost, nor does an     *)
(* oversale, whence the two conditions.                                    *)
Matched == ~past.oversold /\ ~past.unmatched

CostInv ==
    /\ ~past.oversold =>
          Abs(state.bank + state.wac_cost - state.realized - past.funds) <= past.sells
    /\ past.peak >= state.wac_qty
    /\ Matched => /\ state.wac_qty >= 0
                  /\ state.wac_qty = 0 => Scale * (2 * Abs(state.wac_cost) - 1) <= past.peak

(* An absolute value is a bound on both sides.                             *)
LEMMA AbsAtMost ==
  ASSUME NEW n \in Int, NEW k \in Int
  PROVE  Abs(n) \in Nat /\ (Abs(n) <= k <=> -k <= n /\ n <= k)
  BY DEF Abs

(* A purchase adds to the cost what it takes from the bank.                *)
LEMMA BuyCost ==
  ASSUME TypeOK, CostInv, NEW o \in Orders, Buy(o)
  PROVE  CostInv'
<1>1. /\ state \in LedgerStates /\ past \in Pasts
      /\ NetQty(o) \in Nat /\ NetRub(o) + Fee(o, "RUB") \in Int
  <2>1. o.quantity \in Nat /\ Fee(o, "USDT") \in Nat
    BY OrderAmounts, OrdersAssumption
  <2>2. NetQty(o) \in Nat
    BY <2>1 DEF NetQty, Abs
  <2> QED BY <2>2, OrderAmounts DEF TypeOK, LedgerStates, Pasts
<1> DEFINE rub == NetRub(o) + Fee(o, "RUB")
<1>2. /\ state'.bank = state.bank - rub /\ state'.wac_cost = state.wac_cost + rub
      /\ state'.realized = state.realized /\ state'.wac_qty = state.wac_qty + NetQty(o)
  BY DEF Buy, ApplyBuy
<1>3. /\ past' \in Pasts
      /\ past'.funds = past.funds /\ past'.sells = past.sells
      /\ past'.oversold = past.oversold
      /\ past'.unmatched = (past.unmatched \/ NetQty(o) = 0)
      /\ past'.peak >= past.peak /\ past'.peak >= state.wac_qty + NetQty(o)
  BY BuyPast
<1>4. /\ state.bank \in Int /\ state.wac_cost \in Int /\ state.realized \in Int
      /\ state.wac_qty \in Int
  BY <1>1 DEF LedgerStates
<1>5. state'.bank + state'.wac_cost - state'.realized - past'.funds
        = state.bank + state.wac_cost - state.realized - past.funds
  BY <1>1, <1>2, <1>3, <1>4 DEF Pasts
<1>6. Matched' => Matched /\ NetQty(o) > 0
  <2>1. Matched' => Matched /\ ~(NetQty(o) = 0)
    BY <1>3, Zenon DEF Matched
  <2> QED BY <1>1, <2>1
<1>7. Matched' => state'.wac_qty > 0
  BY <1>1, <1>2, <1>4, <1>6 DEF CostInv
<1>8. past'.peak >= state'.wac_qty
  BY <1>2, <1>3
<1>9. ~past'.oversold =>
         Abs(state'.bank + state'.wac_cost - state'.realized - past'.funds) <= past'.sells
  BY <1>3, <1>5 DEF CostInv
<1>10. Matched' => state'.wac_qty >= 0 /\ state'.wac_qty # 0
  BY <1>1, <1>2, <1>4, <1>7
<1> QED BY <1>8, <1>9, <1>10 DEF CostInv

(* A sale is off by a step, and an emptied position by rounding.           *)
LEMMA SellCost ==
  ASSUME TypeOK, CostInv, NEW o \in Orders, Sell(o)
  PROVE  CostInv'
<1> DEFINE rub == NetRub(o) - Fee(o, "RUB")
           wac == WacPrice(state)
           out == QtyOut(o)
           off == wac * out
           cost == Round(state.wac_cost * Scale - off, Scale)
           gain == Round(rub * Scale - off, Scale)
<1>1. /\ state \in LedgerStates /\ past \in Pasts
      /\ rub \in Int /\ out \in Nat /\ wac \in Int
  <2>1. o.quantity \in Nat /\ o.fee \in Nat /\ o.currency \in {"", "USDT", "RUB"}
    BY OrdersAssumption
  <2>2. out \in Nat
    <3>1. NetQty(o) = o.quantity /\ Fee(o, "USDT") \in Nat
      BY <2>1, OrderAmounts DEF NetQty, Sell
    <3>2. out = o.quantity + Fee(o, "USDT")
      BY <3>1 DEF QtyOut
    <3>3. \A m, n \in Nat : m + n \in Nat
      OBVIOUS
    <3>4. o.quantity + Fee(o, "USDT") \in Nat
      BY <2>1, <3>1, <3>3
    <3> HIDE DEF out
    <3> QED BY <3>2, <3>4
  <2> QED BY <2>2, OrderAmounts, WacPriceInt DEF TypeOK, LedgerStates, Pasts
<1>2. /\ state.bank \in Int /\ state.wac_cost \in Int /\ state.realized \in Int
      /\ state.wac_qty \in Int /\ past.funds \in Int /\ past.sells \in Nat
      /\ past.peak \in Nat /\ past.oversold \in BOOLEAN
  BY <1>1 DEF LedgerStates, Pasts
<1>3. /\ past' \in Pasts
      /\ past'.funds = past.funds /\ past'.sells = past.sells + 1
      /\ past'.oversold = (past.oversold \/ out > state.wac_qty)
      /\ past'.unmatched = past.unmatched /\ past'.peak = past.peak
  BY SellPast
<1>4. CASE past'.oversold
  <2>1. state'.wac_qty <= past'.peak
    <3>1. state'.wac_qty = state.wac_qty - (IF out <= state.wac_qty THEN out
                                           ELSE state.wac_qty)
      BY DEF Sell, ApplySell
    <3> HIDE DEF out
    <3> QED BY <1>1, <1>2, <1>3, <3>1 DEF CostInv
  <2>2. past'.peak >= state'.wac_qty
    BY <1>3, <2>1
  <2> QED BY <1>4, <2>2 DEF CostInv, Matched
<1>5. CASE ~past'.oversold
  <2>1. ~past.oversold /\ out <= state.wac_qty
    <3> HIDE DEF out
    <3>1. ~past.oversold /\ ~(out > state.wac_qty)
      BY <1>3, <1>5, Zenon
    <3> QED BY <1>1, <1>2, <3>1
  <2>2. /\ state'.bank = state.bank + rub /\ state'.wac_cost = cost
        /\ state'.realized = state.realized + gain
        /\ state'.wac_qty = state.wac_qty - out
    BY <2>1 DEF Sell, ApplySell
  <2>3. off \in Int
    <3> HIDE DEF wac, out
    <3> QED BY <1>1, TimesInt
  <2>4. /\ cost \in Int /\ gain \in Int
        /\ -1 <= (rub - gain) - (state.wac_cost - cost)
        /\ (rub - gain) - (state.wac_cost - cost) <= 1
    <3> HIDE DEF off, rub
    <3>1. rub * Scale - off \in Int /\ state.wac_cost * Scale - off \in Int
      BY <1>1, <1>2, <2>3, ScaleNat, TimesInt
    <3>2. cost \in Int /\ gain \in Int
      BY <3>1, ScaleNat, RoundClose
    <3> QED BY <1>1, <1>2, <2>3, <3>2, SameOff
  <2>5. Abs(state'.bank + state'.wac_cost - state'.realized - past'.funds) <= past'.sells
    <3> DEFINE before == state.bank + state.wac_cost - state.realized - past.funds
               after == state'.bank + state'.wac_cost - state'.realized - past'.funds
    <3>1. before \in Int /\ -past.sells <= before /\ before <= past.sells
      BY <1>2, <2>1, AbsAtMost DEF CostInv
    <3> HIDE DEF cost, gain, rub
    <3>2. after \in Int /\ after = before + ((rub - gain) - (state.wac_cost - cost))
      BY <1>1, <1>2, <1>3, <2>2, <2>4
    <3> HIDE DEF before, after
    <3>3. -(past.sells + 1) <= after /\ after <= past.sells + 1
      BY <1>1, <1>2, <2>4, <3>1, <3>2
    <3> QED BY <1>2, <1>3, <3>2, <3>3, AbsAtMost DEF after
  <2>6. past'.peak >= state'.wac_qty /\ state'.wac_qty >= 0
    <3> HIDE DEF out
    <3> QED BY <1>1, <1>2, <1>3, <2>1, <2>2 DEF CostInv
  <2>7. ASSUME Matched', state'.wac_qty = 0
        PROVE  Scale * (2 * Abs(state'.wac_cost) - 1) <= past'.peak
    <3>1. Matched /\ out = state.wac_qty
      <4> HIDE DEF out
      <4>1. Matched
        BY <1>3, <2>1, <2>7, Zenon DEF Matched
      <4>2. out = state.wac_qty
        <5>1. state'.wac_qty = state.wac_qty - out
          BY <2>2
        <5> QED BY <1>1, <1>2, <2>7, <5>1
      <4> QED BY <4>1, <4>2
    <3>2. CASE state.wac_qty > 0
      <4>1. Scale * (2 * Abs(cost) - 1) <= state.wac_qty /\ cost \in Int
        BY <1>1, <3>1, <3>2, EmptiedCost
      <4>2. Scale * (2 * Abs(cost) - 1) \in Int
        <5> HIDE DEF cost
        <5>1. 2 * Abs(cost) - 1 \in Int
          BY <4>1 DEF Abs
        <5> QED BY <5>1, ScaleNat, TimesInt
      <4> HIDE DEF cost
      <4> QED BY <1>2, <1>3, <2>2, <4>1, <4>2 DEF CostInv
    <3>3. CASE state.wac_qty = 0
      <4>1. out = 0 /\ wac = 0
        BY <3>1, <3>3 DEF WacPrice
      <4>2. off = 0
        BY <4>1
      <4>3. state.wac_cost * Scale - off = state.wac_cost * Scale
        <5> HIDE DEF off
        <5>1. state.wac_cost * Scale \in Int
          BY <1>2, ScaleNat, TimesInt
        <5> QED BY <4>2, <5>1
      <4>4. cost = state.wac_cost
        BY <1>2, <4>3, RoundExact
      <4> QED BY <1>3, <2>2, <3>1, <3>3, <4>4 DEF CostInv
    <3>4. state.wac_qty >= 0
      BY <3>1 DEF CostInv
    <3> QED BY <1>2, <3>2, <3>3, <3>4
  <2> QED BY <2>5, <2>6, <2>7 DEF CostInv
<1> QED BY <1>4, <1>5

(* Roubles move with the funds; USDT by themselves are unmatched.          *)
LEMMA FlowCost ==
  ASSUME TypeOK, CostInv, NEW a \in Adjustments, BankFlow(a) \/ ExchangeFlow(a)
  PROVE  CostInv'
<1>1. /\ state \in LedgerStates /\ past \in Pasts /\ Signed(a) \in Int
      /\ state.bank \in Int /\ state.wac_cost \in Int /\ state.realized \in Int
      /\ state.wac_qty \in Int /\ past.funds \in Int
  BY SignedInt DEF TypeOK, LedgerStates, Pasts
<1>2. CASE BankFlow(a)
  <2>1. /\ state'.bank = state.bank + Signed(a) /\ state'.wac_cost = state.wac_cost
        /\ state'.realized = state.realized /\ state'.wac_qty = state.wac_qty
    BY <1>1, <1>2 DEF BankFlow, LedgerStates
  <2>2. /\ past'.funds = past.funds + Signed(a) /\ past'.sells = past.sells
        /\ past'.oversold = past.oversold /\ past'.unmatched = past.unmatched
        /\ past'.peak = past.peak
    BY <1>1, <1>2 DEF BankFlow, Pasts
  <2>3. state'.bank + state'.wac_cost - state'.realized - past'.funds
          = state.bank + state.wac_cost - state.realized - past.funds
    BY <1>1, <2>1, <2>2
  <2> QED BY <2>1, <2>2, <2>3 DEF CostInv, Matched
<1>3. CASE ExchangeFlow(a)
  <2>1. /\ state'.bank = state.bank /\ state'.wac_cost = state.wac_cost
        /\ state'.realized = state.realized /\ state'.wac_qty = state.wac_qty + Signed(a)
    BY <1>1, <1>3 DEF ExchangeFlow, LedgerStates
  <2>2. /\ past'.funds = past.funds /\ past'.sells = past.sells
        /\ past'.oversold = past.oversold /\ past'.unmatched = TRUE
        /\ past'.peak >= state.wac_qty + Signed(a)
    BY <1>3, ExchangePast
  <2>3. ~Matched'
    BY <2>2 DEF Matched
  <2>4. past'.peak >= state'.wac_qty
    BY <2>1, <2>2
  <2>5. ~past'.oversold =>
           Abs(state'.bank + state'.wac_cost - state'.realized - past'.funds) <= past'.sells
    BY <2>1, <2>2 DEF CostInv
  <2> QED BY <2>3, <2>4, <2>5 DEF CostInv
<1> QED BY <1>2, <1>3

(* Every step keeps the books of the average price.                        *)
LEMMA CostKept == Spec => []CostInv
<1>1. Init => CostInv
  <2> SUFFICES ASSUME Init PROVE CostInv
    OBVIOUS
  <2>1. /\ state.bank = 0 /\ state.wac_cost = 0 /\ state.realized = 0 /\ state.wac_qty = 0
        /\ past.funds = 0 /\ past.sells = 0 /\ past.peak = 0
    BY DEF Init
  <2>2. Abs(0) = 0 /\ Scale * (2 * 0 - 1) <= 0
    BY ScaleNat DEF Abs
  <2> QED BY <2>1, <2>2 DEF CostInv
<1>2. TypeOK /\ CostInv /\ [Next]_vars => CostInv'
  <2> SUFFICES ASSUME TypeOK, CostInv, [Next]_vars PROVE CostInv'
    OBVIOUS
  <2>1. CASE UNCHANGED vars
    BY <2>1 DEF vars, CostInv, Matched
  <2>2. CASE NextDay
    BY <2>2 DEF NextDay, CostInv, Matched
  <2> QED BY <2>1, <2>2, BuyCost, SellCost, FlowCost DEF Next
<1> QED BY <1>1, <1>2, TypeCorrect, PTL DEF Spec

(* The value of a position is its cost and what is unrealised of it, at    *)
(* any price: the price cancels out.                                       *)
LEMMA PriceCancels ==
  ASSUME NEW s \in LedgerStates, s.wac_qty > 0, NEW p \in Nat
  PROVE  LET d == Value(s.wac_qty, p) - Round((p - WacPrice(s)) * s.wac_qty, Scale) - s.wac_cost
         IN  /\ d \in Int /\ Scale * d \in Int
             /\ 2 * (Scale * d) <= 2 * Scale + s.wac_qty
             /\ -2 * (Scale * d) <= 2 * Scale + s.wac_qty
<1> DEFINE q == s.wac_qty
           c == s.wac_cost
           w == WacPrice(s)
           v == Value(q, p)
           u == Round((p - w) * q, Scale)
           d == v - u - c
<1>1. /\ q \in Nat /\ c \in Int /\ w \in Int /\ q * w \in Int
      /\ -q <= 2 * (c * Scale - q * w) /\ 2 * (c * Scale - q * w) <= q
  BY WacPriceClose DEF LedgerStates
<1> HIDE DEF q, c, w
<1>2. /\ q * p \in Int /\ (p - w) * q \in Int /\ c * Scale \in Int
      /\ (p - w) * q = q * p - q * w /\ Scale \in Nat \ {0}
  BY <1>1, ScaleNat
<1>3. /\ v \in Int /\ Scale * v \in Int
      /\ -Scale <= 2 * (q * p - Scale * v) /\ 2 * (q * p - Scale * v) <= Scale
  BY <1>2, RoundClose DEF Value
<1>4. /\ u \in Int /\ Scale * u \in Int
      /\ -Scale <= 2 * ((p - w) * q - Scale * u) /\ 2 * ((p - w) * q - Scale * u) <= Scale
  BY <1>2, RoundClose
<1> HIDE DEF v, u
<1>5. d \in Int
  BY <1>1, <1>3, <1>4
<1>6. Scale * d = Scale * v - Scale * u - c * Scale
  BY <1>1, <1>2, <1>3, <1>4
<1> HIDE DEF d
<1>7. /\ Scale * d \in Int /\ 2 * (Scale * d) <= 2 * Scale + q
      /\ -2 * (Scale * d) <= 2 * Scale + q
  BY <1>1, <1>2, <1>3, <1>4, <1>6
<1> QED BY <1>5, <1>7 DEF d, v, u, q, c, w

(* The two sources of rounding together.                                   *)
LEMMA WithinSum ==
  ASSUME NEW e \in Int, NEW d \in Int, NEW p \in Pasts, NEW q \in Nat, q <= p.peak,
         Abs(e) <= p.sells,
         2 * (Scale * d) <= 2 * Scale + q, -2 * (Scale * d) <= 2 * Scale + q
  PROVE  Within(e + d, p)
<1>1. /\ p.sells \in Nat /\ p.peak \in Nat /\ Scale \in Nat \ {0} /\ Scale \in Int
  BY ScaleNat DEF Pasts
<1>2. -p.sells <= e /\ e <= p.sells
  BY <1>1, AbsAtMost
<1>3. /\ Scale * e <= Scale * p.sells /\ Scale * (-p.sells) <= Scale * e
  <2>1. -p.sells \in Int
    BY <1>1
  <2> QED BY <1>1, <1>2, <2>1, ScaleUp
<1> DEFINE x == Scale * e
           y == Scale * d
           z == Scale * p.sells
           n == e + d
<1>4. /\ x \in Int /\ y \in Int /\ z \in Int /\ Scale * (-p.sells) = -z
      /\ Scale * n = x + y /\ n \in Int
  BY <1>1
<1>5. /\ -z <= x /\ x <= z /\ 2 * y <= 2 * Scale + q /\ -2 * y <= 2 * Scale + q
  BY <1>3, <1>4
<1> HIDE DEF x, y, z, n
<1>6. /\ 2 * (x + y) <= 2 * z + 2 * Scale + p.peak
      /\ -2 * (x + y) <= 2 * z + 2 * Scale + p.peak
  BY <1>1, <1>4, <1>5
<1>7. Within(n, p)
  BY <1>4, <1>6, WithinIs DEF z
<1> QED BY <1>7 DEF n

(* The two profits at one moment.                                          *)
LEMMA ProfitsWithin ==
  ASSUME TypeOK, PositionMatchesExchange, CostInv,
         ~past.oversold, state.wac_qty > 0 \/ ~past.unmatched
  PROVE  Within(Equity - past.funds - Snapshot.running, past)
<1> DEFINE e == state.bank + state.wac_cost - state.realized - past.funds
           v == Value(state.exchange, LastPrice)
           d == v - Unrealized - state.wac_cost
           n == Equity - past.funds - Snapshot.running
<1>1. /\ state \in LedgerStates /\ past \in Pasts
      /\ state.bank \in Int /\ state.wac_cost \in Int /\ state.realized \in Int
      /\ state.wac_qty \in Int /\ past.funds \in Int
      /\ past.peak \in Nat /\ past.sells \in Nat
  BY DEF TypeOK, LedgerStates, Pasts
<1>2. /\ LastPrice \in Nat /\ Equity \in Int /\ Snapshot.running \in Int
      /\ Snapshot.running = state.realized + Unrealized
      /\ state.exchange = state.wac_qty
  BY SnapshotType DEF Snapshot, PositionMatchesExchange
<1>3. e \in Int /\ Abs(e) <= past.sells /\ state.wac_qty <= past.peak
  BY <1>1 DEF CostInv
<1>4. CASE state.wac_qty > 0
  <2>1. /\ d \in Int /\ Scale * d \in Int
        /\ 2 * (Scale * d) <= 2 * Scale + state.wac_qty
        /\ -2 * (Scale * d) <= 2 * Scale + state.wac_qty
    BY <1>1, <1>2, <1>4, PriceCancels DEF Unrealized
  <2>2. Within(e + d, past)
    <3> HIDE DEF e, d
    <3>1. state.wac_qty \in Nat
      BY <1>1, <1>4
    <3> QED BY <1>1, <1>3, <2>1, <3>1, WithinSum
  <2>3. v \in Int /\ Unrealized \in Int
    <3>1. /\ Value(state.exchange, LastPrice) \in Int
      <4>1. state.exchange * LastPrice \in Int
        BY <1>1, <1>2, TimesInt
      <4> QED BY <4>1, ScaleNat, RoundClose DEF Value
    <3>2. WacPrice(state) \in Int
      BY <1>1, WacPriceInt
    <3>3. (LastPrice - WacPrice(state)) * state.wac_qty \in Int
      <4>1. LastPrice - WacPrice(state) \in Int
        BY <1>2, <3>2
      <4> QED BY <1>1, <4>1, TimesInt
    <3> QED BY <3>1, <3>3, ScaleNat, RoundClose, <1>4 DEF Unrealized
  <2>4. e + d = n
    <3>1. Equity = state.bank + v
      BY DEF Equity
    <3> HIDE DEF v
    <3> QED BY <1>1, <1>2, <2>3, <3>1
  <2> QED BY <2>2, <2>4
<1>5. CASE ~(state.wac_qty > 0)
  <2>1. /\ Matched /\ state.wac_qty = 0
        /\ Scale * (2 * Abs(state.wac_cost) - 1) <= past.peak
    <3>1. Matched
      BY <1>5 DEF Matched
    <3>2. state.wac_qty = 0
      BY <1>1, <1>5, <3>1 DEF CostInv
    <3> QED BY <3>1, <3>2 DEF CostInv
  <2>2. v = 0 /\ Unrealized = 0
    <3>1. 0 * LastPrice = 0 /\ Round(0, Scale) = 0
      <4>1. 0 * LastPrice = 0
        BY <1>2
      <4>2. 0 * Scale = 0
        BY ScaleNat
      <4> QED BY <4>1, <4>2, RoundExact
    <3>2. v = Round(0 * LastPrice, Scale)
      BY <1>2, <2>1 DEF Value
    <3> QED BY <1>5, <3>1, <3>2 DEF Unrealized
  <2>3. n = e + (-state.wac_cost)
    <3>1. Equity = state.bank + v
      BY DEF Equity
    <3> HIDE DEF v
    <3> QED BY <1>1, <1>2, <2>2, <3>1
  <2> DEFINE c == -state.wac_cost
  <2>4. c \in Int /\ Abs(c) = Abs(state.wac_cost) /\ Abs(c) \in Nat
    BY <1>1 DEF Abs
  <2>5. /\ 2 * (Scale * c) <= 2 * Scale + past.peak
        /\ -2 * (Scale * c) <= 2 * Scale + past.peak
    <3> DEFINE a == Abs(c)
    <3>1. a \in Nat /\ Scale * (2 * a - 1) <= past.peak
      BY <2>1, <2>4
    <3>2. -a <= c /\ c <= a
      BY <2>4, AbsAtMost
    <3> HIDE DEF a, c
    <3>3. -a \in Int /\ Scale * (-a) <= Scale * c /\ Scale * c <= Scale * a
      BY <2>4, <3>1, <3>2, ScaleUp
    <3>4. /\ Scale \in Nat \ {0} /\ Scale * a \in Int /\ Scale * c \in Int
          /\ Scale * (2 * a - 1) = 2 * (Scale * a) - Scale /\ Scale * (-a) = -(Scale * a)
      BY <2>4, <3>1, ScaleNat
    <3> QED BY <1>1, <3>1, <3>3, <3>4
  <2>6. past.peak <= past.peak
    BY <1>1
  <2>7. Within(e + c, past)
    <3> HIDE DEF e, c
    <3> QED BY <1>1, <1>3, <2>4, <2>5, <2>6, WithinSum
  <2> QED BY <2>3, <2>7
<1> QED BY <1>4, <1>5

(* The two profits of the program agree to within the rounding of the      *)
(* sales and of the average price, whatever was traded, charged, booked    *)
(* and at whatever prices, as long as nothing was oversold and no roubles  *)
(* or USDT went without the other.                                         *)
THEOREM ProfitsAgree == Spec => []TwoProfitsAgree
<1>1. TypeOK /\ PositionMatchesExchange /\ CostInv => TwoProfitsAgree
  BY ProfitsWithin DEF TwoProfitsAgree, Within
<1> QED BY <1>1, TypeCorrect, PositionIsBalance, CostKept, PTL

-----------------------------------------------------------------------------
(* What prices a day without a trade, while every trade has had a price:   *)
(* the last trade's, which the snapshots carry; and before the first trade *)
(* there is no cost that could make one. The last snapshot's equity is     *)
(* what the accounts were worth before the flows of the day.               *)
PriceInv ==
    ~past.unpriced =>
        /\ day.trades => day.price = state.price /\ state.price > 0
        /\ state.price = 0 => state.wac_cost = 0 /\ snap.price = 0
        /\ snap.exists /\ ~day.trades =>
             /\ snap.price = state.price
             /\ snap.equity = state.bank - day.bank_adj
                                + Value(state.exchange - day.exchange_adj, state.price)

(* Nothing rounds to nothing.                                              *)
LEMMA RoundNothing == ASSUME NEW k \in Nat \ {0} PROVE Round(0, k) = 0
<1>1. /\ Round(0, k) \in Int /\ k * Round(0, k) \in Int
      /\ -k <= 2 * (0 - k * Round(0, k)) /\ 2 * (0 - k * Round(0, k)) <= k
  BY RoundClose
<1> DEFINE y == Round(0, k)
<1> HIDE DEF y
<1>2. y \in Int /\ k * y \in Int /\ -k <= 2 * (0 - k * y) /\ 2 * (0 - k * y) <= k
  BY <1>1 DEF y
<1>3. k * (2 * y) = 2 * (k * y) /\ k * 1 = k /\ k * (-1) = -k /\ 2 * y \in Int
  BY <1>2
<1>4. k * (2 * y) <= k * 1 /\ k * (-1) <= k * (2 * y)
  BY <1>2, <1>3
<1>5. 2 * y <= 1 /\ -1 <= 2 * y
  BY <1>3, <1>4, Cancels
<1>6. y = 0
  BY <1>2, <1>5
<1> QED BY <1>6 DEF y

(* That price is the one the day is valued at.                             *)
LEMMA PriceKnown ==
  ASSUME TypeOK, PriceInv, ~past.unpriced
  PROVE  LastPrice = state.price
<1>1. /\ state.price \in Nat /\ snap.price \in Nat /\ day.trades \in BOOLEAN
      /\ state \in LedgerStates /\ state.wac_qty \in Int
  BY DEF TypeOK, LedgerStates
<1>2. (IF day.trades THEN day.price ELSE state.price) = state.price
  BY DEF PriceInv
<1>3. CASE state.price > 0
  BY <1>2, <1>3 DEF LastPrice
<1>4. CASE state.price = 0
  <2>1. snap.price = 0 /\ state.wac_cost = 0
    BY <1>4 DEF PriceInv
  <2>2. WacPrice(state) = 0
    <3>1. 0 * Scale = 0
      BY ScaleNat
    <3>2. CASE state.wac_qty > 0
      <4>1. state.wac_qty \in Nat \ {0}
        BY <1>1, <3>2
      <4> QED BY <2>1, <3>1, <4>1, RoundNothing DEF WacPrice
    <3>3. CASE ~(state.wac_qty > 0)
      BY <3>3 DEF WacPrice
    <3> QED BY <3>2, <3>3
  <2> QED BY <1>2, <1>4, <2>1, <2>2 DEF LastPrice
<1> QED BY <1>1, <1>3, <1>4

(* Every step keeps the price.                                             *)
LEMMA PriceKept == Spec => []PriceInv
<1>1. Init => PriceInv
  BY DEF Init, NewDay, NoSnapshot, PriceInv
<1>2. TypeOK /\ PriceInv /\ [Next]_vars => PriceInv'
  <2> SUFFICES ASSUME TypeOK, PriceInv, [Next]_vars PROVE PriceInv'
    OBVIOUS
  <2>1. /\ state \in LedgerStates /\ day \in Days /\ past \in Pasts /\ snap \in Snapshots
    BY DEF TypeOK, LedgerStates, Days, Pasts, Snapshots
  <2>2. CASE UNCHANGED vars
    BY <2>2 DEF vars, PriceInv
  <2>3. ASSUME NEW o \in Orders, Buy(o) \/ Sell(o) PROVE PriceInv'
    <3>1. past'.unpriced = (past.unpriced \/ o.price = 0)
      BY <2>3, BuyPast, SellPast
    <3>2. state'.price = NewPrice(state, o) /\ day'.price = o.price /\ day'.trades = TRUE
      <4>1. state'.price = NewPrice(state, o)
        <5>1. state' = ApplyBuy(state, o) \/ state' = ApplySell(state, o)
          BY <2>3 DEF Buy, Sell
        <5> QED BY <5>1 DEF ApplyBuy, ApplySell
      <4>2. day'.price = o.price /\ day'.trades = TRUE
        BY <2>1, <2>3 DEF Buy, Sell, Traded, Days
      <4> QED BY <4>1, <4>2
    <3>3. SUFFICES ASSUME ~past'.unpriced
                   PROVE  day'.price = state'.price /\ state'.price > 0
      BY <3>2 DEF PriceInv
    <3>4. ~(o.price = 0)
      BY <3>1, <3>3, Zenon
    <3>5. o.price > 0
      BY <3>4, OrderAmounts
    <3> QED BY <3>2, <3>5 DEF NewPrice
  <2>4. ASSUME NEW a \in Adjustments, BankFlow(a) PROVE PriceInv'
    <3>1. /\ state'.price = state.price /\ state'.wac_cost = state.wac_cost
          /\ state'.exchange = state.exchange /\ state'.bank = state.bank + Signed(a)
      BY <2>1, <2>4 DEF BankFlow, LedgerStates
    <3>2. /\ day'.price = day.price /\ day'.trades = day.trades
          /\ day'.exchange_adj = day.exchange_adj /\ day'.bank_adj = day.bank_adj + Signed(a)
      BY <2>1, <2>4 DEF BankFlow, Days
    <3>3. past'.unpriced = past.unpriced /\ snap' = snap
      BY <2>1, <2>4 DEF BankFlow, Pasts
    <3>4. state'.bank - day'.bank_adj = state.bank - day.bank_adj
      BY <2>1, <3>1, <3>2, SignedInt DEF LedgerStates, Days
    <3> QED BY <3>1, <3>2, <3>3, <3>4 DEF PriceInv
  <2>5. ASSUME NEW a \in Adjustments, ExchangeFlow(a) PROVE PriceInv'
    <3>1. /\ state'.price = state.price /\ state'.wac_cost = state.wac_cost
          /\ state'.exchange = state.exchange + Signed(a) /\ state'.bank = state.bank
      BY <2>1, <2>5 DEF ExchangeFlow, LedgerStates
    <3>2. /\ day'.price = day.price /\ day'.trades = day.trades
          /\ day'.exchange_adj = day.exchange_adj + Signed(a) /\ day'.bank_adj = day.bank_adj
      BY <2>1, <2>5 DEF ExchangeFlow, Days
    <3>3. past'.unpriced = past.unpriced /\ snap' = snap
      BY <2>5, ExchangePast DEF ExchangeFlow
    <3>4. state'.exchange - day'.exchange_adj = state.exchange - day.exchange_adj
      BY <2>1, <3>1, <3>2, SignedInt DEF LedgerStates, Days
    <3> QED BY <3>1, <3>2, <3>3, <3>4 DEF PriceInv
  <2>6. CASE NextDay
    <3>1. /\ UNCHANGED <<state, past>> /\ day'.trades = FALSE /\ day'.bank_adj = 0
          /\ day'.exchange_adj = 0 /\ snap'.price = LastPrice /\ snap'.equity = Equity
      BY <2>6 DEF NextDay, NewDay, Snapshot
    <3>2. SUFFICES ASSUME ~past.unpriced
                   PROVE  /\ state.price = 0 => state.wac_cost = 0 /\ LastPrice = 0
                          /\ LastPrice = state.price
                          /\ Equity = state.bank - 0 + Value(state.exchange - 0, state.price)
      BY <3>1 DEF PriceInv
    <3>3. LastPrice = state.price
      BY <3>2, PriceKnown
    <3>4. state.bank - 0 = state.bank /\ state.exchange - 0 = state.exchange
      BY <2>1 DEF LedgerStates
    <3> QED BY <3>2, <3>3, <3>4 DEF Equity, PriceInv
  <2> QED BY <2>2, <2>3, <2>4, <2>5, <2>6 DEF Next
<1> QED BY <1>1, <1>2, TypeCorrect, PTL DEF Spec

(* A balance and what came to it are worth their sum, but for a step.      *)
LEMMA ValuesAdd ==
  ASSUME NEW m \in Int, NEW n \in Int, NEW p \in Nat
  PROVE  LET d == Value(m, p) - Value(m - n, p) - Value(n, p)
         IN  /\ Value(m, p) \in Int /\ Value(m - n, p) \in Int /\ Value(n, p) \in Int
             /\ -1 <= d /\ d <= 1
<1> DEFINE x == Value(m, p)
           y == Value(m - n, p)
           z == Value(n, p)
           d == x - y - z
<1>1. /\ m * p \in Int /\ n * p \in Int /\ (m - n) * p \in Int
      /\ (m - n) * p = m * p - n * p /\ Scale \in Nat \ {0}
  BY ScaleNat
<1>2. /\ x \in Int /\ Scale * x \in Int
      /\ -Scale <= 2 * (m * p - Scale * x) /\ 2 * (m * p - Scale * x) <= Scale
  BY <1>1, RoundClose DEF Value
<1>3. /\ y \in Int /\ Scale * y \in Int
      /\ -Scale <= 2 * ((m - n) * p - Scale * y) /\ 2 * ((m - n) * p - Scale * y) <= Scale
  BY <1>1, RoundClose DEF Value
<1>4. /\ z \in Int /\ Scale * z \in Int
      /\ -Scale <= 2 * (n * p - Scale * z) /\ 2 * (n * p - Scale * z) <= Scale
  BY <1>1, RoundClose DEF Value
<1> HIDE DEF x, y, z
<1>5. /\ d \in Int /\ 2 * d \in Int
      /\ Scale * (2 * d) = 2 * (Scale * x) - 2 * (Scale * y) - 2 * (Scale * z)
      /\ Scale * 3 = 3 * Scale /\ Scale * (-3) = -3 * Scale
  BY <1>1, <1>2, <1>3, <1>4
<1> HIDE DEF d
<1>6. Scale * (2 * d) <= Scale * 3 /\ Scale * (-3) <= Scale * (2 * d)
  BY <1>1, <1>2, <1>3, <1>4, <1>5
<1>7. 2 * d <= 3 /\ -3 <= 2 * d
  BY <1>1, <1>5, <1>6, Cancels
<1>8. -1 <= d /\ d <= 1
  BY <1>5, <1>7
<1> QED BY <1>2, <1>3, <1>4, <1>8 DEF d, x, y, z

(* A day on which money only came and went shows no profit but for the     *)
(* step valuing it may round, whatever came and at whatever price.         *)
THEOREM FlowsMakeNone == Spec => []FlowsAreNoProfit
<1>1. TypeOK /\ PriceInv => FlowsAreNoProfit
  <2> SUFFICES ASSUME TypeOK, PriceInv, ~day.trades, ~past.unpriced
               PROVE  Abs(EquityPnl) <= 1
    BY DEF FlowsAreNoProfit
  <2>1. CASE ~snap.exists
    BY <2>1 DEF EquityPnl, Abs
  <2>2. CASE snap.exists
    <3> DEFINE x == Value(state.exchange, state.price)
               y == Value(state.exchange - day.exchange_adj, state.price)
               z == Value(day.exchange_adj, state.price)
    <3>1. /\ Equity = state.bank + x
          /\ EquityPnl = Equity - snap.equity - (day.bank_adj + z)
      <4>1. LastPrice = state.price
        BY PriceKnown
      <4>2. Equity = state.bank + x
        BY <4>1 DEF Equity
      <4>3. EquityPnl = Equity - snap.equity - (day.bank_adj + z)
        BY <2>2, <4>1 DEF EquityPnl
      <4> QED BY <4>2, <4>3
    <3>2. snap.equity = state.bank - day.bank_adj + y
      BY <2>2 DEF PriceInv
    <3>3. /\ state.exchange \in Int /\ day.exchange_adj \in Int /\ state.price \in Nat
          /\ state.bank \in Int /\ day.bank_adj \in Int
      BY DEF TypeOK
    <3>4. /\ x \in Int /\ y \in Int /\ z \in Int /\ -1 <= x - y - z /\ x - y - z <= 1
      BY <3>3, ValuesAdd
    <3> HIDE DEF x, y, z
    <3>5. EquityPnl = x - y - z
      BY <3>1, <3>2, <3>3, <3>4
    <3> QED BY <3>4, <3>5 DEF Abs
  <2> QED BY <2>1, <2>2
<1> QED BY <1>1, TypeCorrect, PriceKept, PTL

-----------------------------------------------------------------------------
(* A report does nothing to the ledger it sums up.                         *)
THEOREM ReportsKeepLedger == ReportSpec => Spec
<1>1. ReportInit => Init
  BY DEF ReportInit
<1>2. [ReportNext]_<<vars, reportVars>> => [Next]_vars
  BY DEF ReportNext, Next, Trade, Book, PassOver, CloseDay, SkipDay, NextWindow, reportVars
<1> QED BY <1>1, <1>2, PTL DEF ReportSpec, Spec

(* Hence the position is the balance until something is oversold, whatever *)
(* windows and nights there are.                                           *)
THEOREM ReportedPosition == ReportSpec => []PositionMatchesExchange
  BY ReportsKeepLedger, PositionIsBalance

-----------------------------------------------------------------------------
(* The types need the count of days to be one of days with events.         *)
Windows == [days : Nat, pnl : Int, cum : Int, base : Int, pending : Int,
            astray : BOOLEAN, running : Int, preceded : BOOLEAN]
Lists == [rub : Int, usdt : Int]
Listings == [today : Lists, tomorrow : Lists]

TypeInv ==
    /\ listed \in Listings /\ late \in BOOLEAN /\ window \in Windows
    /\ window.days + (IF day.events THEN 1 ELSE 0) <= events

(* Bookings go to lists as whole steps.                                    *)
LEMMA ListOfType ==
  ASSUME NEW a \in Adjustments, NEW list \in Lists
  PROVE  ListOf(a, list) \in Lists
  BY SignedInt DEF ListOf, Lists

LEMMA ListType ==
  ASSUME NEW a \in Adjustments, NEW night \in BOOLEAN, listed \in Listings, List(a, night)
  PROVE  listed' \in Listings /\ late' \in BOOLEAN
<1>1. ListOf(a, listed.today) \in Lists /\ ListOf(a, listed.tomorrow) \in Lists
  BY ListOfType DEF Listings
<1> QED BY <1>1 DEF List, Listings

LEMMA TurnType ==
  ASSUME listed \in Listings, Turn
  PROVE  listed' \in Listings /\ late' \in BOOLEAN
<1>1. listed.tomorrow \in Lists /\ NothingListed \in Lists
  BY DEF Listings, Lists, NothingListed
<1> QED BY <1>1 DEF Turn, Listings

LEMMA WindowType ==
  ASSUME NEW s \in Snapshots
  PROVE  Window(s) \in Windows /\ Window(s).days = 0
<1>1. s.running \in Int /\ s.exists \in BOOLEAN
  BY DEF Snapshots
<1> QED BY <1>1 DEF Window, Windows

(* Sums of a day are whole steps.                                          *)
LEMMA DayAmounts ==
  ASSUME TypeOK, listed \in Listings, window \in Windows
  PROVE  /\ Equity \in Int /\ EquityPnl \in Int /\ Cum \in Int /\ CurveStart \in Int
         /\ \A q \in Int : Value(q, LastPrice) \in Int
<1>1. Snapshot.equity \in Int /\ Snapshot.pnl \in Int /\ Snapshot.price \in Nat
  BY SnapshotType
<1>2. Equity \in Int /\ EquityPnl \in Int /\ LastPrice \in Nat
  BY <1>1 DEF Snapshot
<1>3. \A q \in Int : Value(q, LastPrice) \in Int
  <2> TAKE q \in Int
  <2>1. q * LastPrice \in Int
    BY <1>2, TimesInt
  <2> QED BY <2>1, ScaleNat, RoundClose DEF Value
<1>4. Cum \in Int
  <2>1. /\ listed.today.usdt \in Int /\ listed.today.rub \in Int /\ window.cum \in Int
    BY DEF Listings, Lists, Windows
  <2>2. Scale * listed.today.rub \in Int /\ listed.today.usdt * LastPrice \in Int
    BY <1>2, <2>1, ScaleNat, TimesInt
  <2> QED BY <2>1, <2>2 DEF Cum, ListedToday
<1>5. CurveStart \in Int
  <2>1. Equity - EquityPnl - listed.tomorrow.rub \in Int
    BY <1>2 DEF Listings, Lists
  <2>2. Scale * (Equity - EquityPnl - listed.tomorrow.rub) \in Int
    BY <2>1, ScaleNat, TimesInt
  <2> QED BY <1>4, <2>2 DEF CurveStart
<1> QED BY <1>2, <1>3, <1>4, <1>5

(* Every sum keeps its type.                                               *)
LEMMA TypeInvariant == ReportSpec => [](TypeOK /\ TypeInv)
<1>1. ReportInit => TypeInv
  <2> SUFFICES ASSUME ReportInit PROVE TypeInv
    OBVIOUS
  <2>1. NoSnapshot \in Snapshots /\ NothingListed \in Lists
    BY DEF NoSnapshot, Snapshots, NothingListed, Lists
  <2>2. listed \in Listings
    BY <2>1 DEF ReportInit, NoneListed, Listings
  <2>3. window \in Windows /\ window.days = 0
    BY <2>1, WindowType DEF ReportInit
  <2>4. late = FALSE /\ events = 0 /\ day.events = FALSE
    BY DEF ReportInit, Init, NewDay
  <2>5. window.days + (IF day.events THEN 1 ELSE 0) <= events
    BY <2>3, <2>4
  <2> QED BY <2>2, <2>3, <2>4, <2>5, Zenon DEF TypeInv
<1>2. TypeOK /\ TypeInv /\ [ReportNext]_<<vars, reportVars>> => TypeInv'
  <2> SUFFICES ASSUME TypeOK, TypeInv, [ReportNext]_<<vars, reportVars>> PROVE TypeInv'
    OBVIOUS
  <2>1. /\ listed \in Listings /\ late \in BOOLEAN /\ window \in Windows
        /\ window.days + (IF day.events THEN 1 ELSE 0) <= events
        /\ window.days \in Nat /\ events \in Nat /\ day \in Days /\ snap \in Snapshots
    BY EventsAssumption DEF TypeInv, TypeOK, Windows, Days, Snapshots
  <2>2. CASE UNCHANGED <<vars, reportVars>>
    BY <2>1, <2>2 DEF TypeInv, vars, reportVars
  <2>3. ASSUME NEW o \in Orders, Trade(o) PROVE TypeInv'
    <3>1. events' = events + 1 /\ UNCHANGED <<listed, late, window>>
      BY <2>3 DEF Trade, Buy, Sell, reportVars
    <3> QED BY <2>1, <3>1 DEF TypeInv
  <2>4. ASSUME NEW a \in Adjustments, NEW night \in BOOLEAN, Book(a, night) PROVE TypeInv'
    <3>1. events' = events + 1 /\ List(a, night)
      BY <2>4 DEF Book, BankFlow, ExchangeFlow
    <3>2. listed' \in Listings /\ late' \in BOOLEAN
      BY <2>1, <3>1, ListType
    <3>3. window' \in Windows /\ window'.days = window.days
      <4> DEFINE b == window.astray \/ (night /\ a.account = "exchange")
      <4>1. window' = [window EXCEPT !.astray = b] /\ b \in BOOLEAN
        BY <2>4 DEF Book
      <4> HIDE DEF b
      <4> QED BY <2>1, <4>1 DEF Windows
    <3> QED BY <2>1, <3>1, <3>2, <3>3 DEF TypeInv
  <2>5. ASSUME NEW a \in Adjustments, NEW night \in BOOLEAN, PassOver(a, night) PROVE TypeInv'
    <3>1. UNCHANGED <<events, day>> /\ List(a, night)
      BY <2>5 DEF PassOver, vars
    <3>2. listed' \in Listings /\ late' \in BOOLEAN
      BY <2>1, <3>1, ListType
    <3>3. window' \in Windows /\ window'.days = window.days
      BY <2>1, <2>5 DEF PassOver, Windows
    <3> QED BY <2>1, <3>1, <3>2, <3>3 DEF TypeInv
  <2>6. CASE CloseDay
    <3>1. /\ day.events /\ day' = NewDay /\ events' = events
          /\ listed' \in Listings /\ late' \in BOOLEAN
      BY <2>1, <2>6, TurnType DEF CloseDay, NextDay
    <3>2. window' \in Windows /\ window'.days = window.days + 1
      <4>1. listed.tomorrow.rub \in Int
        BY <2>1 DEF Listings, Lists
      <4>2. /\ window.pnl \in Int /\ window.base \in Int
            /\ EquityPnl \in Int /\ Cum \in Int /\ CurveStart \in Int
        BY <2>1, DayAmounts DEF Windows
      <4>3. /\ window.pnl + EquityPnl \in Int
            /\ (IF window.days > 0 THEN window.base ELSE CurveStart) \in Int
        BY <4>1, <4>2
      <4> DEFINE days == window.days + 1
                 pnl == window.pnl + EquityPnl
                 base == IF window.days > 0 THEN window.base ELSE CurveStart
                 cum == Cum
                 pending == listed.tomorrow.rub
      <4>4. window' = [window EXCEPT !.days = days, !.pnl = pnl, !.cum = cum,
                                     !.pending = pending, !.base = base]
        BY <2>6 DEF CloseDay
      <4>5. /\ days \in Nat /\ pnl \in Int /\ base \in Int /\ cum \in Int
            /\ pending \in Int
        BY <2>1, <4>1, <4>2, <4>3
      <4>6. days = window.days + 1
        OBVIOUS
      <4> HIDE DEF days, pnl, base, cum, pending
      <4> QED BY <2>1, <4>4, <4>5, <4>6 DEF Windows
    <3> QED BY <2>1, <3>1, <3>2 DEF TypeInv, NewDay
  <2>7. CASE SkipDay
    <3>1. UNCHANGED <<events, day>> /\ listed' \in Listings /\ late' \in BOOLEAN
      BY <2>1, <2>7, TurnType DEF SkipDay, vars
    <3>2. window' \in Windows /\ window'.days = window.days
      <4> DEFINE b == window.astray \/ (window.days > 0 /\ listed.today # NothingListed)
      <4>1. window' = [window EXCEPT !.astray = b] /\ b \in BOOLEAN
        BY <2>7 DEF SkipDay
      <4> HIDE DEF b
      <4> QED BY <2>1, <4>1 DEF Windows
    <3> QED BY <2>1, <3>1, <3>2 DEF TypeInv
  <2>8. CASE NextWindow
    <3>1. UNCHANGED <<events, day, listed, late>>
      BY <2>8 DEF NextWindow, vars
    <3>2. window' \in Windows /\ window'.days = 0
      BY <2>1, <2>8, WindowType DEF NextWindow
    <3> QED BY <2>1, <3>1, <3>2 DEF TypeInv
  <2> QED BY <2>2, <2>3, <2>4, <2>5, <2>6, <2>7, <2>8 DEF ReportNext
<1> QED BY <1>1, <1>2, ReportsKeepLedger, TypeCorrect, PTL DEF ReportSpec

(* The ledger and the variables of the reports have their types, and a     *)
(* window has no more days than the ledger has events.                     *)
THEOREM ReportTypes == ReportSpec => []ReportsTypeOK
<1>1. TypeOK /\ TypeInv => ReportsTypeOK
  <2> SUFFICES ASSUME TypeOK, TypeInv PROVE ReportsTypeOK
    OBVIOUS
  <2>1. events \in Nat /\ window.days \in Nat /\ window.days <= events
    BY EventsAssumption DEF TypeOK, TypeInv, Windows
  <2>2. window.days \in 0..events
    BY <2>1
  <2> QED BY <2>2 DEF TypeInv, ReportsTypeOK, Windows, Listings, Lists
<1> QED BY <1>1, TypeInvariant, PTL

-----------------------------------------------------------------------------
(* What makes the curve inductive: as long as it is not astray, the flows  *)
(* of the day so far are those on its list and on the next one, but for    *)
(* what the last night has left; and nothing is on the next day's list     *)
(* before the night.                                                       *)
Booked ==
    window.days > 0 /\ ~window.astray =>
        /\ snap.exists
        /\ day.bank_adj = listed.today.rub + listed.tomorrow.rub - window.pending
        /\ day.exchange_adj = listed.today.usdt

NoNightYet ==
    /\ ~late => listed.tomorrow = NothingListed
    /\ ~window.astray => listed.tomorrow.usdt = 0
    /\ window.days = 0 => window.pnl = 0

CurveInv == Booked /\ NoNightYet /\ CleanCurveIsProfit

(* By how much the curve is off.                                           *)
Drift == Scale * (snap.equity - window.pnl - window.pending) - window.cum - window.base

(* A day's steps cancel out, but for what rounding a value adds.           *)
LEMMA Distributes ==
  ASSUME NEW k \in Int, NEW a \in Int, NEW b \in Int, NEW c \in Int
  PROVE  /\ k * (a + b + c) = k * a + k * b + k * c
         /\ k * a \in Int /\ k * b \in Int /\ k * c \in Int
  OBVIOUS

LEMMA AbsAdds ==
  ASSUME NEW d \in Int, NEW e \in Int, NEW k \in Int, NEW bound \in Int,
         2 * Abs(d) <= bound, -k <= 2 * e, 2 * e <= k
  PROVE  2 * Abs(d + e) <= bound + k
  BY DEF Abs

(* The sums at the end of a day, in whole steps.                           *)
LEMMA CloseDayCurve ==
  ASSUME TypeOK, TypeInv, CurveInv, CloseDay
  PROVE  CurveInv'
<1>1. /\ listed \in Listings /\ window \in Windows /\ day \in Days /\ snap \in Snapshots
  BY DEF TypeOK, TypeInv, Days, Snapshots
<1> DEFINE tom == listed.tomorrow
           base == IF window.days > 0 THEN window.base ELSE CurveStart
<1>2. /\ listed' = [today |-> tom, tomorrow |-> NothingListed] /\ late' = FALSE
      /\ day' = NewDay /\ snap' = Snapshot
  BY DEF CloseDay, Turn, NextDay
<1>3. /\ window'.days = window.days + 1 /\ window'.pnl = window.pnl + EquityPnl
      /\ window'.cum = Cum /\ window'.pending = tom.rub /\ window'.base = base
      /\ window'.astray = window.astray
  BY <1>1 DEF CloseDay, Windows
<1>4. /\ Equity \in Int /\ EquityPnl \in Int /\ Cum \in Int
      /\ \A q \in Int : Value(q, LastPrice) \in Int
  BY <1>1, DayAmounts
<1>5. /\ tom.rub \in Int /\ tom.usdt \in Int /\ listed.today.rub \in Int
      /\ listed.today.usdt \in Int
  BY <1>1 DEF Listings, Lists
<1>6. /\ window.days \in Nat /\ window.pnl \in Int /\ window.cum \in Int
      /\ window.base \in Int /\ window.pending \in Int /\ day.bank_adj \in Int
      /\ snap.equity \in Int /\ day.exchange_adj \in Int
  BY <1>1 DEF Windows, Days, Snapshots
<1>7. Booked'
  <2>1. ~window.astray => tom.usdt = 0
    BY DEF CurveInv, NoNightYet
  <2>2. NewDay.bank_adj = 0 /\ NewDay.exchange_adj = 0 /\ Snapshot.exists
    BY DEF NewDay, Snapshot
  <2>3. NothingListed.rub = 0
    BY DEF NothingListed
  <2> HIDE DEF tom
  <2>4. /\ listed'.today.rub = tom.rub /\ listed'.today.usdt = tom.usdt
        /\ listed'.tomorrow.rub = 0
    BY <1>2, <2>3
  <2> QED BY <1>2, <1>3, <1>5, <2>1, <2>2, <2>4 DEF Booked
<1>8. NoNightYet'
  <2>1. listed'.tomorrow = NothingListed /\ NothingListed.usdt = 0
    BY <1>2 DEF NothingListed
  <2> QED BY <1>3, <1>6, <2>1 DEF NoNightYet
<1>9. CleanCurveIsProfit'
  <2>1. Drift' = Scale * (Equity - (window.pnl + EquityPnl) - tom.rub) - Cum - base
    BY <1>2, <1>3 DEF Drift, Snapshot
  <2>2. CASE window.days > 0 /\ ~window.astray
    <3> DEFINE v == Value(listed.today.usdt, LastPrice)
               w == listed.today.usdt * LastPrice
    <3>1. EquityPnl = Equity - snap.equity - (day.bank_adj + v)
      BY <2>2 DEF EquityPnl, CurveInv, Booked
    <3>2. Cum = window.cum + (Scale * listed.today.rub + w)
      BY DEF Cum, ListedToday
    <3>3. day.bank_adj = listed.today.rub + tom.rub - window.pending
      BY <2>2 DEF CurveInv, Booked
    <3>4. LastPrice \in Int
      BY SnapshotType DEF Snapshot
    <3>5. v \in Int /\ w \in Int
      BY <1>4, <1>5, <3>4, TimesInt
    <3>6. -Scale <= 2 * (Scale * v - w) /\ 2 * (Scale * v - w) <= Scale
      <4>1. v = Round(w, Scale) /\ Scale * v \in Int
        BY <3>5, ScaleNat, RoundClose DEF Value
      <4>2. -Scale <= 2 * (w - Scale * v) /\ 2 * (w - Scale * v) <= Scale
        BY <3>5, <4>1, ScaleNat, RoundClose
      <4> HIDE DEF v, w
      <4> QED BY <3>5, <4>1, <4>2, ScaleNat
    <3> DEFINE e == Scale * v - w
    <3> HIDE DEF tom, v, w
    <3>7. Drift' = Drift + e
      <4>1. base = window.base
        BY <2>2
      <4>2. tom.rub \in Int
        BY <1>5
      <4>3. Scale * (Equity - (window.pnl + EquityPnl) - tom.rub) - Cum - window.base
              = (Scale * (snap.equity - window.pnl - window.pending)
                   - window.cum - window.base) + (Scale * v - w)
        <5> DEFINE rest == snap.equity - window.pnl - window.pending
        <5>1. Equity - (window.pnl + EquityPnl) - tom.rub = rest + listed.today.rub + v
          BY <1>4, <1>5, <1>6, <3>1, <3>3, <3>5, <4>2
        <5>2. rest \in Int
          BY <1>6
        <5> HIDE DEF rest
        <5>3. Scale * (rest + listed.today.rub + v)
                = Scale * rest + Scale * listed.today.rub + Scale * v
          BY <1>5, <3>5, <5>2, ScaleNat, Distributes
        <5>4. /\ Scale * rest \in Int /\ Scale * listed.today.rub \in Int
              /\ Scale * v \in Int
          BY <1>5, <3>5, <5>2, ScaleNat, TimesInt
        <5>5. Scale * (rest + listed.today.rub + v) - Cum - window.base
                = (Scale * rest - window.cum - window.base) + (Scale * v - w)
          BY <1>4, <1>6, <3>2, <3>5, <5>3, <5>4
        <5> QED BY <5>1, <5>5 DEF rest
      <4> QED BY <2>1, <4>1, <4>3 DEF Drift
    <3>8. Drift \in Int /\ e \in Int
      <4>1. Scale * (snap.equity - window.pnl - window.pending) \in Int
        BY <1>6, ScaleNat, TimesInt
      <4>2. Scale * v \in Int
        BY <3>5, ScaleNat, TimesInt
      <4> QED BY <1>6, <3>5, <4>1, <4>2 DEF Drift
    <3>9. 2 * Abs(Drift) <= Scale * (window.days - 1)
      BY <2>2 DEF CurveInv, CleanCurveIsProfit, Drift
    <3>10. Scale * (window.days - 1) \in Int
           /\ Scale * (window.days + 1 - 1) = Scale * (window.days - 1) + Scale
      BY <1>6, ScaleNat, TimesInt
    <3>11. 2 * Abs(Drift + e) <= Scale * (window.days + 1 - 1)
      <4>1. -Scale <= 2 * e /\ 2 * e <= Scale
        BY <3>6
      <4> DEFINE bound == Scale * (window.days - 1)
                 further == Scale * (window.days + 1 - 1)
      <4>2. bound \in Int /\ further = bound + Scale /\ 2 * Abs(Drift) <= bound
        BY <3>9, <3>10
      <4> HIDE DEF e, bound, further
      <4>3. 2 * Abs(Drift + e) <= bound + Scale
        BY <3>8, <4>1, <4>2, ScaleNat, AbsAdds
      <4> QED BY <4>2, <4>3 DEF further
    <3> HIDE DEF e
    <3>12. Scale * (window'.days - 1) = Scale * (window.days + 1 - 1)
      <4>1. window'.days = window.days + 1
        BY <1>3
      <4>2. window'.days - 1 = window.days + 1 - 1
        BY <1>6, <4>1
      <4> QED BY <4>2
    <3>13. Abs(Drift') = Abs(Drift + e) /\ Abs(Drift + e) \in Int
      BY <3>7, <3>8 DEF Abs
    <3>14. 2 * Abs(Drift') <= Scale * (window'.days - 1)
      <4> DEFINE bound == Scale * (window.days + 1 - 1)
                 after == Scale * (window'.days - 1)
                 far == Abs(Drift + e)
                 off == Abs(Drift')
      <4>1. 2 * far <= bound /\ off = far /\ after = bound
        BY <3>11, <3>12, <3>13
      <4> HIDE DEF bound, after, far, off
      <4>2. 2 * off <= after
        BY <4>1
      <4> QED BY <4>2 DEF off, after
    <3> QED BY <3>14 DEF CleanCurveIsProfit, Drift
  <2>3. CASE window.days = 0
    <3>1. window.pnl = 0
      BY <2>3 DEF CurveInv, NoNightYet
    <3>2. base = Scale * (Equity - EquityPnl - tom.rub) - Cum
      BY <1>6, <2>3 DEF CurveStart
    <3>3. Equity - (window.pnl + EquityPnl) - tom.rub = Equity - EquityPnl - tom.rub
      BY <1>4, <1>5, <3>1
    <3>4. Scale * (Equity - EquityPnl - tom.rub) \in Int
      BY <1>4, <1>5, ScaleNat, TimesInt
    <3> HIDE DEF tom, base
    <3>5. Drift' = 0
      BY <1>4, <2>1, <3>2, <3>3, <3>4
    <3>6. Scale * (window'.days - 1) = 0
      BY <1>3, <2>3, ScaleNat
    <3> QED BY <3>5, <3>6 DEF CleanCurveIsProfit, Drift, Abs
  <2>4. CASE window.astray
    BY <1>3, <2>4 DEF CleanCurveIsProfit
  <2> QED BY <1>6, <2>2, <2>3, <2>4
<1> QED BY <1>7, <1>8, <1>9 DEF CurveInv

(* A booking goes to one of the two lists with the sign it has in the      *)
(* ledger.                                                                 *)
LEMMA BookCurve ==
  ASSUME TypeOK, TypeInv, CurveInv,
         NEW a \in Adjustments, NEW night \in BOOLEAN, Book(a, night)
  PROVE  CurveInv'
<1>1. /\ listed \in Listings /\ window \in Windows /\ day \in Days /\ snap \in Snapshots
      /\ Signed(a) \in Int /\ a.account \in {"bank", "exchange"}
  BY SignedInt, AdjustmentsAssumption DEF TypeOK, TypeInv, Days, Snapshots
<1>2. /\ listed.today \in Lists /\ listed.tomorrow \in Lists
      /\ listed.today.rub \in Int /\ listed.today.usdt \in Int
      /\ listed.tomorrow.rub \in Int /\ listed.tomorrow.usdt \in Int
      /\ window.pending \in Int /\ day.bank_adj \in Int /\ day.exchange_adj \in Int
  BY <1>1 DEF Listings, Lists, Windows, Days
<1>3. /\ window'.days = window.days /\ window'.pnl = window.pnl /\ window'.cum = window.cum
      /\ window'.base = window.base /\ window'.pending = window.pending
      /\ window'.astray = (window.astray \/ (night /\ a.account = "exchange"))
  <2> DEFINE b == window.astray \/ (night /\ a.account = "exchange")
  <2>1. window' = [window EXCEPT !.astray = b]
    BY DEF Book
  <2> HIDE DEF b
  <2>2. window'.astray = b
    BY <1>1, <2>1 DEF Windows
  <2> QED BY <1>1, <2>1, <2>2 DEF Windows, b
<1>4. snap' = snap /\ (BankFlow(a) \/ ExchangeFlow(a)) /\ List(a, night)
  BY DEF Book, BankFlow, ExchangeFlow
<1>5. CleanCurveIsProfit'
  BY <1>3, <1>4 DEF CurveInv, CleanCurveIsProfit
<1>6. window'.astray \/ (window.astray = FALSE /\ window'.astray = FALSE
                          /\ ~(night /\ a.account = "exchange"))
  BY <1>1, <1>3 DEF Windows
<1>7. CASE a.account = "bank"
  <2>1. /\ day'.bank_adj = day.bank_adj + Signed(a) /\ day'.exchange_adj = day.exchange_adj
    BY <1>1, <1>4, <1>7 DEF BankFlow, ExchangeFlow, Days
  <2>2. CASE night
    <3>1. /\ late' = TRUE /\ listed'.today = listed.today
          /\ listed'.tomorrow.rub = listed.tomorrow.rub + Signed(a)
          /\ listed'.tomorrow.usdt = listed.tomorrow.usdt
      BY <1>1, <1>2, <1>4, <1>7, <2>2 DEF List, ListOf, Listings, Lists
    <3>2. Booked'
      BY <1>1, <1>2, <1>3, <1>4, <1>6, <2>1, <3>1 DEF CurveInv, Booked
    <3>3. NoNightYet'
      BY <1>3, <1>6, <3>1 DEF CurveInv, NoNightYet
    <3> QED BY <1>5, <3>2, <3>3 DEF CurveInv
  <2>3. CASE ~night
    <3>1. /\ late' = night /\ ~late /\ listed'.tomorrow = listed.tomorrow
          /\ listed'.today.rub = listed.today.rub + Signed(a)
          /\ listed'.today.usdt = listed.today.usdt
      BY <1>1, <1>2, <1>4, <1>7, <2>3 DEF List, ListOf, Listings, Lists
    <3>2. Booked'
      BY <1>1, <1>2, <1>3, <1>4, <1>6, <2>1, <3>1 DEF CurveInv, Booked
    <3>3. NoNightYet'
      BY <1>3, <1>6, <3>1 DEF CurveInv, NoNightYet
    <3> QED BY <1>5, <3>2, <3>3 DEF CurveInv
  <2> QED BY <2>2, <2>3
<1>8. CASE a.account = "exchange"
  <2>1. /\ day'.bank_adj = day.bank_adj
        /\ day'.exchange_adj = day.exchange_adj + Signed(a)
    BY <1>1, <1>4, <1>8 DEF BankFlow, ExchangeFlow, Days
  <2>2. CASE night
    <3>1. late' = TRUE /\ window'.astray = TRUE
      BY <1>3, <1>4, <1>8, <2>2 DEF List
    <3>2. Booked' /\ NoNightYet'
      BY <1>3, <3>1 DEF CurveInv, Booked, NoNightYet
    <3> QED BY <1>5, <3>2 DEF CurveInv
  <2>3. CASE ~night
    <3>1. /\ late' = night /\ ~late /\ listed'.tomorrow = listed.tomorrow
          /\ listed'.today.rub = listed.today.rub
          /\ listed'.today.usdt = listed.today.usdt + Signed(a)
      BY <1>1, <1>2, <1>4, <1>8, <2>3 DEF List, ListOf, Listings, Lists
    <3>2. Booked'
      BY <1>1, <1>2, <1>3, <1>4, <1>6, <2>1, <3>1 DEF CurveInv, Booked
    <3>3. NoNightYet'
      BY <1>3, <1>6, <3>1 DEF CurveInv, NoNightYet
    <3> QED BY <1>5, <3>2, <3>3 DEF CurveInv
  <2> QED BY <2>2, <2>3
<1> QED BY <1>1, <1>7, <1>8

(* The clean curve moves by the daily profits, but for half a step a day,  *)
(* and by nothing else as long as no adjustment is one of those the        *)
(* dashboard loses, whatever orders and adjustments there are and however  *)
(* the days are cut.                                                       *)
THEOREM CleanCurve == ReportSpec => []CleanCurveIsProfit
<1>1. ReportInit => CurveInv
  BY DEF ReportInit, NoneListed, NothingListed, Window, CurveInv, Booked, NoNightYet,
         CleanCurveIsProfit
<1>2. TypeOK /\ TypeInv /\ CurveInv /\ [ReportNext]_<<vars, reportVars>> => CurveInv'
  <2> SUFFICES ASSUME TypeOK, TypeInv, CurveInv, [ReportNext]_<<vars, reportVars>>
               PROVE  CurveInv'
    OBVIOUS
  <2>1. /\ listed \in Listings /\ window \in Windows /\ day \in Days /\ snap \in Snapshots
    BY DEF TypeOK, TypeInv, Days, Snapshots
  <2>2. CASE UNCHANGED <<vars, reportVars>>
    BY <2>2 DEF CurveInv, Booked, NoNightYet, CleanCurveIsProfit, vars, reportVars
  <2>3. ASSUME NEW o \in Orders, Trade(o) PROVE CurveInv'
    <3>1. UNCHANGED <<snap, listed, late, window>>
      BY <2>3 DEF Trade, Buy, Sell, reportVars
    <3>2. /\ day'.bank_adj = day.bank_adj /\ day'.exchange_adj = day.exchange_adj
      BY <2>1, <2>3 DEF Trade, Buy, Sell, Traded, Days
    <3> QED BY <3>1, <3>2 DEF CurveInv, Booked, NoNightYet, CleanCurveIsProfit
  <2>4. ASSUME NEW a \in Adjustments, NEW night \in BOOLEAN, Book(a, night) PROVE CurveInv'
    BY <2>4, BookCurve
  <2>5. ASSUME NEW a \in Adjustments, NEW night \in BOOLEAN, PassOver(a, night) PROVE CurveInv'
    <3>1. /\ window'.astray /\ window'.days = window.days /\ window'.pnl = window.pnl
      BY <2>1, <2>5 DEF PassOver, Windows
    <3>2. (~late' => listed'.tomorrow = listed.tomorrow /\ ~late)
      BY <2>1, <2>5 DEF PassOver, List, Listings
    <3> QED BY <3>1, <3>2 DEF CurveInv, Booked, NoNightYet, CleanCurveIsProfit
  <2>6. CASE CloseDay
    BY <2>6, CloseDayCurve
  <2>7. CASE SkipDay
    <3>1. UNCHANGED <<day, snap>> /\ late' = FALSE
          /\ listed' = [today |-> listed.tomorrow, tomorrow |-> NothingListed]
      BY <2>7 DEF SkipDay, Turn, vars
    <3>2. /\ window'.days = window.days /\ window'.pnl = window.pnl
          /\ window'.cum = window.cum /\ window'.base = window.base
          /\ window'.pending = window.pending
          /\ window.days > 0 /\ ~window'.astray =>
                ~window.astray /\ listed.today = NothingListed
      <4> DEFINE b == window.astray \/ (window.days > 0 /\ listed.today # NothingListed)
      <4>1. window' = [window EXCEPT !.astray = b]
        BY <2>7 DEF SkipDay
      <4> HIDE DEF b
      <4>2. window'.astray = b
        BY <2>1, <4>1 DEF Windows
      <4> QED BY <2>1, <4>1, <4>2 DEF Windows, b
    <3>3. NothingListed.rub = 0 /\ NothingListed.usdt = 0
      BY DEF NothingListed
    <3>4. Booked'
      <4>1. listed.tomorrow.rub \in Int /\ window.pending \in Int
        BY <2>1 DEF Listings, Lists, Windows
      <4>2. /\ listed'.today = listed.tomorrow /\ listed'.tomorrow.rub = 0
        BY <3>1, <3>3
      <4> QED BY <3>1, <3>2, <3>3, <4>1, <4>2 DEF CurveInv, Booked, NoNightYet
    <3>5. NoNightYet'
      BY <3>1, <3>2, <3>3 DEF CurveInv, NoNightYet
    <3>6. CleanCurveIsProfit'
      BY <3>1, <3>2 DEF CurveInv, CleanCurveIsProfit
    <3> QED BY <3>4, <3>5, <3>6 DEF CurveInv
  <2>8. CASE NextWindow
    <3>1. window'.days = 0 /\ window'.pnl = 0 /\ ~late /\ UNCHANGED <<listed, late>>
      BY <2>8 DEF NextWindow, Window
    <3>2. listed.tomorrow = NothingListed /\ NothingListed.usdt = 0
      BY <3>1 DEF CurveInv, NoNightYet, NothingListed
    <3> QED BY <3>1, <3>2 DEF CurveInv, Booked, NoNightYet, CleanCurveIsProfit
  <2> QED BY <2>2, <2>3, <2>4, <2>5, <2>6, <2>7, <2>8 DEF ReportNext
<1>3. CurveInv => CleanCurveIsProfit
  BY DEF CurveInv
<1> QED BY <1>1, <1>2, <1>3, TypeInvariant, PTL DEF ReportSpec

-----------------------------------------------------------------------------
(* What makes the windows' profits inductive: at the last snapshot and at  *)
(* the start of the window equity was the money put in and the running     *)
(* profit, to within what sales may round; the days between add up to the  *)
(* difference, for without exchange bookings a day's flow is roubles.      *)
WindowInv ==
    /\ window.days > 0 \/ window.preceded => snap.exists
    /\ Matched => day.exchange_adj = 0
    /\ Matched /\ snap.exists =>
          Within(snap.equity - (past.funds - day.bank_adj) - snap.running, past)
    /\ Matched /\ window.preceded =>
          Within(snap.equity - (past.funds - day.bank_adj) - window.pnl - window.running, past)

(* A step that leaves snapshots and sums alone, moves no funds but with    *)
(* the day's flow and no USDT unmatched, keeps all that.                   *)
LEMMA WindowStays ==
  ASSUME TypeOK, TypeInv, WindowInv, past' \in Pasts, window' \in Windows, day' \in Days,
         snap' = snap, window'.days = window.days, window'.pnl = window.pnl,
         window'.running = window.running, window'.preceded = window.preceded,
         Matched' => Matched /\ day'.exchange_adj = day.exchange_adj,
         past'.funds - day'.bank_adj = past.funds - day.bank_adj,
         past.sells <= past'.sells, past.peak <= past'.peak
  PROVE  WindowInv'
<1> DEFINE m == snap.equity - (past.funds - day.bank_adj) - snap.running
           n == snap.equity - (past.funds - day.bank_adj) - window.pnl - window.running
<1>1. past \in Pasts /\ m \in Int /\ n \in Int
  BY DEF TypeOK, TypeInv, Pasts, Windows
<1>2. /\ m = snap'.equity - (past'.funds - day'.bank_adj) - snap'.running
      /\ n = snap'.equity - (past'.funds - day'.bank_adj) - window'.pnl - window'.running
  OBVIOUS
<1>3. Matched /\ snap.exists => Within(m, past)
  BY DEF WindowInv
<1>4. Matched /\ window.preceded => Within(n, past)
  BY DEF WindowInv
<1> HIDE DEF m, n
<1>5. Matched /\ snap.exists => Within(m, past')
  BY <1>1, <1>3, WithinGrows
<1>6. Matched /\ window.preceded => Within(n, past')
  BY <1>1, <1>4, WithinGrows
<1> QED BY <1>2, <1>5, <1>6 DEF WindowInv, Matched

(* A snapshot adds its profit, and is an end by itself.                    *)
LEMMA CloseDayWindow ==
  ASSUME TypeOK, TypeInv, WindowInv, PositionMatchesExchange, CostInv, CloseDay
  PROVE  WindowInv'
<1>1. /\ listed \in Listings /\ window \in Windows /\ day \in Days /\ snap \in Snapshots
      /\ past \in Pasts /\ past' = past
  BY DEF TypeOK, TypeInv, Days, Snapshots, Pasts, CloseDay, NextDay
<1>2. /\ snap'.exists = TRUE /\ snap'.equity = Equity /\ snap'.running = Snapshot.running
      /\ day'.bank_adj = 0 /\ day'.exchange_adj = 0
  BY DEF CloseDay, NextDay, Snapshot, NewDay
<1>3. /\ window'.pnl = window.pnl + EquityPnl /\ window'.running = window.running
      /\ window'.preceded = window.preceded
  BY <1>1 DEF CloseDay, Windows
<1>4. /\ Equity \in Int /\ EquityPnl \in Int /\ LastPrice \in Nat
      /\ past.funds \in Int /\ day.bank_adj \in Int /\ snap.equity \in Int
      /\ window.pnl \in Int /\ window.running \in Int
  BY <1>1, SnapshotType, DayAmounts DEF Snapshot, Pasts, Days, Snapshots, Windows
<1>5. Matched' => Matched
  BY <1>1 DEF Matched
<1>6. past.funds - 0 = past.funds
  BY <1>4
<1>7. ASSUME Matched PROVE Within(Equity - (past.funds - 0) - Snapshot.running, past)
  BY <1>6, <1>7, ProfitsWithin DEF Matched
<1>8. ASSUME Matched, window.preceded
      PROVE  Within(Equity - (past.funds - 0) - (window.pnl + EquityPnl) - window.running, past)
  <2>1. snap.exists /\ day.exchange_adj = 0
    BY <1>8 DEF WindowInv
  <2>2. Value(0, LastPrice) = 0
    <3>1. 0 * LastPrice = 0
      BY <1>4
    <3> QED BY <3>1, ScaleNat, RoundNothing DEF Value
  <2>3. EquityPnl = Equity - snap.equity - (day.bank_adj + 0)
    BY <2>1, <2>2 DEF EquityPnl
  <2>4. Equity - (past.funds - 0) - (window.pnl + EquityPnl) - window.running
          = snap.equity - (past.funds - day.bank_adj) - window.pnl - window.running
    BY <1>4, <2>3
  <2> QED BY <1>8, <2>4 DEF WindowInv
<1> QED BY <1>1, <1>2, <1>3, <1>5, <1>7, <1>8 DEF WindowInv

(* Every step keeps both ends.                                             *)
LEMMA WindowsKept == ReportSpec => []WindowInv
<1>1. ReportInit => WindowInv
  BY DEF ReportInit, Init, NewDay, NoSnapshot, Window, WindowInv
<1>2. TypeOK /\ TypeOK' /\ TypeInv /\ TypeInv' /\ WindowInv /\ PositionMatchesExchange
        /\ CostInv /\ [ReportNext]_<<vars, reportVars>> => WindowInv'
  <2> SUFFICES ASSUME TypeOK, TypeOK', TypeInv, TypeInv', WindowInv,
                      PositionMatchesExchange, CostInv, [ReportNext]_<<vars, reportVars>>
               PROVE  WindowInv'
    OBVIOUS
  <2>1. /\ past \in Pasts /\ past' \in Pasts /\ day \in Days /\ day' \in Days
        /\ window \in Windows /\ window' \in Windows
        /\ past.sells <= past.sells /\ past.peak <= past.peak
    BY DEF TypeOK, TypeInv, Pasts, Days
  <2>2. CASE UNCHANGED <<vars, reportVars>>
    BY <2>2 DEF vars, reportVars, WindowInv, Matched
  <2>3. ASSUME NEW o \in Orders, Trade(o) PROVE WindowInv'
    <3>1. snap' = snap /\ window' = window
      BY <2>3 DEF Trade, Buy, Sell, reportVars
    <3>2. day'.bank_adj = day.bank_adj /\ day'.exchange_adj = day.exchange_adj
      BY <2>1, <2>3 DEF Trade, Buy, Sell, Traded, Days
    <3>3. /\ past'.funds = past.funds /\ past.sells <= past'.sells /\ past.peak <= past'.peak
      BY <2>1, <2>3, BuyPast, SellPast DEF Trade, Pasts
    <3>4. Matched' => Matched
      <4>1. (past.oversold => past'.oversold) /\ (past.unmatched => past'.unmatched)
        BY <2>3, BuyPast, SellPast, Zenon DEF Trade
      <4> QED BY <4>1, Zenon DEF Matched
    <3> QED BY <2>1, <3>1, <3>2, <3>3, <3>4, WindowStays
  <2>4. ASSUME NEW a \in Adjustments, NEW night \in BOOLEAN, Book(a, night) PROVE WindowInv'
    <3>1. /\ window'.days = window.days /\ window'.pnl = window.pnl
          /\ window'.running = window.running /\ window'.preceded = window.preceded
      BY <2>1, <2>4 DEF Book, Windows
    <3>2. CASE BankFlow(a)
      <4>1. /\ day'.bank_adj = day.bank_adj + Signed(a) /\ snap' = snap
            /\ day'.exchange_adj = day.exchange_adj
        BY <2>1, <3>2 DEF BankFlow, Days
      <4>2. /\ past'.funds = past.funds + Signed(a) /\ past'.sells = past.sells
            /\ past'.oversold = past.oversold /\ past'.unmatched = past.unmatched
            /\ past'.peak = past.peak
        BY <2>1, <3>2 DEF BankFlow, Pasts
      <4>3. past'.funds - day'.bank_adj = past.funds - day.bank_adj
        BY <2>1, <4>1, <4>2, SignedInt DEF Days, Pasts
      <4>4. Matched' => Matched
        BY <4>2 DEF Matched
      <4> QED BY <2>1, <3>1, <4>1, <4>2, <4>3, <4>4, WindowStays
    <3>3. CASE ExchangeFlow(a)
      <4>1. ~Matched' /\ snap' = snap
        BY <3>3, ExchangePast DEF ExchangeFlow, Matched
      <4> QED BY <3>1, <4>1 DEF WindowInv
    <3> QED BY <2>4, <3>2, <3>3 DEF Book
  <2>5. ASSUME NEW a \in Adjustments, NEW night \in BOOLEAN, PassOver(a, night)
        PROVE  WindowInv'
    <3>1. /\ window'.days = window.days /\ window'.pnl = window.pnl
          /\ window'.running = window.running /\ window'.preceded = window.preceded
          /\ UNCHANGED <<past, day, snap>>
      BY <2>1, <2>5 DEF PassOver, Windows, vars
    <3>2. Matched' => Matched
      BY <3>1 DEF Matched
    <3> QED BY <2>1, <3>1, <3>2, WindowStays
  <2>6. CASE CloseDay
    BY <2>6, CloseDayWindow
  <2>7. CASE SkipDay
    <3>1. UNCHANGED <<past, day, snap>>
      BY <2>7 DEF SkipDay, vars
    <3>2. /\ window'.days = window.days /\ window'.pnl = window.pnl
          /\ window'.running = window.running /\ window'.preceded = window.preceded
      BY <2>1, <2>7 DEF SkipDay, Windows
    <3>3. Matched' => Matched
      BY <3>1 DEF Matched
    <3> QED BY <2>1, <3>1, <3>2, <3>3, WindowStays
  <2>8. CASE NextWindow
    <3>1. /\ UNCHANGED <<past, day, snap>>
          /\ window'.days = 0 /\ window'.pnl = 0 /\ window'.running = snap.running
          /\ window'.preceded = snap.exists
      BY <2>8 DEF NextWindow, Window, vars
    <3> DEFINE m == snap.equity - (past.funds - day.bank_adj)
    <3>2. m \in Int /\ m - 0 = m
      BY <2>1 DEF TypeOK, Pasts, Days
    <3> HIDE DEF m
    <3>3. Matched /\ snap.exists => Within(m - 0 - snap.running, past)
      BY <3>2 DEF WindowInv, m
    <3> QED BY <3>1, <3>3 DEF WindowInv, Matched, m
  <2> QED BY <2>2, <2>3, <2>4, <2>5, <2>6, <2>7, <2>8 DEF ReportNext
<1> QED BY <1>1, <1>2, ReportsKeepLedger, PositionIsBalance, CostKept, TypeInvariant, PTL
        DEF ReportSpec

(* A week's or month's profit, summed over its days, is what the running   *)
(* profit gained between the snapshots before and at its end, to within    *)
(* the rounding of both, however the days and the windows were cut.        *)
THEOREM WindowProfits == ReportSpec => []WindowProfitsAgree
<1>1. TypeOK /\ TypeInv /\ WindowInv => WindowProfitsAgree
  <2> SUFFICES ASSUME TypeOK, TypeInv, WindowInv, window.preceded, Matched
               PROVE  Scale * (Abs(window.pnl - (snap.running - window.running))
                                - 2 * past.sells - 2) <= past.peak
    BY DEF WindowProfitsAgree, Matched
  <2> DEFINE m == snap.equity - (past.funds - day.bank_adj) - snap.running
             k == snap.equity - (past.funds - day.bank_adj) - window.pnl - window.running
             n == window.pnl - (snap.running - window.running)
             s == past.sells
             p == past.peak
  <2>1. /\ past \in Pasts /\ m \in Int /\ k \in Int /\ n \in Int /\ n = m - k
        /\ s \in Nat /\ p \in Nat /\ Scale \in Nat \ {0}
    BY ScaleNat DEF TypeOK, TypeInv, Windows, Pasts
  <2>2. Within(m, past) /\ Within(k, past)
    BY DEF WindowInv
  <2> HIDE DEF m, k, n
  <2>3. /\ Scale * m \in Int /\ Scale * k \in Int /\ Scale * s \in Int
        /\ 2 * (Scale * m) <= 2 * (Scale * s) + 2 * Scale + p
        /\ -2 * (Scale * m) <= 2 * (Scale * s) + 2 * Scale + p
        /\ 2 * (Scale * k) <= 2 * (Scale * s) + 2 * Scale + p
        /\ -2 * (Scale * k) <= 2 * (Scale * s) + 2 * Scale + p
    BY <2>1, <2>2, WithinIs
  <2> HIDE DEF s, p
  <2>4. Scale * n = Scale * m - Scale * k
    BY <2>1
  <2>5. CASE n >= 0
    <3>1. Abs(n) = n /\ Scale * (n - 2 * s - 2) = Scale * n - 2 * (Scale * s) - 2 * Scale
      BY <2>1, <2>5 DEF Abs
    <3> QED BY <2>1, <2>3, <2>4, <3>1 DEF n, s, p
  <2>6. CASE n < 0
    <3>1. Abs(n) = -n /\ Scale * (-n - 2 * s - 2) = -(Scale * n) - 2 * (Scale * s) - 2 * Scale
      BY <2>1, <2>6 DEF Abs
    <3> QED BY <2>1, <2>3, <2>4, <3>1 DEF n, s, p
  <2> QED BY <2>1, <2>5, <2>6
<1> QED BY <1>1, TypeInvariant, WindowsKept, PTL
=============================================================================
