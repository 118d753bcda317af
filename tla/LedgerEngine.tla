---------------------------- MODULE LedgerEngine ----------------------------
(***************************************************************************)
(* The arithmetic of one rebuild (LedgerEngine._apply_event and the two    *)
(* loops of rebuild, apps/ledger/services/engine.py), over the events that *)
(* build_events makes of orders and adjustments                            *)
(* (apps/ledger/services/events.py), in the order it sorts them into.      *)
(*                                                                         *)
(* Money is counted in whole steps, as the code's Decimals are after       *)
(* q_rub, q_usdt and q_price: Scale steps of USDT at a price of one step   *)
(* make one step of RUB. Fees, taxes and volumes of a day are left out:    *)
(* nothing is computed from them.                                          *)
(***************************************************************************)
EXTENDS Integers

CONSTANTS
    Scale,        \* steps of USDT times steps of price in one step of RUB
    Orders,       \* normalised orders there may be in the ledger
    Adjustments,  \* LedgerAdjustment rows there may be
    MaxEvents     \* bound on the events of a ledger

AdjustmentTypes == {"deposit", "withdrawal", "correction", "tax_payment", "fee_correction",
                    "investor_deposit", "investor_withdrawal"}

ASSUME ScaleAssumption == Scale \in Nat \ {0}
ASSUME OrdersAssumption ==
    Orders \subseteq [side : {"BUY", "SELL"}, quantity : Nat, amount : Nat, price : Nat,
                      fee : Nat, currency : {"", "USDT", "RUB"}]
ASSUME AdjustmentsAssumption ==
    Adjustments \subseteq [account : {"bank", "exchange"}, type : AdjustmentTypes, value : Int]
ASSUME EventsAssumption == MaxEvents \in Nat

VARIABLES
    state,   \* LedgerState
    day,     \* the DayAccumulator of the day being read
    snap,    \* the last DailySnapshot
    past,    \* auxiliary: what the ledger has been through
    events   \* auxiliary: how many events were read

vars == <<state, day, snap, past, events>>

NewDay == [events |-> FALSE, trades |-> FALSE, price |-> 0, bank_adj |-> 0, exchange_adj |-> 0]
NoSnapshot == [exists |-> FALSE, equity |-> 0, pnl |-> 0, running |-> 0, price |-> 0]

TypeOK ==
    /\ state \in [bank : Int, exchange : Int, wac_qty : Int, wac_cost : Int,
                  realized : Int, price : Nat]
    /\ day \in [events : BOOLEAN, trades : BOOLEAN, price : Nat, bank_adj : Int,
                exchange_adj : Int]
    /\ snap \in [exists : BOOLEAN, equity : Int, pnl : Int, running : Int, price : Nat]
    /\ past \in [funds : Int, sells : Nat, peak : Nat, oversold : BOOLEAN,
                 unpriced : BOOLEAN, unmatched : BOOLEAN]
    /\ events \in 0..MaxEvents

Init ==
    /\ state = [bank |-> 0, exchange |-> 0, wac_qty |-> 0, wac_cost |-> 0,
                realized |-> 0, price |-> 0]
    /\ day = NewDay
    /\ snap = NoSnapshot
    /\ past = [funds |-> 0, sells |-> 0, peak |-> 0, oversold |-> FALSE,
               unpriced |-> FALSE, unmatched |-> FALSE]
    /\ events = 0

-----------------------------------------------------------------------------
Abs(n) == IF n < 0 THEN -n ELSE n

(* ROUND_HALF_UP of n / k: halves go away from zero.                       *)
Round(n, k) ==
    IF n >= 0 THEN (2 * n + k) \div (2 * k) ELSE -((k - 2 * n) \div (2 * k))

Value(qty, price) == Round(qty * price, Scale)

WacPrice(s) == IF s.wac_qty > 0 THEN Round(s.wac_cost * Scale, s.wac_qty) ELSE 0

(* The order's fee where it is in this currency.                           *)
Fee(o, currency) == IF o.currency = currency THEN o.fee ELSE 0

(* _compute_net_fields: a USDT fee shortens what a buyer gets, a RUB fee   *)
(* goes to the worse for either side. The engine reads them without sign.  *)
NetQty(o) == IF o.side = "BUY" THEN Abs(o.quantity - Fee(o, "USDT")) ELSE o.quantity
NetRub(o) ==
    IF o.side = "BUY" THEN o.amount + Fee(o, "RUB") ELSE Abs(o.amount - Fee(o, "RUB"))

NewPrice(s, o) == IF o.price > 0 THEN o.price ELSE s.price

(* The engine charges a RUB fee again, on top of the net amount.           *)
ApplyBuy(s, o) ==
    LET rub == NetRub(o) + Fee(o, "RUB")
    IN  [bank |-> s.bank - rub,
         exchange |-> s.exchange + NetQty(o),
         wac_qty |-> s.wac_qty + NetQty(o),
         wac_cost |-> s.wac_cost + rub,
         realized |-> s.realized,
         price |-> NewPrice(s, o)]

QtyOut(o) == NetQty(o) + Fee(o, "USDT")

(* Mutant of ApplySell: cost and position are reduced by all that is sold. *)
ApplySellWhole(s, o) ==
    LET rub == NetRub(o) - Fee(o, "RUB")
        wac == WacPrice(s)
    IN  [bank |-> s.bank + rub,
         exchange |-> s.exchange - QtyOut(o),
         wac_qty |-> s.wac_qty - QtyOut(o),
         wac_cost |-> Round(s.wac_cost * Scale - wac * QtyOut(o), Scale),
         realized |-> s.realized + Round(rub * Scale - wac * QtyOut(o), Scale),
         price |-> NewPrice(s, o)]

(* Mutant of ApplySell: the fee in USDT leaves the position without cost.  *)
ApplySellGross(s, o) ==
    LET rub == NetRub(o) - Fee(o, "RUB")
        wac == WacPrice(s)
        pos == IF QtyOut(o) <= s.wac_qty THEN QtyOut(o) ELSE s.wac_qty
    IN  [bank |-> s.bank + rub,
         exchange |-> s.exchange - QtyOut(o),
         wac_qty |-> s.wac_qty - pos,
         wac_cost |-> Round(s.wac_cost * Scale - wac * o.quantity, Scale),
         realized |-> s.realized + Round(rub * Scale - wac * QtyOut(o), Scale),
         price |-> NewPrice(s, o)]

(* What is sold beyond the position costs the position nothing.            *)
ApplySell(s, o) ==
    LET rub == NetRub(o) - Fee(o, "RUB")
        wac == WacPrice(s)
        pos == IF QtyOut(o) <= s.wac_qty THEN QtyOut(o) ELSE s.wac_qty
    IN  [bank |-> s.bank + rub,
         exchange |-> s.exchange - QtyOut(o),
         wac_qty |-> s.wac_qty - pos,
         wac_cost |-> Round(s.wac_cost * Scale - wac * pos, Scale),
         realized |-> s.realized + Round(rub * Scale - wac * QtyOut(o), Scale),
         price |-> NewPrice(s, o)]

-----------------------------------------------------------------------------
(* Auxiliary: the largest position so far.                                 *)
Peak(qty) == IF qty > past.peak THEN qty ELSE past.peak

Traded == [day EXCEPT !.events = TRUE, !.trades = TRUE]

Buy(o) ==
    /\ events < MaxEvents /\ o.side = "BUY"
    /\ state' = ApplyBuy(state, o)
    /\ day' = [Traded EXCEPT !.price = o.price]
    /\ past' = [past EXCEPT !.unpriced = @ \/ o.price = 0,
                            !.unmatched = @ \/ NetQty(o) = 0,
                            !.peak = Peak(state.wac_qty + NetQty(o))]
    /\ events' = events + 1
    /\ UNCHANGED snap

Sell(o) ==
    /\ events < MaxEvents /\ o.side = "SELL"
    /\ state' = ApplySell(state, o)
    /\ day' = [Traded EXCEPT !.price = o.price]
    /\ past' = [past EXCEPT !.unpriced = @ \/ o.price = 0, !.sells = @ + 1,
                            !.oversold = @ \/ QtyOut(o) > state.wac_qty]
    /\ events' = events + 1
    /\ UNCHANGED snap

(* _apply_type_sign: only the two kinds of correction keep their sign.     *)
Signed(a) ==
    CASE a.type \in {"withdrawal", "tax_payment", "investor_withdrawal"} -> -Abs(a.value)
      [] a.type \in {"deposit", "investor_deposit"} -> Abs(a.value)
      [] OTHER -> a.value

(* The keys of ADJUSTMENT_TYPE_MAP; build_events passes over the rest.     *)
Mapped(a) ==
    IF a.account = "bank" THEN a.type # "fee_correction"
    ELSE a.type \in {"deposit", "withdrawal", "correction", "fee_correction"}

(* Mutant of BankFlow: tax payments are missing from the day's flows.      *)
BankFlowWithoutTax(a) ==
    /\ events < MaxEvents /\ a.account = "bank" /\ Mapped(a)
    /\ state' = [state EXCEPT !.bank = @ + Signed(a)]
    /\ day' = [day EXCEPT !.events = TRUE,
                    !.bank_adj = IF a.type = "tax_payment" THEN @ ELSE @ + Signed(a)]
    /\ past' = [past EXCEPT !.funds = @ + Signed(a)]
    /\ events' = events + 1
    /\ UNCHANGED snap

BankFlow(a) ==
    /\ events < MaxEvents /\ a.account = "bank" /\ Mapped(a)
    /\ state' = [state EXCEPT !.bank = @ + Signed(a)]
    /\ day' = [day EXCEPT !.events = TRUE, !.bank_adj = @ + Signed(a)]
    /\ past' = [past EXCEPT !.funds = @ + Signed(a)]
    /\ events' = events + 1
    /\ UNCHANGED snap

(* The position moves with the exchange balance, its cost does not.        *)
ExchangeFlow(a) ==
    /\ events < MaxEvents /\ a.account = "exchange" /\ Mapped(a)
    /\ state' = [state EXCEPT !.exchange = @ + Signed(a), !.wac_qty = @ + Signed(a)]
    /\ day' = [day EXCEPT !.events = TRUE, !.exchange_adj = @ + Signed(a)]
    /\ past' = [past EXCEPT !.unmatched = TRUE, !.peak = Peak(state.wac_qty + Signed(a))]
    /\ events' = events + 1
    /\ UNCHANGED snap

-----------------------------------------------------------------------------
(* The price of a day: its last trade's, or the last one known before it,  *)
(* or the last snapshot's, or what the position cost.                      *)
LastPrice ==
    LET traded == IF day.trades THEN day.price ELSE state.price
    IN  IF traded > 0 THEN traded
        ELSE IF snap.price > 0 THEN snap.price
        ELSE IF state.exchange > 0 /\ WacPrice(state) > 0 THEN WacPrice(state)
        ELSE 0

Equity == state.bank + Value(state.exchange, LastPrice)

(* Profit is what equity gained beyond the day's flows; the first day has  *)
(* none, whatever was traded on it.                                        *)
EquityPnl ==
    IF snap.exists
    THEN Equity - snap.equity - (day.bank_adj + Value(day.exchange_adj, LastPrice))
    ELSE 0

Unrealized ==
    IF state.wac_qty > 0
    THEN Round((LastPrice - WacPrice(state)) * state.wac_qty, Scale)
    ELSE 0

(* The row written if the day were over now.                               *)
Snapshot == [exists |-> TRUE, equity |-> Equity, pnl |-> EquityPnl,
             running |-> state.realized + Unrealized, price |-> LastPrice]

(* Only days with events have a snapshot.                                  *)
NextDay ==
    /\ day.events
    /\ snap' = Snapshot
    /\ day' = NewDay
    /\ UNCHANGED <<state, past, events>>

Next ==
    \/ \E o \in Orders : Buy(o) \/ Sell(o)
    \/ \E a \in Adjustments : BankFlow(a) \/ ExchangeFlow(a)
    \/ NextDay

Spec == Init /\ [][Next]_vars

-----------------------------------------------------------------------------
(* The position that prices profits is the balance on the exchange as long *)
(* as no sale went beyond it, and larger for ever after one did: nothing   *)
(* books an oversold quantity back (engine.py:263).                        *)
PositionMatchesExchange ==
    IF past.oversold THEN state.exchange < state.wac_qty
    ELSE state.exchange = state.wac_qty

(* The two profits the program reports are one: equity beyond the money    *)
(* put into the bank is the running WAC profit (test_engine.py:96-103),    *)
(* whatever fees were charged, to within a step for every sale, one for    *)
(* the valuation, and half a step of price on the largest position there   *)
(* was: what rounding WAC can take or add. Not so once something was       *)
(* oversold, or with no position left once USDT and roubles came or went   *)
(* without the other: by an exchange booking, or a purchase of nothing.    *)
TwoProfitsAgree ==
    ~past.oversold /\ (state.wac_qty > 0 \/ ~past.unmatched)
        => 2 * Scale * (Abs(Equity - past.funds - Snapshot.running) - past.sells - 1)
               <= past.peak

(* A day on which money only came and went shows no profit: flows are      *)
(* valued at the price the balance is valued at, and that price is carried *)
(* over days without a trade (test_engine.py:113-144).                     *)
FlowsAreNoProfit ==
    day.events /\ ~day.trades /\ ~past.unpriced => Abs(EquityPnl) <= 1
=============================================================================
