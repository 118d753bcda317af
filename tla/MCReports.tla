------------------------------ MODULE MCReports ------------------------------
(* Ledgers of a few orders and adjustments for TLC. Ten steps of RUB buy    *)
(* about three steps of USDT, so that averages and values are rounded.     *)
EXTENDS Reports

Order(side, quantity, amount, price, fee, currency) ==
    [side |-> side, quantity |-> quantity, amount |-> amount, price |-> price,
     fee |-> fee, currency |-> currency]

(* Both sides at two prices, with either fee, and a payload without a      *)
(* price whose fee takes all that was bought.                              *)
MCOrders == {
    Order("BUY", 3, 9, 30, 2, "RUB"),
    Order("BUY", 7, 29, 41, 1, "USDT"),
    Order("BUY", 1, 4, 0, 1, "USDT"),
    Order("SELL", 3, 12, 41, 0, ""),
    Order("SELL", 2, 6, 30, 1, "USDT"),
    Order("SELL", 4, 12, 30, 1, "RUB")}

Adjustment(account, type, value) == [account |-> account, type |-> type, value |-> value]

MCAdjustments == {
    Adjustment("bank", "investor_deposit", 20),
    Adjustment("bank", "tax_payment", 5),
    Adjustment("bank", "fee_correction", -1),
    Adjustment("exchange", "deposit", 4),
    Adjustment("exchange", "withdrawal", 3)}
=============================================================================
