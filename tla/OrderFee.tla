------------------------------ MODULE OrderFee ------------------------------
(***************************************************************************)
(* The fee of one order: what resolve_fee makes of the fee an admin has    *)
(* entered, of the payloads and of the fee rules                           *)
(* (apps/orders/services/fees.py), and how it gets into the row            *)
(* (normalize_raw_order, apps/orders/services/normalizer.py).              *)
(*                                                                         *)
(* The normaliser reads the row twice: first to resolve the fee, with the  *)
(* quantity and amount that row has from the payload before this one, and  *)
(* again to save it whole. The admin's forms change rows and rules at any  *)
(* time between.                                                           *)
(***************************************************************************)
EXTENDS Integers

CONSTANTS
    Side,       \* of the order, "BUY" or "SELL"
    Created,    \* its time
    Lists,      \* list payloads of it
    Details,    \* detail payloads of it
    RuleIds,    \* FeeRule rows there may be
    Rules,      \* what they may say
    Manuals,    \* fees an admin may enter
    Normalisers \* processes that normalise: the sync, the detail task

Currencies == {"USDT", "RUB"}
Forever == -1    \* effective_to is NULL
NoRule == [active |-> FALSE]
NoDetail == [fee |-> 0]
NoManual == [amount |-> -1, currency |-> ""]
NoOrder == [source |-> "no row"]

ASSUME OrderAssumption == Side \in {"BUY", "SELL"} /\ Created \in Nat
ASSUME PayloadAssumption ==
    /\ Lists \subseteq [quantity : Nat, amount : Nat, fee : Nat]
    /\ Details \subseteq [quantity : Nat, fee : Nat, currency : Currencies]
ASSUME RulesAssumption ==
    Rules \subseteq [side : {"BUY", "SELL", "both"}, rate : Nat, currency : Currencies,
                     from : Nat, to : Nat \cup {Forever}, active : BOOLEAN]
ASSUME ManualsAssumption == Manuals \subseteq [amount : Nat, currency : Currencies]

VARIABLES
    raw_order,   \* the RawP2POrder row's payloads
    rules,       \* the account's FeeRule rows
    row,         \* the P2POrder row
    normaliser,  \* what each normalising process has read
    form         \* the row as the admin's (or a user's) page shows it, if open

feeVars == <<raw_order, rules, row, normaliser, form>>

Fee(amount, currency, source) == [amount |-> amount, currency |-> currency, source |-> source]
NoFee == Fee(0, "", "none")
Fees == [amount : Nat, currency : Currencies \cup {""},
         source : {"manual", "api", "calculated", "none"}]
RawRows == [list : Lists, detail : Details \cup {NoDetail}]
OrderRows == [source : {"payload"}, quantity : Nat, amount_rub : Int, fee : Fees,
              manual : Manuals \cup {NoManual}]

AtRest == [pc |-> "idle"]

FeeTypeOK ==
    /\ raw_order \in RawRows
    /\ rules \in [RuleIds -> Rules \cup {NoRule}]
    /\ row \in OrderRows \cup {NoOrder}
    /\ normaliser \in [Normalisers ->
            {AtRest} \cup [pc : {"resolve"}, seen : RawRows]
                   \cup [pc : {"load"}, seen : RawRows, fee : Fees]
                   \cup [pc : {"save"}, seen : RawRows, fee : Fees, new : BOOLEAN,
                         manual : Manuals \cup {NoManual}]]
    /\ form \in OrderRows \cup {NoOrder}

FeeInit ==
    /\ raw_order \in [list : Lists, detail : {NoDetail}]
    /\ rules = [i \in RuleIds |-> NoRule]
    /\ row = NoOrder
    /\ normaliser = [w \in Normalisers |-> AtRest]
    /\ form = NoOrder

-----------------------------------------------------------------------------
Gross(r) == IF r.detail = NoDetail THEN r.list.quantity ELSE r.detail.quantity

(* _compute_net_fields, as far as amount_rub goes.                         *)
AmountRub(gross, fee) ==
    IF fee.currency # "RUB" THEN gross
    ELSE IF Side = "SELL" THEN gross - fee.amount ELSE gross + fee.amount

(* Mutant of InForce: a rule is taken for the whole past as well.          *)
InForceFromEver(rule) ==
    /\ rule # NoRule /\ rule.active
    /\ rule.to = Forever \/ rule.to >= Created
    /\ rule.side \in {"both", Side}

(* The query of _fee_from_rule, and the side its loop asks for.            *)
InForce(rule) ==
    /\ rule # NoRule /\ rule.active
    /\ rule.from <= Created
    /\ rule.to = Forever \/ rule.to >= Created
    /\ rule.side \in {"both", Side}

(* The rules that may come first in order of -effective_from.              *)
Latest(set) == {r \in set : \A s \in set : s.from <= r.from}

(* The base is a quantity or an amount, the fee is called USDT either way. *)
RuleFee(rule, quantity, amount) ==
    LET fee == rule.rate * (IF rule.currency = "USDT" THEN quantity ELSE amount)
    IN  IF fee > 0 THEN Fee(fee, "USDT", "calculated") ELSE NoFee

RuleFees(quantity, amount) ==
    LET set == Latest({rules[i] : i \in {i \in RuleIds : InForce(rules[i])}})
    IN  IF set = {} THEN {NoFee} ELSE {RuleFee(r, quantity, amount) : r \in set}

(* Mutant of ResolveFee: what the exchange charged goes before what the    *)
(* admin says.                                                             *)
ResolveApiFirst(manual, quantity, amount, r) ==
    IF r.detail.fee > 0 THEN {Fee(r.detail.fee, r.detail.currency, "api")}
    ELSE IF r.list.fee > 0 THEN {Fee(r.list.fee, "USDT", "api")}
    ELSE IF manual # NoManual THEN {Fee(manual.amount, manual.currency, "manual")}
    ELSE RuleFees(quantity, amount)

(* resolve_fee; a set, for rules of the same date have no order.           *)
ResolveFee(manual, quantity, amount, r) ==
    IF manual # NoManual THEN {Fee(manual.amount, manual.currency, "manual")}
    ELSE IF r.detail.fee > 0 THEN {Fee(r.detail.fee, r.detail.currency, "api")}
    ELSE IF r.list.fee > 0 THEN {Fee(r.list.fee, "USDT", "api")}
    ELSE RuleFees(quantity, amount)

-----------------------------------------------------------------------------
(* The raw rows are fetched before the first order is normalised.          *)
FetchRaw(w) ==
    /\ normaliser[w] = AtRest
    /\ normaliser' = [normaliser EXCEPT ![w] = [pc |-> "resolve", seen |-> raw_order]]
    /\ UNCHANGED <<raw_order, rules, row, form>>

(* The fee is resolved for the row as it is, or for a stub of a new one.   *)
Resolve(w) ==
    /\ normaliser[w].pc = "resolve"
    /\ LET seen == normaliser[w].seen
       IN  \E fee \in IF row = NoOrder
                      THEN ResolveFee(NoManual, Gross(seen), seen.list.amount, seen)
                      ELSE ResolveFee(row.manual, row.quantity, row.amount_rub, seen) :
                normaliser' = [normaliser EXCEPT ![w] =
                                   [pc |-> "load", seen |-> seen, fee |-> fee]]
    /\ UNCHANGED <<raw_order, rules, row, form>>

(* The row is read again; the payload says nothing of its manual fee.      *)
Load(w) ==
    /\ normaliser[w].pc = "load"
    /\ normaliser' = [normaliser EXCEPT ![w] =
            [pc |-> "save", seen |-> @.seen, fee |-> @.fee, new |-> row = NoOrder,
             manual |-> IF row = NoOrder THEN NoManual ELSE row.manual]]
    /\ UNCHANGED <<raw_order, rules, row, form>>

Normalised(w) ==
    [source |-> "payload", quantity |-> Gross(normaliser[w].seen),
     amount_rub |-> AmountRub(normaliser[w].seen.list.amount, normaliser[w].fee),
     fee |-> normaliser[w].fee, manual |-> normaliser[w].manual]

(* Mutant of Save: the stored quantity and amount are not brought up to    *)
(* date.                                                                   *)
SaveFeeOnly(w) ==
    /\ normaliser[w].pc = "save"
    /\ row' = IF normaliser[w].new /\ row # NoOrder THEN row
              ELSE IF normaliser[w].new THEN Normalised(w)
              ELSE [row EXCEPT !.fee = normaliser[w].fee]
    /\ normaliser' = [normaliser EXCEPT ![w] = AtRest]
    /\ UNCHANGED <<raw_order, rules, form>>

(* The whole row is written, with the manual fee that was read with it; a  *)
(* second row of the order is refused by its unique key.                   *)
Save(w) ==
    /\ normaliser[w].pc = "save"
    /\ row' = IF normaliser[w].new /\ row # NoOrder THEN row ELSE Normalised(w)
    /\ normaliser' = [normaliser EXCEPT ![w] = AtRest]
    /\ UNCHANGED <<raw_order, rules, form>>

-----------------------------------------------------------------------------
(* A sync finds the order listed anew; its detail arrives once.            *)
Listed(list) ==
    /\ raw_order' = [raw_order EXCEPT !.list = list]
    /\ UNCHANGED <<rules, row, normaliser, form>>

Detailed(detail) ==
    /\ raw_order.detail = NoDetail
    /\ raw_order' = [raw_order EXCEPT !.detail = detail]
    /\ UNCHANGED <<rules, row, normaliser, form>>

(* FeeRule rows are saved and deleted in the admin.                        *)
SaveRule(i, rule) ==
    /\ rules' = [rules EXCEPT ![i] = rule]
    /\ UNCHANGED <<raw_order, row, normaliser, form>>

(* P2POrderAdmin's page posts every column of the row it has shown, with a *)
(* fee entered, changed or taken away.                                     *)
OpenForm ==
    /\ row # NoOrder /\ form = NoOrder
    /\ form' = row
    /\ UNCHANGED <<raw_order, rules, row, normaliser>>

(* Mutant of SaveForm: the currency is not on the page.                    *)
SaveFormAmount(manual) ==
    /\ form # NoOrder
    /\ row' = [form EXCEPT !.manual.amount = manual.amount]
    /\ form' = NoOrder
    /\ UNCHANGED <<raw_order, rules, normaliser>>

SaveForm(manual) ==
    /\ form # NoOrder
    /\ row' = [form EXCEPT !.manual = manual]
    /\ form' = NoOrder
    /\ UNCHANGED <<raw_order, rules, normaliser>>

Normalise(w) == FetchRaw(w) \/ Resolve(w) \/ Load(w) \/ Save(w)

FeeNext ==
    \/ \E w \in Normalisers : Normalise(w)
    \/ \E list \in Lists : Listed(list)
    \/ \E detail \in Details : Detailed(detail)
    \/ \E i \in RuleIds, rule \in Rules \cup {NoRule} : SaveRule(i, rule)
    \/ OpenForm
    \/ \E manual \in Manuals \cup {NoManual} : SaveForm(manual)

(* Every sync, hourly, normalises every order anew; one that is killed has *)
(* left the row alone and is not told from one that did not begin. Nothing *)
(* is assumed of the admin or of the exchange.                             *)
FeeFairness == \A w \in Normalisers : WF_feeVars(Normalise(w))

FeeSpec == FeeInit /\ [][FeeNext]_feeVars /\ FeeFairness

-----------------------------------------------------------------------------
(* The rules of the order's own time and side, and the last of them.       *)
OwnRules ==
    {r \in {rules[i] : i \in RuleIds} \ {NoRule} :
        /\ r.active /\ r.side # (IF Side = "BUY" THEN "SELL" ELSE "BUY")
        /\ Created >= r.from
        /\ r.to # Forever => Created <= r.to}

RowManual == IF row = NoOrder THEN NoManual ELSE row.manual
RowFee == IF row = NoOrder THEN NoFee ELSE row.fee

(* "manual > API detail > API list > FeeRule > zero" (fees.py:10), for the *)
(* payload there is now.                                                   *)
DocumentedFees ==
    IF RowManual # NoManual THEN {Fee(row.manual.amount, row.manual.currency, "manual")}
    ELSE IF raw_order.detail.fee > 0
         THEN {Fee(raw_order.detail.fee, raw_order.detail.currency, "api")}
    ELSE IF raw_order.list.fee > 0 THEN {Fee(raw_order.list.fee, "USDT", "api")}
    ELSE IF OwnRules = {} THEN {NoFee}
    ELSE {RuleFee(r, Gross(raw_order), raw_order.list.amount) : r \in Latest(OwnRules)}

SavesForm == \E m \in Manuals \cup {NoManual} : SaveForm(m)

(* Rows with the documented fee and the net amount that goes with it.      *)
DocumentedRows ==
    {[source |-> "payload", quantity |-> Gross(raw_order), fee |-> fee, manual |-> RowManual,
      amount_rub |-> AmountRub(raw_order.list.amount, fee)] : fee \in DocumentedFees}

(* The row settles on the documented fee once the payload and the rules of *)
(* the order's own time rest and nobody saves the row from a page, though  *)
(* each change leads to a fee computed from the previous row first         *)
(* (normalizer.py:77-85): rules of any other time or side may go on        *)
(* changing.                                                               *)
Quiet == UNCHANGED raw_order /\ OwnRules' = OwnRules /\ ~SavesForm

FeeSettles == <>[][Quiet]_feeVars => <>[](row \in DocumentedRows)

(* A fee an admin has entered, if no normaliser or page takes it off the   *)
(* row again, is the one the row ends with once no page is saved, whatever *)
(* the exchange and the rules go on coming up with (fees.py:13), although  *)
(* the page itself recomputes nothing.                                     *)
ManualWins ==
    /\ <>[][~SavesForm]_feeVars
    /\ <>[](RowManual # NoManual)
    => <>[](RowFee = Fee(RowManual.amount, RowManual.currency, "manual"))
=============================================================================
