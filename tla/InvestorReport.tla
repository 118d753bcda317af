--------------------------- MODULE InvestorReport ---------------------------
(***************************************************************************)
(* Whose the portfolio is (apps/investors/services.py). investor_report    *)
(* stores nothing: it goes over the account's daily snapshots and shares   *)
(* each day's profit out by the capital events and the profit agreements   *)
(* that are dated up to it. So an event, a rule or an edited investor may  *)
(* change days long past, and an event after the last snapshot counts for  *)
(* nothing yet, not even in the check of a withdrawal.                     *)
(*                                                                         *)
(* Amounts are whole steps; shares, exact to 28 digits in the code, are    *)
(* rounded to them. Days are the days that have a snapshot, in order; a    *)
(* snapshot's day is the UTC date (ledger/services/engine.py:91). A flow   *)
(* in the last three hours of one is at night: in Moscow it is the next    *)
(* day's. The reports of a part of the period and the charts are left out. *)
(***************************************************************************)
EXTENDS Integers, Sequences, FiniteSetsExt, Functions

CONSTANTS
    Investors,
    Nobody,      \* no residual investor, or a source that is not set
    Rules,       \* profit agreements that may be made
    Agreements,  \* the investors' agreements to begin with
    Stakes,      \* and what they have paid in on the first day
    Amounts,     \* what may be paid in or out
    Profits,     \* what a day may earn or lose
    Opening,     \* what the first day earned: its snapshot's profit is 0
    MaxDays,     \* bound on the days with a snapshot
    MaxChanges   \* bound on what users do

Modes == {"same_as_capital", "multiplier", "fixed_pct", "none", "split_from_investor"}

ASSUME InvestorsAssumption == IsFiniteSet(Investors) /\ Nobody \notin Investors
(* _validate_profit_fields: only a multiplier may be above 100 %.          *)
ASSUME RulesAssumption ==
    /\ Rules \subseteq [mode : Modes, pct : Nat, other : Investors \cup {Nobody}]
    /\ \A r \in Rules : r.mode \in {"fixed_pct", "split_from_investor"} => r.pct <= 100
ASSUME AgreementsAssumption == Agreements \subseteq [Investors -> Rules]
ASSUME AmountsAssumption == Amounts \subseteq Nat \ {0} /\ Stakes \subseteq [Investors -> Nat]
ASSUME ProfitsAssumption == Profits \subseteq Int /\ Opening \in Int
ASSUME BoundsAssumption == MaxDays \in Nat \ {0} /\ MaxChanges \in Nat

VARIABLES
    pnl,       \* daily_total_equity_pnl of the snapshots
    equity,    \* total_equity of the last snapshot
    flow,      \* each investor's capital transactions by day: paid in and out,
               \* what of it at night, and what of it the ledger leaves out
    unlinked,  \* adjustments in RUB that are no investor's
    default,   \* the agreement in each investor's own row
    dated,     \* InvestorProfitRule rows: at most one from a day on
    active,    \* investors with is_active
    since,     \* auxiliary: booked for days that have a snapshot, and in none
               \* yet, as the rebuild is still queued
    changes

agreements == <<default, dated, active>>
vars == <<pnl, equity, flow, unlinked, default, dated, active, since, changes>>

Days == 1..MaxDays
LastDay == Len(pnl)
NoRule == [until |-> 0]
Terms == [rule : Rules, until : Days]   \* until MaxDays also stands for no end
Flow == [in : Nat, out : Nat, night : Int, paper : Int]

(* A LedgerAdjustment; counted is its include_in_ledger.                   *)
Adjustments == [day : Days, amount : Int, night : BOOLEAN, counted : BOOLEAN]
Adjustment(d, amount, night, counted) ==
    [day |-> d, amount |-> amount, night |-> night, counted |-> counted]

TypeOK ==
    /\ pnl \in Seq(Profits \cup {0}) /\ LastDay \in Days
    /\ equity \in Int
    /\ flow \in [Days -> [Investors -> Flow]]
    /\ unlinked \subseteq Adjustments
    /\ default \in [Investors -> Rules]
    /\ dated \in [Investors -> [Days -> Terms \cup {NoRule}]]
    /\ active \subseteq Investors
    /\ since \in Int
    /\ changes \in 0..MaxChanges

Init ==
    /\ pnl = <<0>>
    /\ \E stake \in Stakes :
        /\ flow = [d \in Days |-> [i \in Investors |->
                    [in |-> IF d = 1 THEN stake[i] ELSE 0, out |-> 0,
                     night |-> 0, paper |-> 0]]]
        /\ equity = Opening + SumFunction(stake)
    /\ unlinked = {} /\ since = 0
    /\ default \in Agreements
    /\ dated = [i \in Investors |-> [d \in Days |-> NoRule]]
    /\ active = Investors
    /\ changes = 0

-----------------------------------------------------------------------------
(* The function f, for TLC to work out once and not wherever it is applied. *)
Tabulated(f) == CHOOSE g \in {f} : g = f

Abs(n) == IF n < 0 THEN -n ELSE n

Round(n, k) ==
    IF n >= 0 THEN (2 * n + k) \div (2 * k) ELSE -((k - 2 * n) \div (2 * k))

Percent(n, rule) == Round(n * rule.pct, 100)

(* _resolved_rule: of the rules in force on the day the one that began     *)
(* last, or the investor's agreement of today.                             *)
Resolved(i, d) ==
    LET from == {k \in 1..d : d <= dated[i][k].until}
    IN  IF from = {} THEN default[i] ELSE dated[i][Max(from)].rule

RulesOf(d) == [i \in active |-> Resolved(i, d)]

Net(i, d) == flow[d][i].in - flow[d][i].out

(* What the report does not see yet: it takes the transactions up to the   *)
(* last snapshot's day by their date in Moscow (services.py:150).          *)
Late(i, d) == IF d = LastDay THEN flow[d][i].night ELSE 0

(* And counts them from their UTC date on (services.py:169).               *)
External(i, d) == SumFunction([k \in 1..d |-> Net(i, k)]) - Late(i, d)

In(mode, rule) == {i \in active : rule[i].mode = mode}
Weighted(rule) == In("same_as_capital", rule) \cup In("multiplier", rule) \cup In("none", rule)

(* Mutant of Pool: fixed shares are paid on top of everybody else's.       *)
PoolWithoutClaims(p, rule) == p

(* Fixed shares come off the top.                                          *)
Pool(p, rule) == p - SumFunction([i \in In("fixed_pct", rule) |-> Percent(p, rule[i])])

(* What each investor earns by participation: a fixed share, or a part of  *)
(* the pool by the capital held before the day's profit.                   *)
Gross(p, rule, capital) ==
    LET weight == SumFunctionOnSet(capital, Weighted(rule))
    IN  [i \in active |->
            IF rule[i].mode = "fixed_pct" THEN Percent(p, rule[i])
            ELSE IF i \in Weighted(rule) /\ weight > 0
            THEN Round(Pool(p, rule) * capital[i], weight)
            ELSE 0]

(* What an agreement leaves of that to the investor.                       *)
Own(g, rule) ==
    CASE rule.mode = "multiplier" -> Percent(g, rule)
      [] rule.mode = "none" -> 0
      [] OTHER -> g

Residual(gross, rule) == [i \in active |-> gross[i] - Own(gross[i], rule[i])]

(* Mutant of Assigned: a residual goes the wrong way.                      *)
AssignedLessResidual(gross, rule) ==
    LET residual == Residual(gross, rule)
    IN  [i \in active |-> Own(gross[i], rule[i])
            - SumFunctionOnSet(residual, {j \in active : rule[j].other = i})]

(* And what it gets of what others were left without (_route_residual).    *)
Assigned(gross, rule) ==
    LET residual == Residual(gross, rule)
    IN  [i \in active |-> Own(gross[i], rule[i])
            + SumFunctionOnSet(residual, {j \in active : rule[j].other = i})]

(* Mutant of Shown: the source of a split keeps what it shares.            *)
ShownTwice(assigned, rule) ==
    LET cut == [i \in In("split_from_investor", rule) |->
                    IF rule[i].other \in active
                    THEN Percent(assigned[rule[i].other], rule[i]) ELSE 0]
    IN  [i \in active |-> assigned[i] + IF i \in DOMAIN cut THEN cut[i] ELSE 0]

(* A split moves what is displayed from its source, and nothing else.      *)
Shown(assigned, rule) ==
    LET cut == [i \in In("split_from_investor", rule) |->
                    IF rule[i].other \in active
                    THEN Percent(assigned[rule[i].other], rule[i]) ELSE 0]
    IN  [i \in active |->
            assigned[i] + (IF i \in DOMAIN cut THEN cut[i] ELSE 0)
                        - SumFunctionOnSet(cut, {j \in DOMAIN cut : rule[j].other = i})]

(* The loop of investor_report: one day is added to the totals so far.     *)
ShareOut(book, d) ==
    LET rule == Tabulated(RulesOf(d))
        capital == Tabulated([i \in active |-> External(i, d) + book.assigned[i]])
        gross == Tabulated(Gross(pnl[d], rule, capital))
        assigned == Tabulated(Assigned(gross, rule))
        shown == Shown(assigned, rule)
        lost == {i \in active : rule[i].other \notin active}
    IN  [assigned |-> Tabulated([i \in active |-> book.assigned[i] + assigned[i]]),
         shown |-> Tabulated([i \in active |-> book.shown[i] + shown[i]]),
         lost |-> book.lost + SumFunctionOnSet(Residual(gross, rule), lost),
         unassigned |-> book.unassigned +
            IF SumFunctionOnSet(capital, Weighted(rule)) > 0 THEN 0 ELSE Pool(pnl[d], rule)]

Blank == [assigned |-> [i \in active |-> 0], shown |-> [i \in active |-> 0],
          lost |-> 0, unassigned |-> 0]

(* The totals after each day.                                              *)
Books[d \in 0..MaxDays] == IF d = 0 THEN Blank ELSE ShareOut(Books[d - 1], d)

(* economic_capital of the report's rows.                                  *)
Economic(i, book) == External(i, LastDay) + book.assigned[i]

-----------------------------------------------------------------------------
Change == changes < MaxChanges /\ changes' = changes + 1

(* What the ledger knows of an investor's transactions up to a day, and of *)
(* the adjustments that are nobody's.                                      *)
Paper(i, d) == SumFunction([k \in 1..d |-> flow[k][i].paper])
Banked(i, d) == SumFunction([k \in 1..d |-> Net(i, k)]) - Paper(i, d)
Unlinked(d) ==
    SumFunction([adj \in {u \in unlinked : u.counted /\ u.day <= d} |-> adj.amount])

(* total_equity of a rebuild that has these days.                          *)
TotalEquity(profits) ==
    LET d == Len(profits)
    IN  Opening + SumFunction(profits) + Unlinked(d)
            + SumFunction([i \in Investors |-> Banked(i, d)])

(* A day gets its snapshot: a rebuild has seen what happened on it, and    *)
(* whatever else was booked.                                               *)
Snapshot(p) ==
    /\ LastDay < MaxDays
    /\ pnl' = Append(pnl, p)
    /\ equity' = TotalEquity(Append(pnl, p)) /\ since' = 0
    /\ UNCHANGED <<flow, unlinked, agreements, changes>>

(* A rebuild of the days there are, that read its inputs before anything   *)
(* later was booked; flows are no profit.                                  *)
Rebuild ==
    /\ equity' = TotalEquity(pnl) /\ since' = 0
    /\ UNCHANGED <<pnl, flow, unlinked, agreements, changes>>

(* An adjustment is booked; the snapshots are as they were.                *)
Book(adj) ==
    /\ since' = since + IF adj.counted /\ adj.day <= LastDay THEN adj.amount ELSE 0
    /\ UNCHANGED <<pnl, equity, agreements>>

(* Its transaction for an investor: by the sign a deposit or a withdrawal. *)
Credit(i, adj) ==
    flow' = [flow EXCEPT ![adj.day][i] =
                [in |-> @.in + (IF adj.amount > 0 THEN adj.amount ELSE 0),
                 out |-> @.out + (IF adj.amount > 0 THEN 0 ELSE -adj.amount),
                 night |-> @.night + (IF adj.night THEN adj.amount ELSE 0),
                 paper |-> @.paper + (IF adj.counted THEN 0 ELSE adj.amount)]]

(* The day is the user's choice; the last is one a snapshot is to come of. *)
Dates == 1..(LastDay + 1) \cap Days

(* deposit writes the transaction and its adjustment together.             *)
Deposit(i, amount, d, night) ==
    LET adj == Adjustment(d, amount, night, TRUE)
    IN  /\ Change
        /\ Credit(i, adj) /\ Book(adj)
        /\ UNCHANGED unlinked

Eps == 1   \* a hundredth of a rouble

(* The check of withdraw: against the capital the report shows today.      *)
MayWithdraw(i, amount) ==
    /\ i \in active
    /\ LET capital == Economic(i, Books[LastDay])
       IN  capital > 0 /\ amount <= capital + Eps

(* Mutant of Withdraw: the amount is stored with its sign.                 *)
WithdrawSigned(i, amount, d, night) ==
    /\ Change
    /\ MayWithdraw(i, amount)
    /\ flow' = [flow EXCEPT ![d][i].out = @ - amount]
    /\ Book(Adjustment(d, -amount, night, TRUE))
    /\ UNCHANGED unlinked

(* So does withdraw.                                                       *)
Withdraw(i, amount, d, night) ==
    LET adj == Adjustment(d, -amount, night, TRUE)
    IN  /\ Change
        /\ MayWithdraw(i, amount)
        /\ Credit(i, adj) /\ Book(adj)
        /\ UNCHANGED unlinked

(* An adjustment that is no investor's, perhaps left out of the ledger.    *)
BankFlow(adj) ==
    /\ Change
    /\ adj \notin unlinked
    /\ unlinked' = unlinked \cup {adj}
    /\ Book(adj)
    /\ UNCHANGED flow

(* link_contribution makes it a deposit or a withdrawal of one, of the     *)
(* same date and unchecked; also if the ledger leaves it out, which it     *)
(* goes on to do.                                                          *)
Link(i, adj) ==
    /\ Change
    /\ unlinked' = unlinked \ {adj}
    /\ Credit(i, adj)
    /\ UNCHANGED <<pnl, equity, since, agreements>>

(* rule_create: an agreement for some days, or from a day on. Of two that  *)
(* begin on one day either may be taken; that is left out.                 *)
CreateRule(i, term, d) ==
    /\ Change
    /\ dated[i][d] = NoRule /\ d <= term.until
    /\ dated' = [dated EXCEPT ![i][d] = term]
    /\ UNCHANGED <<pnl, equity, since, flow, unlinked, default, active>>

(* rule_delete: the days fall to an earlier rule that is still in force,   *)
(* or to the investor's own agreement.                                     *)
DeleteRule(i, d) ==
    /\ Change
    /\ dated[i][d] # NoRule
    /\ dated' = [dated EXCEPT ![i][d] = NoRule]
    /\ UNCHANGED <<pnl, equity, since, flow, unlinked, default, active>>

(* investor_edit: the agreement and the activity of today, and of every    *)
(* day that has no rule of its own.                                        *)
EditAgreement(i, rule) ==
    /\ Change
    /\ default' = [default EXCEPT ![i] = rule]
    /\ UNCHANGED <<pnl, equity, since, flow, unlinked, dated, active>>

EditActivity(i) ==
    /\ Change
    /\ active' = IF i \in active THEN active \ {i} ELSE active \cup {i}
    /\ UNCHANGED <<pnl, equity, since, flow, unlinked, default, dated>>

Next ==
    \/ \E p \in Profits : Snapshot(p)
    \/ Rebuild
    \/ \E i \in Investors, amount \in Amounts, d \in Dates, night \in BOOLEAN :
        Deposit(i, amount, d, night) \/ Withdraw(i, amount, d, night)
    \/ \E amount \in Amounts, d \in Dates, night, counted \in BOOLEAN :
        \/ BankFlow(Adjustment(d, amount, night, counted))
        \/ BankFlow(Adjustment(d, -amount, night, counted))
    \/ \E i \in Investors, adj \in unlinked : Link(i, adj)
    \/ \E i \in Investors, term \in Terms, d \in Dates : CreateRule(i, term, d)
    \/ \E i \in Investors, d \in Days : DeleteRule(i, d)
    \/ \E i \in Investors, rule \in Rules : EditAgreement(i, rule)
    \/ \E i \in Investors : EditActivity(i)

Spec == Init /\ [][Next]_vars

-----------------------------------------------------------------------------
(* reconcile: the equity that capital and residuals do not account for.    *)
Diff(book) ==
    equity - SumFunction([i \in active |-> Economic(i, book)]) - book.unassigned - book.lost

(* "Remaining diff points to unlinked external flows / data issues"        *)
(* (services.py:297): what flows that are not linked come to, and the      *)
(* first day's profit, what inactive investors have paid in, flows of the  *)
(* night the report does not see yet, linked ones the ledger leaves out,   *)
(* and what no rebuild has seen.                                           *)
Explained ==
    Opening + Unlinked(LastDay) - since
        + SumFunction([i \in Investors \ active |-> Banked(i, LastDay)])
        + SumFunction([i \in active |-> Late(i, LastDay) - Paper(i, LastDay)])

(* Whatever the agreements and in whatever order flows are booked, linked  *)
(* and rebuilt, it is that, but for half a step of rounding an investor    *)
(* and day: no profit is given twice or lost.                              *)
ReconcilesToEquity ==
    2 * Abs(Diff(Books[LastDay]) - Explained) <= LastDay * Cardinality(Investors)

(* "split_from_investor is display-only" (services.py:12-13): what is      *)
(* displayed of all investors is what they were assigned.                  *)
SplitIsZeroSum ==
    LET book == Books[LastDay]
    IN  SumFunctionOnSet(book.shown, active) = SumFunctionOnSet(book.assigned, active)

(* The residual investor of a multiplier above 100 %, which the form takes *)
(* (models.py:31), pays for it.                                            *)
PaysForOthers(i, rule) ==
    \E j \in active : rule[j].other = i /\ rule[j].mode = "multiplier" /\ rule[j].pct > 100

(* On a day that earns no less than the fixed shares, nobody loses but who *)
(* pays for a multiplier above 100 %, unless an investor's capital is      *)
(* overdrawn.                                                              *)
GoodDayHurtsNobody ==
    LET before == Books[LastDay - 1]
        after == Books[LastDay]
        rule == RulesOf(LastDay)
    IN  /\ pnl[LastDay] >= 0
        /\ Pool(pnl[LastDay], rule) >= 0
        /\ \A i \in active : Economic(i, before) >= 0
        => \A i \in active :
            PaysForOthers(i, rule) \/ after.assigned[i] >= before.assigned[i]

(* "Cannot withdraw more than the economic capital" (services.py:365-366,  *)
(* test_capital.py:103 test_cannot_withdraw_more_than_economic): what a    *)
(* withdrawal is allowed to take is there, counting the capital events     *)
(* since the last snapshot too.                                            *)
WithdrawalIsCovered ==
    LET book == Books[LastDay]
    IN  \A i \in active, amount \in Amounts :
            MayWithdraw(i, amount)
                => amount <= SumFunction([d \in Days |-> Net(i, d)]) + book.assigned[i] + Eps
=============================================================================
