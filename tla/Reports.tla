------------------------------- MODULE Reports -------------------------------
(***************************************************************************)
(* The sums over days that the program shows, on top of LedgerEngine: the  *)
(* weekly snapshots (_build_weekly_snapshots,                              *)
(* apps/ledger/services/engine.py), the monthly report, and the            *)
(* dashboard's totals and "clean" curves (apps/reports/views.py). A window *)
(* is a week, a month, or the days the dashboard is asked for.             *)
(*                                                                         *)
(* A snapshot's day is the UTC date of its events (engine.py:91), the      *)
(* dashboard dates adjustments in Moscow time (views.py:84): one booked    *)
(* in Moscow's first three hours is in the snapshot of one day and on the  *)
(* dashboard's list of the next.                                           *)
(***************************************************************************)
EXTENDS LedgerEngine

VARIABLES
    listed,  \* adj_by_day of the day and of the next one
    late,    \* the UTC day is in its last three hours
    window   \* the sums over the window's snapshots so far

reportVars == <<listed, late, window>>

NothingListed == [rub |-> 0, usdt |-> 0]
NoneListed == [today |-> NothingListed, tomorrow |-> NothingListed]

(* pnl and cum are the code's sums; the rest is auxiliary: what the curve  *)
(* began at, the running profit before the window, what is in its last     *)
(* snapshot and on the list of the day after, and whether the curve went   *)
(* astray for good.                                                        *)
Window(snapshot) ==
    [days |-> 0, pnl |-> 0, cum |-> 0, base |-> 0, pending |-> 0, astray |-> FALSE,
     running |-> snapshot.running, preceded |-> snapshot.exists]

(* The ledger keeps its type below the reports, and a window never sums    *)
(* over more days than the ledger has had events.                          *)
ReportsTypeOK ==
    /\ TypeOK
    /\ listed \in [today : [rub : Int, usdt : Int], tomorrow : [rub : Int, usdt : Int]]
    /\ late \in BOOLEAN
    /\ window \in [days : 0..events, pnl : Int, cum : Int, base : Int, pending : Int,
                   astray : BOOLEAN, running : Int, preceded : BOOLEAN]

ReportInit == Init /\ listed = NoneListed /\ late = FALSE /\ window = Window(NoSnapshot)

-----------------------------------------------------------------------------
Trade(o) ==
    /\ Buy(o) \/ Sell(o)
    /\ UNCHANGED reportVars

(* Mutant of ListOf: the dashboard takes the amounts as the form has them. *)
ListOfUnsigned(a, list) ==
    IF a.account = "bank" THEN [list EXCEPT !.rub = @ + Abs(a.value)]
    ELSE [list EXCEPT !.usdt = @ + Abs(a.value)]

ListOf(a, list) ==
    IF a.account = "bank" THEN [list EXCEPT !.rub = @ + Signed(a)]
    ELSE [list EXCEPT !.usdt = @ + Signed(a)]

(* The dashboard sums every adjustment, mapped or not.                     *)
List(a, night) ==
    /\ late => night
    /\ late' = night
    /\ listed' = IF night THEN [listed EXCEPT !.tomorrow = ListOf(a, @)]
                 ELSE [listed EXCEPT !.today = ListOf(a, @)]

(* USDT booked at night is valued at two days' prices.                     *)
Book(a, night) ==
    /\ BankFlow(a) \/ ExchangeFlow(a)
    /\ List(a, night)
    /\ window' = [window EXCEPT !.astray = @ \/ (night /\ a.account = "exchange")]

(* An adjustment without an event; one in a window is enough.              *)
PassOver(a, night) ==
    /\ ~Mapped(a) /\ ~window.astray
    /\ List(a, night)
    /\ window' = [window EXCEPT !.astray = TRUE]
    /\ UNCHANGED vars

(* The next date begins.                                                   *)
Turn ==
    /\ listed' = [today |-> listed.tomorrow, tomorrow |-> NothingListed]
    /\ late' = FALSE

(* The dashboard does not round: USDT by price is in steps of a rouble     *)
(* step's Scale-th, and so is what it adds up and what the curve shows.    *)
ListedToday == Scale * listed.today.rub + listed.today.usdt * LastPrice

Cum == window.cum + ListedToday

CurveStart == Scale * (Equity - EquityPnl - listed.tomorrow.rub) - Cum

(* Mutant of CloseDay: a window shows the profit of its last snapshot.     *)
CloseDayLast ==
    /\ NextDay /\ Turn
    /\ window' = [window EXCEPT
            !.days = @ + 1, !.pnl = EquityPnl, !.cum = Cum, !.pending = listed.tomorrow.rub,
            !.base = IF window.days > 0 THEN @ ELSE CurveStart]

(* A day with a snapshot.                                                  *)
CloseDay ==
    /\ NextDay /\ Turn
    /\ window' = [window EXCEPT
            !.days = @ + 1, !.pnl = @ + EquityPnl, !.cum = Cum,
            !.pending = listed.tomorrow.rub,
            !.base = IF window.days > 0 THEN @ ELSE CurveStart]

(* Mutant of SkipDay: every date counts as a day of the report.            *)
SkipDayCounted ==
    /\ ~day.events /\ listed # NoneListed /\ Turn
    /\ window' = [window EXCEPT !.days = @ + 1]
    /\ UNCHANGED vars

(* A day without one: what the dashboard has listed for it is never        *)
(* subtracted, for the loop goes over snapshots.                           *)
SkipDay ==
    /\ ~day.events /\ listed # NoneListed /\ Turn
    /\ window' = [window EXCEPT
            !.astray = @ \/ (window.days > 0 /\ listed.today # NothingListed)]
    /\ UNCHANGED vars

(* A week or month begins, or the first day the dashboard is asked for.    *)
NextWindow ==
    /\ day = NewDay /\ ~late /\ window.days > 0
    /\ window' = Window(snap)
    /\ UNCHANGED <<vars, listed, late>>

ReportNext ==
    \/ \E o \in Orders : Trade(o)
    \/ \E a \in Adjustments, night \in BOOLEAN : Book(a, night) \/ PassOver(a, night)
    \/ CloseDay
    \/ SkipDay
    \/ NextWindow

ReportSpec == ReportInit /\ [][ReportNext]_<<vars, reportVars>>

-----------------------------------------------------------------------------
(* The profit a week or month sums up from its days is what the running    *)
(* WAC profit of its last snapshot has gained over the one before the      *)
(* window, to within the rounding of both ends: the two columns of the     *)
(* weekly report agree (engine.py:311-314), however the days were cut and  *)
(* however many had no trade, as long as nothing was oversold and no USDT  *)
(* came or went without roubles. The ledger's first day has no daily       *)
(* profit, so its window is not claimed.                                   *)
WindowProfitsAgree ==
    window.days > 0 /\ window.preceded /\ ~past.oversold /\ ~past.unmatched
        => Scale * (Abs(window.pnl - (snap.running - window.running)) - 2 * past.sells - 2)
               <= past.peak

(* The clean equity curve moves by the daily profits and by nothing else   *)
(* (views.py:106-112), but for what was booked in the last night and comes *)
(* off a day late, unless a date without a snapshot has swallowed an       *)
(* adjustment, or one had no event, or USDT were moved at night: then the  *)
(* curve is off for the rest of the window. What the snapshot rounds and   *)
(* the dashboard does not, adds up to half a step for each further day.    *)
CleanCurveIsProfit ==
    window.days > 0 /\ ~window.astray
        => 2 * Abs(Scale * (snap.equity - window.pnl - window.pending)
                     - window.cum - window.base)
               <= Scale * (window.days - 1)

(* chart_equity_pnl_clean of the dashboard.                                *)
CleanPnl == Scale * EquityPnl - ListedToday

(* "Same curve with deposit/withdrawal spikes removed (trading PnL only)"  *)
(* (apps/reports/views.py:101): without a trade there is none.             *)
CleanIsTradingOnly ==
    snap.exists /\ day.events /\ ~day.trades /\ ~past.unpriced => Abs(CleanPnl) <= Scale
=============================================================================
