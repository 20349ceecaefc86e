------------------------------- MODULE Reports -------------------------------
(***************************************************************************)
(* The statements drawn from the general ledger (modules/accounting:       *)
(* trial_balance, profit_and_loss, balance_sheet, general_ledger).  They   *)
(* select entries by date, while postings are admitted by period.          *)
(* Amounts are exact: what is stored has the decimals a report shows.      *)
(***************************************************************************)
EXTENDS Accounting

Dated(start, end) == {e \in posted : start <= entry[e].date /\ entry[e].date <= end}
Debit(e, a) == IF entry[e].lines[a] > 0 THEN entry[e].lines[a] ELSE 0
Credit(e, a) == IF entry[e].lines[a] < 0 THEN -entry[e].lines[a] ELSE 0

\* An account without lines has two zeros here, and no row in the report.
trial_balance(start, end) ==
    LET entries == Dated(start, end)
    IN  [a \in Account |-> [debit |-> Total([e \in entries |-> Debit(e, a)]),
                            credit |-> Total([e \in entries |-> Credit(e, a)])]]

\* The amounts of the accounts of a type, on the side that is normal for it.
Sign(type) == IF type \in {"LIABILITY", "EQUITY", "REVENUE"} THEN -1 ELSE 1
AmountsBy(rows, type) ==
    [a \in {a \in Account : AccountType[a] = type} |->
        Sign(type) * (rows[a].debit - rows[a].credit)]

profit_and_loss(start, end) ==
    LET rows == trial_balance(start, end)
    IN  [revenue |-> AmountsBy(rows, "REVENUE"), expense |-> AmountsBy(rows, "EXPENSE")]

\* Earnings are those of the period of the date, none when no period has it.
current_year_earnings(asOf) ==
    Total([p \in {p \in Period : Covers(p, asOf)} |->
              LET result == profit_and_loss(span[p].first, asOf)
              IN  Total(result.revenue) - Total(result.expense)])

balance_sheet(asOf) ==
    LET rows == trial_balance(1, asOf)
    IN  [assets |-> AmountsBy(rows, "ASSET"), liabilities |-> AmountsBy(rows, "LIABILITY"),
         equity |-> AmountsBy(rows, "EQUITY"), earnings |-> current_year_earnings(asOf)]

general_ledger_opening_balance(a, before) ==
    Total([e \in Dated(1, before - 1) |-> entry[e].lines[a]])

\* The running balance, at the end of each date.
general_ledger_lines(a, start, end, opening) ==
    [d \in start..end |->
        opening + Total([e \in Dated(start, d) |-> entry[e].lines[a]])]

general_ledger(a, start, end) ==
    LET opening == general_ledger_opening_balance(a, start)
        running == general_ledger_lines(a, start, end, opening)
    IN  [opening |-> Sign(AccountType[a]) * opening,
         running |-> [d \in start..end |-> Sign(AccountType[a]) * running[d]]]

----------------------------------------------------------------------------
\* Every date up to the end of the period lies in a period that is locked.
LockedThrough(p) ==
    \A d \in 1..span[p].last : \E q \in Period : Covers(q, d) /\ status[q] = "LOCKED"

\* The tables a report reads; a step that changes none of them changes no report.
ReportTables == <<posted, entry, span, status>>

\* What was reported for a locked period stands: its trial balance, and with it its profit and
\* loss, which go by date, never change, whatever periods are created and whatever is posted or
\* reversed later; and when everything before it is locked too, neither do the balance sheet at its end
\* and the account ledgers (accounting/service.py:424-551).
LockedReportsStand ==
    [][ReportTables' # ReportTables =>
       \A p \in {p \in Period : status[p] = "LOCKED"} :
          LET first == span[p].first
              last == span[p].last
          IN  /\ trial_balance(first, last)' = trial_balance(first, last)
              /\ LockedThrough(p) =>
                    /\ balance_sheet(last)' = balance_sheet(last)
                    /\ \A a \in Account :
                          general_ledger(a, first, last)' = general_ledger(a, first, last)]_vars
=============================================================================
