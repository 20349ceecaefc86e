------------------------------ MODULE Accounting ------------------------------
(***************************************************************************)
(* The general ledger (modules/accounting/service.py): posting, reversal,  *)
(* fiscal periods and the chart of accounts of one tenant.                 *)
(*                                                                         *)
(* Postings run in sessions, step by step, next to changes of periods and  *)
(* accounts, which are one step each: they lock one row and read no other. *)
(* The lines of an entry are its net debit on each account.  A transaction *)
(* posts one entry; one that posts two holds the same period for both.     *)
(* The journal number is the subject of Numbering, and the foreign keys of *)
(* the lines are locked from their insertion, which ends the transaction.  *)
(***************************************************************************)
EXTENDS Integers, FiniteSets, Sequences, Functions

CONSTANTS
    Account,        \* accounts
    AccountType,    \* accounts.account_type
    Default,        \* the postable DEFAULT_ACCOUNTS
    Period,         \* fiscal periods
    FirstPeriod,    \* the period _bootstrap creates
    LastDate,       \* bound: dates are 1..LastDate
    FirstYearEnd,   \* last date of FirstPeriod
    Document,       \* source documents with the event they post for
    Lines,          \* the lines a request may carry
    Entry,          \* bound: journal entry ids
    Session,        \* concurrent database sessions
    None            \* NULL

ASSUME AccountAssumption == Default \subseteq Account /\ Lines \subseteq [Account -> Int]
ASSUME AccountTypeAssumption ==
    AccountType \in [Account -> {"ASSET", "LIABILITY", "EQUITY", "REVENUE", "EXPENSE"}]
ASSUME DateAssumption ==
    LastDate \in Nat /\ FirstYearEnd \in 1..LastDate /\ FirstPeriod \in Period

VARIABLES
    opened,     \* accounts that exist
    postable,   \* accounts.is_postable
    span,       \* first and last date of each period
    status,     \* fiscal_periods.status, "NONE" before the period exists
    posted,     \* committed journal entries
    entry,      \* their columns
    req,        \* the request each session serves
    todo,       \* what it still has to lock or read
    into,       \* the period its entry goes into, once it has locked it
    holder      \* sessions that hold each period or entry FOR UPDATE

vars == <<opened, postable, span, status, posted, entry, req, todo, into, holder>>

Date == 1..LastDate
Span == [first : Date, last : Date]
\* adjust: the user has accounting.post_closed.  Documents post without allow_closed.
PostRequest ==
    [kind : {"document"}, source : Document, date : Date, lines : Lines, adjust : {FALSE}]
    \cup [kind : {"manual"}, source : {None}, date : Date, lines : Lines, adjust : BOOLEAN]
ReverseRequest ==
    [kind : {"reversal"}, source : Entry, date : Date, lines : [Account -> Int], adjust : BOOLEAN]
Request == PostRequest \cup ReverseRequest

EntryRow ==
    [kind : {"document", "manual", "reversal"}, source : Document \cup Entry \cup {None},
     date : Date, lines : [Account -> Int], period : Period, reversedBy : Entry \cup {None}]

ASSUME NoneAssumption == None \notin Entry /\ None \notin Period
                         /\ None \notin Request /\ None \notin EntryRow
ASSUME RowAssumption == Entry \cap Period = {}

Step == {"entry", "accounts", "period"}

\* post reads the accounts after it locked the period; post_manual and reverse
\* hand it accounts they read before.
Plan(kind) ==
    CASE kind = "document" -> <<"period", "accounts">>
      [] kind = "manual" -> <<"accounts", "period">>
      [] OTHER -> <<"entry", "accounts", "period">>

Total(l) == FoldFunction(+, 0, l)
Balanced(l) == Total(l) = 0 /\ \E a \in Account : l[a] # 0

Swapped(l) == [a \in Account |-> -l[a]]

Active(t) == req[t] # None

BeginPost(t, r) ==
    /\ ~Active(t)
    /\ Balanced(r.lines)
    /\ req' = [req EXCEPT ![t] = r]
    /\ todo' = [todo EXCEPT ![t] = Plan(r.kind)]
    /\ UNCHANGED <<opened, postable, span, status, posted, entry, into, holder>>

BeginReverse(t, e, d, privileged) ==
    /\ ~Active(t)
    /\ e \in posted
    /\ req' = [req EXCEPT ![t] = [kind |-> "reversal", source |-> e, date |-> d,
                                  lines |-> Swapped(entry[e].lines), adjust |-> privileged]]
    /\ todo' = [todo EXCEPT ![t] = Plan("reversal")]
    /\ UNCHANGED <<opened, postable, span, status, posted, entry, into, holder>>

Due(t, step) == Active(t) /\ todo[t] # <<>> /\ Head(todo[t]) = step
Held(x) == holder[x] # {}

\* The original FOR UPDATE: not reversed yet, and not after its reversal.
LockEntry(t) ==
    LET e == req[t].source
    IN  /\ Due(t, "entry")
        /\ ~Held(e)
        /\ entry[e].reversedBy = None
        /\ req[t].date >= entry[e].date
        /\ holder' = [holder EXCEPT ![e] = {t}]
        /\ todo' = [todo EXCEPT ![t] = Tail(@)]
        /\ UNCHANGED <<opened, postable, span, status, posted, entry, req, into>>

\* A plain SELECT of the accounts, and the check of what it read.
ReadAccounts(t) ==
    /\ Due(t, "accounts")
    /\ \A a \in Account : req[t].lines[a] # 0 => a \in opened /\ a \in postable
    /\ todo' = [todo EXCEPT ![t] = Tail(@)]
    /\ UNCHANGED <<opened, postable, span, status, posted, entry, req, into, holder>>

Covers(p, d) == status[p] # "NONE" /\ span[p].first <= d /\ d <= span[p].last

\* Mistake: the privilege also opens locked periods.
AdmitsLocked(p, r) == status[p] # "OPEN" => r.kind # "document" /\ r.adjust

Admits(p, r) ==
    /\ status[p] # "LOCKED"
    /\ status[p] = "CLOSED" => r.kind # "document" /\ r.adjust

HoldsPeriod(t, p) == ~Held(p) /\ holder' = [holder EXCEPT ![p] = {t}]

\* period_for_date FOR UPDATE, and the check of its status.
LockPeriod(t, p) ==
    /\ Due(t, "period")
    /\ Covers(p, req[t].date)
    /\ Admits(p, req[t])
    /\ HoldsPeriod(t, p)
    /\ into' = [into EXCEPT ![t] = p]
    /\ todo' = [todo EXCEPT ![t] = Tail(@)]
    /\ UNCHANGED <<opened, postable, span, status, posted, entry, req>>

\* UNIQUE (source_type, source_id, event_type); a manual entry has a source of its own.
NewSource(r) ==
    r.kind # "manual" =>
        ~\E e \in posted : entry[e].kind = r.kind /\ entry[e].source = r.source

NewEntry(t) ==
    [kind |-> req[t].kind, source |-> req[t].source, date |-> req[t].date,
     lines |-> req[t].lines, period |-> into[t], reversedBy |-> None]

\* Mistake: the original does not learn of its reversal.
StampedNever(e, r, f) == [entry EXCEPT ![f] = e]

\* The new row f, and the link from its original.
Stamped(e, r, f) ==
    [g \in Entry |-> IF g = f THEN e
                     ELSE IF r.kind = "reversal" /\ g = r.source THEN [entry[g] EXCEPT !.reversedBy = f]
                     ELSE entry[g]]

\* The trigger lets a posted row change in its link to a reversal only.
nexora_posted_entry_immutable(rows) ==
    \A g \in posted : [rows[g] EXCEPT !.reversedBy = entry[g].reversedBy] = entry[g]

EndSession(t) ==
    /\ req' = [req EXCEPT ![t] = None]
    /\ todo' = [todo EXCEPT ![t] = <<>>]
    /\ into' = [into EXCEPT ![t] = None]
    /\ holder' = [x \in Period \cup Entry |-> holder[x] \ {t}]

\* The entry and its lines are inserted, POSTED, and the transaction commits.
Post(t, f) ==
    /\ Active(t)
    /\ todo[t] = <<>>
    /\ f \notin posted
    /\ NewSource(req[t])
    /\ posted' = posted \cup {f}
    /\ entry' = Stamped(NewEntry(t), req[t], f)
    /\ nexora_posted_entry_immutable(entry')
    /\ EndSession(t)
    /\ UNCHANGED <<opened, postable, span, status>>

\* A refusal, an error or a crash.
Rollback(t) ==
    /\ Active(t)
    /\ EndSession(t)
    /\ UNCHANGED <<opened, postable, span, status, posted, entry>>

\* legal.get(period.status); no other change is accepted.
NextStatus(s) == IF s = "OPEN" THEN "CLOSED" ELSE IF s = "CLOSED" THEN "LOCKED" ELSE s

ChangePeriodStatus(p) ==
    /\ status[p] # "NONE"
    /\ NextStatus(status[p]) # status[p]
    /\ ~Held(p)
    /\ status' = [status EXCEPT ![p] = NextStatus(@)]
    /\ UNCHANGED <<opened, postable, span, posted, entry, req, todo, into, holder>>

\* Mistake: only a period of the same dates is refused.
OverlapSame(s, u) == s = u

\* daterange(start_date, end_date, '[]') WITH &&
Overlap(s, u) == s.first <= u.last /\ u.first <= s.last

CreatePeriod(p, s) ==
    /\ status[p] = "NONE"
    /\ s.first <= s.last
    /\ \A o \in Period : status[o] # "NONE" => ~Overlap(span[o], s)
    /\ status' = [status EXCEPT ![p] = "OPEN"]
    /\ span' = [span EXCEPT ![p] = s]
    /\ UNCHANGED <<opened, postable, posted, entry, req, todo, into, holder>>

\* A new account, whose parent, of the same type, may no longer be posted to.
\* The lookup of the parent FOR UPDATE, the insert and the commit.
CreateAccount(a, parents, leaf) ==
    /\ a \notin opened
    /\ parents \subseteq opened /\ \A parent \in parents : AccountType[parent] = AccountType[a]
    /\ opened' = opened \cup {a}
    /\ postable' = (postable \ parents) \cup (IF leaf THEN {a} ELSE {})
    /\ UNCHANGED <<span, status, posted, entry, req, todo, into, holder>>

\* A tenant after _bootstrap: the default chart and one open period.
Init ==
    /\ opened = Default
    /\ postable = Default
    /\ span = [p \in Period |-> [first |-> 1, last |-> FirstYearEnd]]
    /\ status = [p \in Period |-> IF p = FirstPeriod THEN "OPEN" ELSE "NONE"]
    /\ posted = {}
    /\ entry = [e \in Entry |-> None]
    /\ req = [t \in Session |-> None]
    /\ todo = [t \in Session |-> <<>>]
    /\ into = [t \in Session |-> None]
    /\ holder = [x \in Period \cup Entry |-> {}]

\* AccountCreate names at most one parent.
Parents == {{}} \cup {{a} : a \in Account}

SessionStep(t) ==
    \/ LockEntry(t)
    \/ ReadAccounts(t)
    \/ \E p \in Period : LockPeriod(t, p)
    \/ \E f \in Entry : Post(t, f)
    \/ Rollback(t)

Next ==
    \/ \E t \in Session, r \in PostRequest : BeginPost(t, r)
    \/ \E t \in Session, e \in Entry, d \in Date, privileged \in BOOLEAN :
           BeginReverse(t, e, d, privileged)
    \/ \E t \in Session : SessionStep(t)
    \/ \E p \in Period : ChangePeriodStatus(p)
    \/ \E p \in Period, s \in Span : CreatePeriod(p, s)
    \/ \E a \in Account, parents \in Parents, leaf \in BOOLEAN : CreateAccount(a, parents, leaf)

Spec == Init /\ [][Next]_vars

-----------------------------------------------------------------------------
\* Every table and every session keeps its shape, and a period its status among
\* OPEN, CLOSED and LOCKED.
TypeOK ==
    /\ opened \subseteq Account
    /\ postable \subseteq opened
    /\ span \in [Period -> Span]
    /\ status \in [Period -> {"NONE", "OPEN", "CLOSED", "LOCKED"}]
    /\ posted \subseteq Entry
    /\ entry \in [Entry -> EntryRow \cup {None}]
    /\ \A e \in posted : entry[e] # None
    /\ req \in [Session -> Request \cup {None}]
    /\ todo \in [Session -> Seq(Step)]
    /\ into \in [Session -> Period \cup {None}]
    /\ holder \in [Period \cup Entry -> SUBSET Session]

InPeriod(p) == {e \in posted : entry[e].period = p}

\* LOCKED is terminal, and what a locked period holds never changes: no posting
\* that checked the period earlier commits into it later.
LockedPeriodIsFrozen ==
    [][\A p \in Period : status[p] = "LOCKED" =>
          status'[p] = "LOCKED" /\ InPeriod(p)' = InPeriod(p)]_vars

Ended(t) == Active(t) /\ req'[t] = None

\* When an entry commits its period is open at that moment, or it is the manual
\* entry or reversal of a user who may post into closed periods.
ClosedOnlyByAdjustment ==
    [][\A e \in posted' \ posted :
          \/ status[entry'[e].period] = "OPEN"
          \/ \E t \in Session : Ended(t) /\ req[t].kind # "document" /\ req[t].adjust]_vars

\* An entry and its reversal name each other, cancel on every account, and the
\* reversal is not the earlier one: no entry is reversed twice.
ReversalsCancel ==
    /\ \A e \in posted : entry[e].reversedBy # None =>
           LET r == entry[e].reversedBy
           IN  /\ r \in posted /\ entry[r].kind = "reversal" /\ entry[r].source = e
               /\ entry[r].date >= entry[e].date
               /\ \A a \in Account : entry[r].lines[a] + entry[e].lines[a] = 0
    /\ \A r \in posted : entry[r].kind = "reversal" =>
           entry[r].source \in posted /\ entry[entry[r].source].reversedBy = r

\* However often its transaction is run, a document's event is in the ledger once.
DocumentPostedOnce ==
    \A e, f \in posted :
        entry[e].kind = "document" /\ entry[f].kind = "document"
        /\ entry[e].source = entry[f].source => e = f

\* The date of an entry lies in its own period and in no other, also in periods
\* that were created after the posting.
OnePeriodPerDate ==
    \A e \in posted : \A p \in Period : Covers(p, entry[e].date) <=> p = entry[e].period
=============================================================================
