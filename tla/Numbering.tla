------------------------------ MODULE Numbering ------------------------------
(***************************************************************************)
(* Gapless document numbers: NumberAllocator.allocate (modules/numbering)  *)
(* inside the transactions that use it.                                    *)
(*                                                                         *)
(* A transaction follows a plan: the numbering and ledger rows it locks,   *)
(* in order.  A series is a document_sequences row, keyed by (series,      *)
(* period); a period is the fiscal_periods row and an entry the            *)
(* journal_entries row that AccountingService locks FOR UPDATE.  The audit *)
(* lock is the advisory lock of the tenant's audit chain: the trigger on   *)
(* audit_events takes it when pending audit rows are flushed, and it is    *)
(* held until the transaction ends.  AccountingService.post flushes in     *)
(* _bootstrap, before it locks the period; an operation that has moved     *)
(* stock has audit rows pending by then, any other writes its audit rows   *)
(* at the commit.  Document, balance and product rows locked before the    *)
(* number are left to the modules of those documents.                      *)
(* A formatted number PREFIX-PERIOD-NNNNNN is the pair of its series and   *)
(* its value: prefixes are distinct and zero padding loses no digit.       *)
(***************************************************************************)
EXTENDS Naturals, Sequences

CONSTANTS
    Document,   \* (series, period) keys of the document series: INV, SALE, GRN, ...
    Journal,    \* (series, period) keys of the journal series, one per year
    Period,     \* fiscal periods
    Entry,      \* posted journal entries a user may reverse
    AuditLock,  \* pg_advisory_xact_lock of the tenant's audit chain
    Txn,        \* concurrent database sessions
    MaxNumber   \* bound: no transaction starts once a series has this many numbers

ASSUME RowAssumption ==
    /\ Document \cap Journal = {} /\ Document \cap Period = {} /\ Document \cap Entry = {}
    /\ Journal \cap Period = {} /\ Journal \cap Entry = {} /\ Period \cap Entry = {}
    /\ AuditLock \notin Document \cup Journal \cup Period \cup Entry
ASSUME MaxNumberAssumption == MaxNumber \in Nat

Series == Document \cup Journal
OtherRow == Period \cup Entry \cup {AuditLock}
Row == Series \cup OtherRow
NoRow == 0

\* The plans of the operations.  AccountingService.post locks the period of the
\* posting date, then takes a journal number.  A lock that is held already is
\* granted at once, so a later flush does not wait for the audit lock again.
Numbered(d) == <<d, AuditLock>>
\* Mistake: one operation follows the advice to number its document last.
NumberedLast(d, p, j) == <<p, j, d, AuditLock>>
NumberedAndPosted(d, p, j) == <<d, p, j, AuditLock>>
\* Stock has moved: post flushes the audit rows of the movements first.
MovedAndPosted(d, p, j) == <<d, AuditLock, p, j>>
MovedAndPostedTwice(d, p, j) == <<d, AuditLock, p, j, p, j>>
PostedByHand(p, j) == <<p, j, AuditLock>>
Reversed(e, p, j) == <<e, p, j, AuditLock>>
PeriodChanged(p) == <<p, AuditLock>>

Plan ==
    {Numbered(d) : d \in Document}
    \cup {NumberedAndPosted(d, p, j) : d \in Document, p \in Period, j \in Journal}
    \cup {MovedAndPosted(d, p, j) : d \in Document, p \in Period, j \in Journal}
    \cup {MovedAndPostedTwice(d, p, j) : d \in Document, p \in Period, j \in Journal}
    \cup {PostedByHand(p, j) : p \in Period, j \in Journal}
    \cup {Reversed(e, p, j) : e \in Entry, p \in Period, j \in Journal}
    \cup {PeriodChanged(p) : p \in Period}

VARIABLES
    nextValue,  \* committed document_sequences.next_value, NoRow if there is no row
    issued,     \* numbers of the committed documents, in commit order
    holders,    \* sessions that hold each row
    plan,       \* what each session still has to lock
    active,     \* sessions inside a transaction
    mine,       \* each session's uncommitted next_value of the series it holds
    taken       \* numbers each session has allocated and not committed

numbering == <<nextValue, issued, holders, plan, active, mine, taken>>

\* The next_value after INSERT ... ON CONFLICT DO UPDATE; RETURNING gives it less one.
Upserted(n) == IF n = NoRow THEN 2 ELSE n + 1

Begin(t, p) ==
    /\ t \notin active
    /\ \A s \in Series : Len(issued[s]) < MaxNumber
    /\ active' = active \cup {t}
    /\ plan' = [plan EXCEPT ![t] = p]
    /\ UNCHANGED <<nextValue, issued, holders, mine, taken>>

MayLock(t, r) ==
    /\ t \in active
    /\ plan[t] # <<>>
    /\ r = Head(plan[t])
    /\ holders[r] \subseteq {t}

\* allocate: the UPSERT waits for a session that inserted or updated the row,
\* then works on the latest committed version, or on its own.
Allocate(t, s) ==
    LET old == IF t \in holders[s] THEN mine[t][s] ELSE nextValue[s]
    IN  /\ MayLock(t, s)
        /\ holders' = [holders EXCEPT ![s] = @ \cup {t}]
        /\ mine' = [mine EXCEPT ![t][s] = Upserted(old)]
        /\ taken' = [taken EXCEPT ![t][s] = Append(@, Upserted(old) - 1)]
        /\ plan' = [plan EXCEPT ![t] = Tail(@)]
        /\ UNCHANGED <<nextValue, issued, active>>

\* SELECT ... FOR UPDATE of the fiscal period or of an entry being reversed, or
\* the audit trigger's pg_advisory_xact_lock.
LockRow(t, r) ==
    /\ MayLock(t, r)
    /\ holders' = [holders EXCEPT ![r] = @ \cup {t}]
    /\ plan' = [plan EXCEPT ![t] = Tail(@)]
    /\ UNCHANGED <<nextValue, issued, active, mine, taken>>

EndTransaction(t) ==
    /\ holders' = [r \in Row |-> holders[r] \ {t}]
    /\ active' = active \ {t}
    /\ plan' = [plan EXCEPT ![t] = <<>>]
    /\ mine' = [mine EXCEPT ![t] = [s \in Series |-> NoRow]]
    /\ taken' = [taken EXCEPT ![t] = [s \in Series |-> <<>>]]

\* Mistake: a counter outside the transaction, as a PostgreSQL SEQUENCE would be.
RollbackKeepsNumbers(t) ==
    /\ t \in active
    /\ nextValue' = [s \in Series |-> IF t \in holders[s] THEN mine[t][s] ELSE nextValue[s]]
    /\ EndTransaction(t)
    /\ UNCHANGED issued

\* Any error, crash or deadlock: the counter goes back with everything else.
Rollback(t) ==
    /\ t \in active
    /\ EndTransaction(t)
    /\ UNCHANGED <<nextValue, issued>>

CommitNumbers(t) ==
    /\ t \in active
    /\ plan[t] = <<>>
    /\ nextValue' = [s \in Series |-> IF t \in holders[s] THEN mine[t][s] ELSE nextValue[s]]
    /\ issued' = [s \in Series |-> issued[s] \o taken[t][s]]
    /\ EndTransaction(t)

NumberingInit ==
    /\ nextValue = [s \in Series |-> NoRow]
    /\ issued = [s \in Series |-> <<>>]
    /\ holders = [r \in Row |-> {}]
    /\ plan = [t \in Txn |-> <<>>]
    /\ active = {}
    /\ mine = [t \in Txn |-> [s \in Series |-> NoRow]]
    /\ taken = [t \in Txn |-> [s \in Series |-> <<>>]]

NumberingNext ==
    \E t \in Txn :
        \/ \E p \in Plan : Begin(t, p)
        \/ \E s \in Series : Allocate(t, s)
        \/ \E r \in OtherRow : LockRow(t, r)
        \/ Rollback(t)
        \/ CommitNumbers(t)

NumberingSpec == NumberingInit /\ [][NumberingNext]_numbering

-----------------------------------------------------------------------------
\* Every variable holds a value of its table's or its session's shape; numbers
\* start at 1, and an existing row never offers a number below 2.
NumberingTypeOK ==
    /\ nextValue \in [Series -> Nat \ {1}]
    /\ issued \in [Series -> Seq(Nat \ {0})]
    /\ holders \in [Row -> SUBSET Txn]
    /\ plan \in [Txn -> Seq(Row)]
    /\ active \subseteq Txn
    /\ mine \in [Txn -> [Series -> Nat \ {1}]]
    /\ taken \in [Txn -> [Series -> Seq(Nat \ {0})]]

Gapless == INSTANCE GaplessSeries WITH numbers <- issued

\* Whatever the sessions interleave and however many roll back, the committed
\* numbers of each series are 1, 2, 3, ... in commit order.
ImplementsGapless == Gapless!Spec

\* The session that holds a series has the next numbers of it, and nobody else
\* has any: an allocated number is final before it is committed.
TakenAreNext ==
    \A s \in Series, t \in Txn :
        IF t \in holders[s]
        THEN /\ holders[s] = {t}
             /\ mine[t][s] = Len(issued[s]) + Len(taken[t][s]) + 1
             /\ taken[t][s] # <<>>
             /\ \A i \in 1..Len(taken[t][s]) : taken[t][s][i] = Len(issued[s]) + i
        ELSE taken[t][s] = <<>>

\* t waits for a row that u holds.
Blocked(t, u) == t # u /\ t \in active /\ plan[t] # <<>> /\ u \in holders[Head(plan[t])]

\* Sessions each of which waits for another of them.
Circle(waiting) == waiting # {} /\ \A t \in waiting : \E u \in waiting : Blocked(t, u)

\* Document number or reversed entry, fiscal period, journal number: all plans
\* take these rows in that order and a second posting locks nothing new, so
\* sessions wait in a circle only through the audit lock, which the operations
\* that moved stock take before the period and all others after the journal
\* number.  (A fulfilment and an issued invoice can deadlock that way.)
CirclesNeedTheAuditLock ==
    \A waiting \in SUBSET Txn :
        Circle(waiting) => \E t \in waiting : Head(plan[t]) = AuditLock
=============================================================================
