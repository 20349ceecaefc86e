-------------------------- MODULE Accounting_proofs --------------------------
(***************************************************************************)
(* Proofs about Accounting, for any chart, periods, dates and sessions.    *)
(*                                                                         *)
(* A session that has locked its period still holds it, and the period     *)
(* admits its entry until the session ends; a reversal that has locked its *)
(* original holds it, and the original is not reversed yet.                *)
(***************************************************************************)
EXTENDS Reports, TLAPS

\* What is left of a plan.
Rest(kind) ==
    CASE kind = "document" -> {<<"period", "accounts">>, <<"accounts">>, <<>>}
      [] kind = "manual" -> {<<"accounts", "period">>, <<"period">>, <<>>}
      [] OTHER -> {<<"entry", "accounts", "period">>, <<"accounts", "period">>, <<"period">>, <<>>}

\* The rests of a plan that come before the lock of the period.
Before(kind) ==
    CASE kind = "document" -> {<<"period", "accounts">>}
      [] kind = "manual" -> {<<"accounts", "period">>, <<"period">>}
      [] OTHER -> {<<"entry", "accounts", "period">>, <<"accounts", "period">>, <<"period">>}

\* Rows are held by one session, which is at work.
OneHolder ==
    /\ \A x \in Period \cup Entry : \A t, u \in holder[x] : t = u
    /\ \A x \in Period \cup Entry : \A t \in holder[x] : req[t] # None

\* A session follows its plan and has a period exactly after it locked one.
OnPlan ==
    \A t \in Session :
        IF req[t] = None THEN into[t] = None
        ELSE todo[t] \in Rest(req[t].kind) /\ (into[t] = None <=> todo[t] \in Before(req[t].kind))

\* The period a session has locked is its own and admits its entry.
PeriodStaysGood ==
    \A t \in Session : into[t] # None =>
        t \in holder[into[t]] /\ Covers(into[t], req[t].date) /\ Admits(into[t], req[t])

\* A reversal's original exists, and stays as it was when it was locked.
OriginalStaysGood ==
    \A t \in Session : req[t] # None /\ req[t].kind = "reversal" =>
        /\ req[t].source \in posted
        /\ req[t].lines = Swapped(entry[req[t].source].lines)
        /\ todo[t] # <<"entry", "accounts", "period">> =>
               /\ t \in holder[req[t].source]
               /\ entry[req[t].source].reversedBy = None
               /\ req[t].date >= entry[req[t].source].date

\* Periods that exist have dates, and none in common.
PeriodsDisjoint ==
    /\ \A p \in Period : status[p] # "NONE" => span[p].first <= span[p].last
    /\ \A p, q \in Period :
           status[p] # "NONE" /\ status[q] # "NONE" /\ p # q => ~Overlap(span[p], span[q])

AccountingInv ==
    /\ TypeOK /\ OneHolder /\ OnPlan /\ PeriodStaysGood /\ OriginalStaysGood /\ PeriodsDisjoint
    /\ ReversalsCancel /\ DocumentPostedOnce /\ OnePeriodPerDate

-----------------------------------------------------------------------------
LEMMA RequestFields ==
    ASSUME NEW r \in Request
    PROVE  /\ r.kind \in {"document", "manual", "reversal"} /\ r.date \in Date
           /\ r.source \in Document \cup Entry \cup {None}
           /\ r.lines \in [Account -> Int] /\ r.adjust \in BOOLEAN
           /\ r.kind = "reversal" => r.source \in Entry
BY AccountAssumption DEF Request, PostRequest, ReverseRequest

LEMMA EntryFields ==
    ASSUME NEW r \in EntryRow
    PROVE  /\ r.kind \in {"document", "manual", "reversal"} /\ r.date \in Date
           /\ r.lines \in [Account -> Int] /\ r.period \in Period /\ r.reversedBy \in Entry \cup {None}
BY DEF EntryRow

LEMMA SwappedType == ASSUME NEW l \in [Account -> Int] PROVE Swapped(l) \in [Account -> Int]
BY DEF Swapped

LEMMA PlanTypes ==
    /\ <<"period", "accounts">> \in Seq(Step) /\ <<"accounts", "period">> \in Seq(Step)
    /\ <<"entry", "accounts", "period">> \in Seq(Step)
BY DEF Step

\* Plans are sequences of steps, and begin before the lock of the period.
LEMMA PlanFacts ==
    ASSUME NEW k \in {"document", "manual", "reversal"}
    PROVE  Plan(k) \in Seq(Step) /\ Plan(k) \in Rest(k) /\ Plan(k) \in Before(k)
<1>1. CASE k = "document"
  BY <1>1, PlanTypes DEF Plan, Rest, Before
<1>2. CASE k = "manual"
  BY <1>2, PlanTypes DEF Plan, Rest, Before
<1>3. CASE k = "reversal"
  BY <1>3, PlanTypes DEF Plan, Rest, Before
<1> QED BY <1>1, <1>2, <1>3

\* How plans get shorter.
LEMMA PlanTails ==
    /\ Head(<<"period", "accounts">>) = "period" /\ Tail(<<"period", "accounts">>) = <<"accounts">>
    /\ Head(<<"accounts">>) = "accounts" /\ Tail(<<"accounts">>) = <<>>
    /\ Head(<<"accounts", "period">>) = "accounts" /\ Tail(<<"accounts", "period">>) = <<"period">>
    /\ Head(<<"period">>) = "period" /\ Tail(<<"period">>) = <<>>
    /\ Head(<<"entry", "accounts", "period">>) = "entry"
    /\ Tail(<<"entry", "accounts", "period">>) = <<"accounts", "period">>
OBVIOUS

\* The rests of one plan are told apart by their lengths.
LEMMA PlanRests ==
    /\ <<"accounts">> # <<"period", "accounts">> /\ <<>> # <<"period", "accounts">>
    /\ <<"period">> # <<"accounts", "period">> /\ <<>> # <<"accounts", "period">>
    /\ <<>> # <<"period">> /\ <<>> # <<"entry", "accounts", "period">>
OBVIOUS

\* The steps that are not the lock of the period keep a session on its side of it.
LEMMA OtherStep ==
    ASSUME NEW k \in {"document", "manual", "reversal"}, NEW s \in Rest(k),
           s # <<>>, Head(s) # "period"
    PROVE  Tail(s) \in Rest(k) /\ (Tail(s) \in Before(k) <=> s \in Before(k))
<1>1. CASE k = "document"
  <2>1. s = <<"accounts">>
    BY <1>1, PlanTails DEF Rest
  <2> QED BY <1>1, <2>1, PlanTails, PlanRests DEF Rest, Before
<1>2. CASE k = "manual"
  <2>1. s = <<"accounts", "period">>
    BY <1>2, PlanTails DEF Rest
  <2> QED BY <1>2, <2>1, PlanTails DEF Rest, Before
<1>3. CASE k = "reversal"
  <2>1. s = <<"accounts", "period">> \/ s = <<"entry", "accounts", "period">>
    BY <1>3, PlanTails DEF Rest
  <2> QED BY <1>3, <2>1, PlanTails DEF Rest, Before
<1> QED BY <1>1, <1>2, <1>3

\* The lock of the period takes a session across.
LEMMA PeriodStep ==
    ASSUME NEW k \in {"document", "manual", "reversal"}, NEW s \in Rest(k),
           s # <<>>, Head(s) = "period"
    PROVE  Tail(s) \in Rest(k) /\ Tail(s) \notin Before(k) /\ s \in Before(k)
<1>1. CASE k = "document"
  <2>1. s = <<"period", "accounts">>
    BY <1>1, PlanTails DEF Rest
  <2> QED BY <1>1, <2>1, PlanTails, PlanRests DEF Rest, Before
<1>2. CASE k = "manual"
  <2>1. s = <<"period">>
    BY <1>2, PlanTails DEF Rest
  <2> QED BY <1>2, <2>1, PlanTails, PlanRests DEF Rest, Before
<1>3. CASE k = "reversal"
  <2>1. s = <<"period">>
    BY <1>3, PlanTails DEF Rest
  <2> QED BY <1>3, <2>1, PlanTails, PlanRests DEF Rest, Before
<1> QED BY <1>1, <1>2, <1>3

LEMMA EntryStep ==
    ASSUME NEW s \in Rest("reversal"), s # <<>>, Head(s) # "entry"
    PROVE  s # <<"entry", "accounts", "period">>
BY DEF Rest

LEMMA RestEnd == ASSUME NEW k \in {"document", "manual", "reversal"}
                 PROVE <<>> \notin Before(k)
BY DEF Before
LEMMA TailType == ASSUME NEW s \in Seq(Step), s # <<>> PROVE Tail(s) \in Seq(Step)
OBVIOUS

LEMMA InitAccounting == Init => AccountingInv
<1> SUFFICES ASSUME Init PROVE AccountingInv
  OBVIOUS
<1> USE DEF Init
<1>1. TypeOK
  <2>1. span \in [Period -> Span]
    BY DateAssumption DEF Span, Date
  <2>2. status \in [Period -> {"NONE", "OPEN", "CLOSED", "LOCKED"}]
    OBVIOUS
  <2>3. todo \in [Session -> Seq(Step)]
    OBVIOUS
  <2> QED BY <2>1, <2>2, <2>3, AccountAssumption DEF TypeOK
<1>2. OneHolder /\ OnPlan /\ PeriodStaysGood /\ OriginalStaysGood
  BY DEF OneHolder, OnPlan, PeriodStaysGood, OriginalStaysGood
<1>3. PeriodsDisjoint
  BY DateAssumption DEF PeriodsDisjoint
<1>4. ReversalsCancel /\ DocumentPostedOnce /\ OnePeriodPerDate
  BY DEF ReversalsCancel, DocumentPostedOnce, OnePeriodPerDate
<1> QED BY <1>1, <1>2, <1>3, <1>4 DEF AccountingInv

\* The ledger's invariants depend on nothing a session keeps for itself.
LEMMA LedgerUntouched ==
    ASSUME AccountingInv, UNCHANGED <<span, status, posted, entry>>
    PROVE  PeriodsDisjoint' /\ ReversalsCancel' /\ DocumentPostedOnce' /\ OnePeriodPerDate'
BY DEF AccountingInv, PeriodsDisjoint, ReversalsCancel, DocumentPostedOnce, OnePeriodPerDate, Covers

\* A session starts, with the whole plan of its request before it.
LEMMA BeginOK ==
    ASSUME AccountingInv, NEW t \in Session, NEW r \in Request, req[t] = None,
           req' = [req EXCEPT ![t] = r], todo' = [todo EXCEPT ![t] = Plan(r.kind)],
           UNCHANGED <<opened, postable, span, status, posted, entry, into, holder>>,
           r.kind = "reversal" => r.source \in posted /\ r.lines = Swapped(entry[r.source].lines)
    PROVE  AccountingInv'
<1> USE DEF AccountingInv
<1>k. r.kind \in {"document", "manual", "reversal"} /\ r # None
  BY RequestFields, NoneAssumption
<1>p. Plan(r.kind) \in Seq(Step) /\ Plan(r.kind) \in Rest(r.kind) /\ Plan(r.kind) \in Before(r.kind)
  BY <1>k, PlanFacts
<1>t. req'[t] = r /\ todo'[t] = Plan(r.kind)
  BY DEF TypeOK
<1>u. \A u \in Session : u # t => req'[u] = req[u] /\ todo'[u] = todo[u]
  BY DEF TypeOK
<1>n. into[t] = None
  BY DEF OnPlan
<1>h. \A x \in Period \cup Entry : t \notin holder[x]
  BY DEF OneHolder
<1>1. TypeOK'
  <2>1. req' \in [Session -> Request \cup {None}]
    BY DEF TypeOK
  <2>2. todo' \in [Session -> Seq(Step)]
    BY <1>p DEF TypeOK
  <2> QED BY <2>1, <2>2 DEF TypeOK
<1>2. OneHolder'
  <2>1. \A x \in Period \cup Entry : \A u \in holder[x] : u \in Session
    BY DEF TypeOK
  <2> QED BY <1>h, <1>u, <2>1 DEF OneHolder
<1>3. OnPlan'
  <2> SUFFICES ASSUME NEW u \in Session
               PROVE  IF req'[u] = None THEN into[u] = None
                      ELSE /\ todo'[u] \in Rest(req'[u].kind)
                           /\ into[u] = None <=> todo'[u] \in Before(req'[u].kind)
    BY DEF OnPlan
  <2>1. CASE u = t
    BY <2>1, <1>k, <1>p, <1>t, <1>n
  <2>2. CASE u # t
    BY <2>2, <1>u DEF OnPlan
  <2> QED BY <2>1, <2>2
<1>4. PeriodStaysGood'
  <2> SUFFICES ASSUME NEW u \in Session, into[u] # None
               PROVE  /\ u \in holder[into[u]]
                      /\ Covers(into[u], req'[u].date) /\ Admits(into[u], req'[u])
    BY DEF PeriodStaysGood, Covers, Admits
  <2>1. u # t
    BY <1>n
  <2> QED BY <2>1, <1>u DEF PeriodStaysGood
<1>5. OriginalStaysGood'
  <2> SUFFICES ASSUME NEW u \in Session, req'[u] # None, req'[u].kind = "reversal"
               PROVE  /\ req'[u].source \in posted
                      /\ req'[u].lines = Swapped(entry[req'[u].source].lines)
                      /\ todo'[u] # <<"entry", "accounts", "period">> =>
                             /\ u \in holder[req'[u].source]
                             /\ entry[req'[u].source].reversedBy = None
                             /\ req'[u].date >= entry[req'[u].source].date
    BY DEF OriginalStaysGood, Swapped
  <2>1. CASE u = t
    BY <2>1, <1>t DEF Plan
  <2>2. CASE u # t
    BY <2>2, <1>u DEF OriginalStaysGood
  <2> QED BY <2>1, <2>2
<1> QED BY <1>1, <1>2, <1>3, <1>4, <1>5, LedgerUntouched

LEMMA BeginPostOK ==
    ASSUME AccountingInv, NEW t \in Session, NEW r \in PostRequest, BeginPost(t, r)
    PROVE  AccountingInv'
<1>1. r \in Request /\ r.kind # "reversal"
  BY DEF Request, PostRequest
<1> QED BY <1>1, BeginOK DEF BeginPost, Active

LEMMA BeginReverseOK ==
    ASSUME AccountingInv, NEW t \in Session, NEW e \in Entry, NEW d \in Date,
           NEW privileged \in BOOLEAN, BeginReverse(t, e, d, privileged)
    PROVE  AccountingInv'
<1>e. e \in posted
  BY DEF BeginReverse
<1>1. entry[e].lines \in [Account -> Int]
  BY <1>e, EntryFields DEF AccountingInv, TypeOK
<1>p. PICK l : l = Swapped(entry[e].lines)
  OBVIOUS
<1>2. l \in [Account -> Int]
  BY <1>1, <1>p, SwappedType
<1>q. PICK r : r = [kind |-> "reversal", source |-> e, date |-> d, lines |-> l, adjust |-> privileged]
  OBVIOUS
<1>3. r \in Request /\ r.kind = "reversal" /\ r.source = e /\ r.lines = l
  BY <1>q, <1>2 DEF Request, ReverseRequest
<1>4. req' = [req EXCEPT ![t] = r] /\ todo' = [todo EXCEPT ![t] = Plan(r.kind)]
  BY <1>p, <1>q, <1>3 DEF BeginReverse
<1> QED BY <1>e, <1>p, <1>3, <1>4, BeginOK DEF BeginReverse, Active

\* A session takes a step of its plan that does not lock a period.
LEMMA StepsOnPlan ==
    ASSUME AccountingInv, NEW t \in Session, req[t] # None, todo[t] # <<>>,
           Head(todo[t]) # "period",
           todo' = [todo EXCEPT ![t] = Tail(@)], UNCHANGED <<req, into>>
    PROVE  /\ todo' \in [Session -> Seq(Step)] /\ OnPlan'
           /\ \A u \in Session : u # t => todo'[u] = todo[u]
<1> USE DEF AccountingInv
<1>k. req[t].kind \in {"document", "manual", "reversal"}
  BY RequestFields DEF TypeOK
<1>t. todo'[t] = Tail(todo[t]) /\ \A u \in Session : u # t => todo'[u] = todo[u]
  BY DEF TypeOK
<1>r. todo[t] \in Rest(req[t].kind) /\ (into[t] = None <=> todo[t] \in Before(req[t].kind))
  BY DEF OnPlan
<1>s. /\ Tail(todo[t]) \in Rest(req[t].kind)
      /\ Tail(todo[t]) \in Before(req[t].kind) <=> todo[t] \in Before(req[t].kind)
  BY <1>k, <1>r, OtherStep
<1>1. todo' \in [Session -> Seq(Step)]
  BY TailType DEF TypeOK
<1>2. OnPlan'
  <2> SUFFICES ASSUME NEW u \in Session
               PROVE  IF req[u] = None THEN into[u] = None
                      ELSE /\ todo'[u] \in Rest(req[u].kind)
                           /\ into[u] = None <=> todo'[u] \in Before(req[u].kind)
    BY DEF OnPlan
  <2>1. CASE u = t
    BY <2>1, <1>t, <1>r, <1>s
  <2>2. CASE u # t
    BY <2>2, <1>t DEF OnPlan
  <2> QED BY <2>1, <2>2
<1> QED BY <1>1, <1>2, <1>t

LEMMA LockEntryOK ==
    ASSUME AccountingInv, NEW t \in Session, LockEntry(t)
    PROVE  AccountingInv'
<1> USE DEF AccountingInv
<1>p. PICK e : e = req[t].source
  OBVIOUS
<1>s. /\ req[t] # None /\ todo[t] # <<>> /\ Head(todo[t]) = "entry"
      /\ holder[e] = {} /\ entry[e].reversedBy = None /\ req[t].date >= entry[e].date
      /\ holder' = [holder EXCEPT ![e] = {t}]
      /\ todo' = [todo EXCEPT ![t] = Tail(@)]
      /\ UNCHANGED <<opened, postable, span, status, posted, entry, req, into>>
  BY <1>p DEF LockEntry, Due, Active, Held
<1>k. req[t].kind = "reversal"
  <2>1. todo[t] \in Rest(req[t].kind) /\ req[t].kind \in {"document", "manual", "reversal"}
    BY <1>s, RequestFields DEF OnPlan, TypeOK
  <2> QED BY <1>s, <2>1, PlanTails DEF Rest
<1>e. e \in Entry /\ e \in posted
  BY <1>s, <1>k, <1>p DEF OriginalStaysGood, TypeOK
<1>h. holder'[e] = {t} /\ \A x \in Period \cup Entry : x # e => holder'[x] = holder[x]
  BY <1>s, <1>e DEF TypeOK
<1>0. /\ todo' \in [Session -> Seq(Step)] /\ OnPlan'
      /\ \A u \in Session : u # t => todo'[u] = todo[u]
  BY <1>s, StepsOnPlan
<1>1. TypeOK'
  <2>1. holder' \in [Period \cup Entry -> SUBSET Session]
    BY <1>s, <1>e DEF TypeOK
  <2> QED BY <1>s, <1>0, <2>1 DEF TypeOK
<1>2. OneHolder'
  BY <1>s, <1>h DEF OneHolder
<1>3. PeriodStaysGood'
  <2> SUFFICES ASSUME NEW u \in Session, into[u] # None
               PROVE  /\ u \in holder'[into[u]]
                      /\ Covers(into[u], req[u].date) /\ Admits(into[u], req[u])
    BY <1>s DEF PeriodStaysGood, Covers, Admits
  <2>1. into[u] \in Period /\ into[u] # e
    BY <1>e, RowAssumption DEF TypeOK
  <2> QED BY <2>1, <1>h DEF PeriodStaysGood
<1>4. OriginalStaysGood'
  <2> SUFFICES ASSUME NEW u \in Session, req[u] # None, req[u].kind = "reversal"
               PROVE  /\ req[u].source \in posted
                      /\ req[u].lines = Swapped(entry[req[u].source].lines)
                      /\ todo'[u] # <<"entry", "accounts", "period">> =>
                             /\ u \in holder'[req[u].source]
                             /\ entry[req[u].source].reversedBy = None
                             /\ req[u].date >= entry[req[u].source].date
    BY <1>s DEF OriginalStaysGood, Swapped
  <2>1. CASE u = t
    BY <2>1, <1>p, <1>s, <1>h DEF OriginalStaysGood
  <2>2. CASE u # t
    <3>1. req[u].source \in Entry
      BY RequestFields DEF TypeOK
    <3>2. u \in holder[req[u].source] => holder'[req[u].source] = holder[req[u].source]
      BY <3>1, <1>s, <1>h
    <3> QED BY <2>2, <3>2, <1>0 DEF OriginalStaysGood
  <2> QED BY <2>1, <2>2
<1> QED BY <1>s, <1>0, <1>1, <1>2, <1>3, <1>4, LedgerUntouched

LEMMA ReadAccountsOK ==
    ASSUME AccountingInv, NEW t \in Session, ReadAccounts(t)
    PROVE  AccountingInv'
<1> USE DEF AccountingInv
<1>s. /\ req[t] # None /\ todo[t] # <<>> /\ Head(todo[t]) = "accounts"
      /\ todo' = [todo EXCEPT ![t] = Tail(@)]
      /\ UNCHANGED <<opened, postable, span, status, posted, entry, req, into, holder>>
  BY DEF ReadAccounts, Due, Active
<1>0. /\ todo' \in [Session -> Seq(Step)] /\ OnPlan'
      /\ \A u \in Session : u # t => todo'[u] = todo[u]
  BY <1>s, StepsOnPlan
<1>1. TypeOK' /\ OneHolder'
  BY <1>s, <1>0 DEF TypeOK, OneHolder
<1>2. PeriodStaysGood'
  BY <1>s DEF PeriodStaysGood, Covers, Admits
<1>3. OriginalStaysGood'
  <2>1. req[t].kind = "reversal" => todo[t] # <<"entry", "accounts", "period">>
    BY <1>s, PlanTails
  <2> QED BY <1>s, <1>0, <2>1 DEF OriginalStaysGood, Swapped
<1> QED BY <1>s, <1>0, <1>1, <1>2, <1>3, LedgerUntouched

LEMMA LockPeriodOK ==
    ASSUME AccountingInv, NEW t \in Session, NEW p \in Period, LockPeriod(t, p)
    PROVE  AccountingInv'
<1> USE DEF AccountingInv
<1>s. /\ req[t] # None /\ todo[t] # <<>> /\ Head(todo[t]) = "period"
      /\ Covers(p, req[t].date) /\ Admits(p, req[t])
      /\ holder[p] = {} /\ holder' = [holder EXCEPT ![p] = {t}]
      /\ into' = [into EXCEPT ![t] = p]
      /\ todo' = [todo EXCEPT ![t] = Tail(@)]
      /\ UNCHANGED <<opened, postable, span, status, posted, entry, req>>
  BY DEF LockPeriod, HoldsPeriod, Due, Active, Held
<1>h. holder'[p] = {t} /\ \A x \in Period \cup Entry : x # p => holder'[x] = holder[x]
  BY <1>s DEF TypeOK
<1>t. /\ todo'[t] = Tail(todo[t]) /\ into'[t] = p
      /\ \A u \in Session : u # t => todo'[u] = todo[u] /\ into'[u] = into[u]
  BY <1>s DEF TypeOK
<1>k. req[t].kind \in {"document", "manual", "reversal"}
  BY <1>s, RequestFields DEF TypeOK
<1>r. Tail(todo[t]) \in Rest(req[t].kind) /\ Tail(todo[t]) \notin Before(req[t].kind)
  <2>1. todo[t] \in Rest(req[t].kind)
    BY <1>s DEF OnPlan
  <2> QED BY <1>s, <1>k, <2>1, PeriodStep
<1>1. TypeOK'
  <2>1. holder' \in [Period \cup Entry -> SUBSET Session]
    BY <1>s DEF TypeOK
  <2>2. todo' \in [Session -> Seq(Step)]
    BY <1>s, TailType DEF TypeOK
  <2>3. into' \in [Session -> Period \cup {None}]
    BY <1>s DEF TypeOK
  <2> QED BY <1>s, <2>1, <2>2, <2>3 DEF TypeOK
<1>2. OneHolder'
  BY <1>s, <1>h DEF OneHolder
<1>3. OnPlan'
  <2> SUFFICES ASSUME NEW u \in Session
               PROVE  IF req[u] = None THEN into'[u] = None
                      ELSE /\ todo'[u] \in Rest(req[u].kind)
                           /\ into'[u] = None <=> todo'[u] \in Before(req[u].kind)
    BY <1>s DEF OnPlan
  <2>1. CASE u = t
    BY <2>1, <1>s, <1>t, <1>r, NoneAssumption
  <2>2. CASE u # t
    BY <2>2, <1>t DEF OnPlan
  <2> QED BY <2>1, <2>2
<1>4. PeriodStaysGood'
  <2> SUFFICES ASSUME NEW u \in Session, into'[u] # None
               PROVE  /\ u \in holder'[into'[u]]
                      /\ Covers(into'[u], req[u].date) /\ Admits(into'[u], req[u])
    BY <1>s DEF PeriodStaysGood, Covers, Admits
  <2>1. CASE u = t
    BY <2>1, <1>s, <1>t, <1>h
  <2>2. CASE u # t
    <3>1. into'[u] = into[u] /\ into[u] \in Period /\ u \in holder[into[u]]
      BY <2>2, <1>t DEF PeriodStaysGood, TypeOK
    <3>2. holder'[into[u]] = holder[into[u]]
      BY <3>1, <1>s, <1>h
    <3> QED BY <3>1, <3>2 DEF PeriodStaysGood
  <2> QED BY <2>1, <2>2
<1>5. OriginalStaysGood'
  <2> SUFFICES ASSUME NEW u \in Session, req[u] # None, req[u].kind = "reversal"
               PROVE  /\ req[u].source \in posted
                      /\ req[u].lines = Swapped(entry[req[u].source].lines)
                      /\ todo'[u] # <<"entry", "accounts", "period">> =>
                             /\ u \in holder'[req[u].source]
                             /\ entry[req[u].source].reversedBy = None
                             /\ req[u].date >= entry[req[u].source].date
    BY <1>s DEF OriginalStaysGood, Swapped
  <2>1. req[u].source \in Entry /\ holder'[req[u].source] = holder[req[u].source]
    BY <1>h, RequestFields, RowAssumption DEF TypeOK
  <2>2. todo'[u] # <<"entry", "accounts", "period">> => todo[u] # <<"entry", "accounts", "period">>
    BY <1>s, <1>t, PlanTails
  <2> QED BY <2>1, <2>2 DEF OriginalStaysGood
<1> QED BY <1>s, <1>1, <1>2, <1>3, <1>4, <1>5, LedgerUntouched

\* A session that ends leaves nothing behind, and the others as they were.
LEMMA EndSessionFacts ==
    ASSUME AccountingInv, NEW t \in Session, EndSession(t)
    PROVE  /\ req'[t] = None /\ into'[t] = None
           /\ \A u \in Session : u # t =>
                  req'[u] = req[u] /\ todo'[u] = todo[u] /\ into'[u] = into[u]
           /\ \A x \in Period \cup Entry : holder'[x] = holder[x] \ {t}
           /\ req' \in [Session -> Request \cup {None}] /\ todo' \in [Session -> Seq(Step)]
           /\ into' \in [Session -> Period \cup {None}]
           /\ holder' \in [Period \cup Entry -> SUBSET Session]
           /\ OneHolder' /\ OnPlan'
<1> USE DEF AccountingInv
<1>s. /\ req' = [req EXCEPT ![t] = None] /\ todo' = [todo EXCEPT ![t] = <<>>]
      /\ into' = [into EXCEPT ![t] = None]
      /\ holder' = [x \in Period \cup Entry |-> holder[x] \ {t}]
  BY DEF EndSession
<1>1. req'[t] = None /\ into'[t] = None
  BY <1>s DEF TypeOK
<1>2. \A u \in Session : u # t => req'[u] = req[u] /\ todo'[u] = todo[u] /\ into'[u] = into[u]
  BY <1>s DEF TypeOK
<1>3. \A x \in Period \cup Entry : holder'[x] = holder[x] \ {t}
  BY <1>s
<1>4. req' \in [Session -> Request \cup {None}] /\ into' \in [Session -> Period \cup {None}]
  BY <1>s DEF TypeOK
<1>5. todo' \in [Session -> Seq(Step)]
  <2>1. <<>> \in Seq(Step)
    OBVIOUS
  <2> QED BY <1>s, <2>1 DEF TypeOK
<1>6. holder' \in [Period \cup Entry -> SUBSET Session]
  BY <1>s DEF TypeOK
<1>7. OneHolder'
  <2>1. \A x \in Period \cup Entry : \A u \in holder'[x] : u \in Session /\ u # t /\ u \in holder[x]
    BY <1>3, <1>6
  <2> QED BY <1>2, <2>1 DEF OneHolder
<1>8. OnPlan'
  <2> SUFFICES ASSUME NEW u \in Session
               PROVE  IF req'[u] = None THEN into'[u] = None
                      ELSE /\ todo'[u] \in Rest(req'[u].kind)
                           /\ into'[u] = None <=> todo'[u] \in Before(req'[u].kind)
    BY DEF OnPlan
  <2>1. CASE u = t
    BY <2>1, <1>1
  <2>2. CASE u # t
    BY <2>2, <1>2 DEF OnPlan
  <2> QED BY <2>1, <2>2
<1> QED BY <1>1, <1>2, <1>3, <1>4, <1>5, <1>6, <1>7, <1>8

\* When a session ends the others keep the periods they have locked.
LEMMA EndKeepsPeriods ==
    ASSUME AccountingInv, NEW t \in Session, EndSession(t), UNCHANGED <<span, status>>
    PROVE  PeriodStaysGood'
<1> USE DEF AccountingInv
<1> SUFFICES ASSUME NEW u \in Session, into'[u] # None
             PROVE  /\ u \in holder'[into'[u]]
                    /\ Covers(into'[u], req'[u].date) /\ Admits(into'[u], req'[u])
  BY DEF PeriodStaysGood, Covers, Admits
<1>1. u # t /\ into'[u] = into[u] /\ req'[u] = req[u]
  BY EndSessionFacts
<1>2. into[u] \in Period /\ u \in holder[into[u]]
  BY <1>1 DEF TypeOK, PeriodStaysGood
<1>3. u \in holder'[into[u]]
  BY <1>1, <1>2, EndSessionFacts
<1> QED BY <1>1, <1>3 DEF PeriodStaysGood

LEMMA RollbackOK ==
    ASSUME AccountingInv, NEW t \in Session, Rollback(t)
    PROVE  AccountingInv'
<1> USE DEF AccountingInv
<1>s. EndSession(t) /\ UNCHANGED <<opened, postable, span, status, posted, entry>>
  BY DEF Rollback
<1>1. TypeOK' /\ OneHolder' /\ OnPlan'
  BY <1>s, EndSessionFacts DEF TypeOK
<1>2. PeriodStaysGood'
  BY <1>s, EndKeepsPeriods
<1>3. OriginalStaysGood'
  <2> SUFFICES ASSUME NEW u \in Session, req'[u] # None, req'[u].kind = "reversal"
               PROVE  /\ req'[u].source \in posted
                      /\ req'[u].lines = Swapped(entry[req'[u].source].lines)
                      /\ todo'[u] # <<"entry", "accounts", "period">> =>
                             /\ u \in holder'[req'[u].source]
                             /\ entry[req'[u].source].reversedBy = None
                             /\ req'[u].date >= entry[req'[u].source].date
    BY <1>s DEF OriginalStaysGood, Swapped
  <2>1. u # t /\ req'[u] = req[u] /\ todo'[u] = todo[u]
    BY <1>s, EndSessionFacts
  <2>2. req[u].source \in Entry
    BY <2>1, RequestFields DEF TypeOK
  <2>3. holder'[req[u].source] = holder[req[u].source] \ {t}
    BY <1>s, <2>2, EndSessionFacts
  <2> QED BY <2>1, <2>3 DEF OriginalStaysGood
<1> QED BY <1>s, <1>1, <1>2, <1>3, LedgerUntouched

LEMMA CreateAccountOK ==
    ASSUME AccountingInv, NEW a \in Account, NEW parents, NEW leaf \in BOOLEAN,
           CreateAccount(a, parents, leaf)
    PROVE  AccountingInv'
<1> USE DEF AccountingInv
<1>s. /\ opened' = opened \cup {a}
      /\ postable' = (postable \ parents) \cup (IF leaf THEN {a} ELSE {})
      /\ UNCHANGED <<span, status, posted, entry, req, todo, into, holder>>
  BY DEF CreateAccount
<1>1. TypeOK'
  BY <1>s DEF TypeOK
<1>2. OneHolder' /\ OnPlan' /\ PeriodStaysGood' /\ OriginalStaysGood'
  BY <1>s DEF OneHolder, OnPlan, PeriodStaysGood, OriginalStaysGood, Covers, Admits, Swapped
<1> QED BY <1>s, <1>1, <1>2, LedgerUntouched

\* A change of status waits for the sessions that have locked the period.
LEMMA ChangePeriodStatusOK ==
    ASSUME AccountingInv, NEW p \in Period, ChangePeriodStatus(p)
    PROVE  AccountingInv'
<1> USE DEF AccountingInv
<1>s. /\ status[p] # "NONE" /\ holder[p] = {}
      /\ status' = [status EXCEPT ![p] = NextStatus(@)]
      /\ UNCHANGED <<opened, postable, span, posted, entry, req, todo, into, holder>>
  BY DEF ChangePeriodStatus, Held
<1>t. /\ status' \in [Period -> {"NONE", "OPEN", "CLOSED", "LOCKED"}]
      /\ status'[p] # "NONE" /\ \A q \in Period : q # p => status'[q] = status[q]
  BY <1>s DEF TypeOK, NextStatus
<1>c. \A q \in Period : status'[q] = "NONE" <=> status[q] = "NONE"
  BY <1>s, <1>t
<1>1. TypeOK' /\ OneHolder' /\ OnPlan'
  BY <1>s, <1>t DEF TypeOK, OneHolder, OnPlan
<1>2. PeriodStaysGood'
  <2> SUFFICES ASSUME NEW u \in Session, into[u] # None
               PROVE  (u \in holder[into[u]] /\ Covers(into[u], req[u].date)
                       /\ Admits(into[u], req[u]))'
    BY <1>s DEF PeriodStaysGood
  <2>1. into[u] \in Period /\ u \in holder[into[u]]
    BY DEF TypeOK, PeriodStaysGood
  <2>2. status'[into[u]] = status[into[u]]
    BY <1>s, <1>t, <2>1
  <2> QED BY <1>s, <2>1, <2>2 DEF PeriodStaysGood, Covers, Admits
<1>3. OriginalStaysGood'
  BY <1>s DEF OriginalStaysGood, Swapped
<1>4. PeriodsDisjoint' /\ ReversalsCancel' /\ DocumentPostedOnce'
  BY <1>s, <1>c DEF PeriodsDisjoint, Overlap, ReversalsCancel, DocumentPostedOnce
<1>5. OnePeriodPerDate'
  BY <1>s, <1>c DEF OnePeriodPerDate, Covers
<1> QED BY <1>1, <1>2, <1>3, <1>4, <1>5

\* The new period shares no date with the ones there are, nor with their entries.
LEMMA CreatePeriodOK ==
    ASSUME AccountingInv, NEW p \in Period, NEW s \in Span, CreatePeriod(p, s)
    PROVE  AccountingInv'
<1> USE DEF AccountingInv
<1>s. /\ status[p] = "NONE" /\ s.first <= s.last
      /\ \A o \in Period : status[o] # "NONE" => ~Overlap(span[o], s)
      /\ status' = [status EXCEPT ![p] = "OPEN"]
      /\ span' = [span EXCEPT ![p] = s]
      /\ UNCHANGED <<opened, postable, posted, entry, req, todo, into, holder>>
  BY DEF CreatePeriod
<1>t. /\ status'[p] = "OPEN" /\ span'[p] = s
      /\ \A q \in Period : q # p => status'[q] = status[q] /\ span'[q] = span[q]
  BY <1>s DEF TypeOK
<1>n. \A q \in Period : span[q].first \in Int /\ span[q].last \in Int
  BY DEF TypeOK, Span, Date
<1>m. s.first \in Int /\ s.last \in Int
  BY DEF Span, Date
<1>1. TypeOK' /\ OneHolder' /\ OnPlan'
  BY <1>s DEF TypeOK, OneHolder, OnPlan
<1>2. PeriodStaysGood'
  <2> SUFFICES ASSUME NEW u \in Session, into[u] # None
               PROVE  (u \in holder[into[u]] /\ Covers(into[u], req[u].date)
                       /\ Admits(into[u], req[u]))'
    BY <1>s DEF PeriodStaysGood
  <2>1. into[u] \in Period /\ into[u] # p
    BY <1>s DEF TypeOK, PeriodStaysGood, Covers
  <2> QED BY <1>s, <1>t, <2>1 DEF PeriodStaysGood, Covers, Admits
<1>3. OriginalStaysGood' /\ ReversalsCancel' /\ DocumentPostedOnce'
  BY <1>s DEF OriginalStaysGood, Swapped, ReversalsCancel, DocumentPostedOnce
<1>4. PeriodsDisjoint'
  <2>1. \A q \in Period : status'[q] # "NONE" => span'[q].first <= span'[q].last
    BY <1>s, <1>t DEF PeriodsDisjoint
  <2>2. ASSUME NEW q \in Period, NEW o \in Period, status'[q] # "NONE", status'[o] # "NONE", q # o
        PROVE  ~Overlap(span'[q], span'[o])
    <3>1. CASE o = p
      BY <1>s, <1>t, <2>2, <3>1
    <3>2. CASE q = p
      <4>1. ~Overlap(span[o], s) /\ span'[o] = span[o]
        BY <1>s, <1>t, <2>2, <3>2
      <4> QED BY <4>1, <3>2, <1>t, <1>n, <1>m DEF Overlap
    <3>3. CASE q # p /\ o # p
      BY <1>t, <2>2, <3>3 DEF PeriodsDisjoint
    <3> QED BY <3>1, <3>2, <3>3
  <2> QED BY <2>1, <2>2 DEF PeriodsDisjoint, Overlap
<1>5. OnePeriodPerDate'
  <2> SUFFICES ASSUME NEW e \in posted, NEW q \in Period
               PROVE  Covers(q, entry[e].date)' <=> q = entry[e].period
    BY <1>s DEF OnePeriodPerDate
  <2>1. entry[e].date \in Int /\ entry[e].period \in Period
    BY EntryFields DEF TypeOK, Date
  <2>2. Covers(entry[e].period, entry[e].date)
    BY <2>1 DEF OnePeriodPerDate
  <2>3. CASE q = p
    <3>1. entry[e].period # p /\ ~Overlap(span[entry[e].period], s)
      BY <1>s, <2>1, <2>2 DEF Covers
    <3>2. ~Covers(p, entry[e].date)'
      BY <1>s, <1>t, <1>n, <1>m, <2>1, <2>2, <3>1 DEF Covers, Overlap
    <3> QED BY <2>3, <3>1, <3>2
  <2>4. CASE q # p
    BY <1>s, <1>t, <2>4 DEF OnePeriodPerDate, Covers
  <2> QED BY <2>3, <2>4
<1> QED BY <1>1, <1>2, <1>3, <1>4, <1>5

\* What Post knows of its period and its original when it commits.
LEMMA ReadyToPost ==
    ASSUME AccountingInv, NEW t \in Session, req[t] # None, todo[t] = <<>>
    PROVE  /\ into[t] \in Period /\ t \in holder[into[t]]
           /\ Covers(into[t], req[t].date) /\ Admits(into[t], req[t])
           /\ req[t].kind = "reversal" =>
                  /\ req[t].source \in posted /\ t \in holder[req[t].source]
                  /\ entry[req[t].source].reversedBy = None
                  /\ req[t].date >= entry[req[t].source].date
                  /\ req[t].lines = Swapped(entry[req[t].source].lines)
<1> USE DEF AccountingInv
<1>1. req[t].kind \in {"document", "manual", "reversal"}
  BY RequestFields DEF TypeOK
<1>2. into[t] # None
  BY <1>1, RestEnd DEF OnPlan
<1>3. into[t] \in Period
  BY <1>2 DEF TypeOK
<1>4. t \in holder[into[t]] /\ Covers(into[t], req[t].date) /\ Admits(into[t], req[t])
  BY <1>2 DEF PeriodStaysGood
<1>5. todo[t] # <<"entry", "accounts", "period">>
  BY PlanRests
<1> QED BY <1>3, <1>4, <1>5 DEF OriginalStaysGood

\* The committed rows after Post: the new one, its original with the link, the others.
LEMMA PostedRows ==
    ASSUME AccountingInv, NEW t \in Session, NEW f \in Entry, Post(t, f)
    PROVE  /\ f \notin posted /\ posted' = posted \cup {f}
           /\ entry'[f] = NewEntry(t)
           /\ \A g \in posted : (req[t].kind = "reversal" /\ g = req[t].source)
                  => entry'[g] = [entry[g] EXCEPT !.reversedBy = f]
           /\ \A g \in posted : ~(req[t].kind = "reversal" /\ g = req[t].source)
                  => entry'[g] = entry[g]
           /\ \A g \in posted : /\ entry'[g].kind = entry[g].kind /\ entry'[g].source = entry[g].source
                                /\ entry'[g].date = entry[g].date /\ entry'[g].lines = entry[g].lines
                                /\ entry'[g].period = entry[g].period
           /\ NewEntry(t) \in EntryRow
           /\ entry' \in [Entry -> EntryRow \cup {None}] /\ \A g \in posted' : entry'[g] # None
<1> USE DEF AccountingInv
<1>s. /\ req[t] # None /\ todo[t] = <<>> /\ f \notin posted
      /\ posted' = posted \cup {f} /\ entry' = Stamped(NewEntry(t), req[t], f)
  BY DEF Post, Active
<1>p. posted \subseteq Entry /\ \A g \in posted : entry[g] \in EntryRow
  BY DEF TypeOK
<1>1. NewEntry(t) \in EntryRow
  <2>1. req[t] \in Request /\ into[t] \in Period
    BY <1>s, ReadyToPost DEF TypeOK
  <2> QED BY <2>1, RequestFields DEF NewEntry, EntryRow
<1>2. entry'[f] = NewEntry(t)
  BY <1>s DEF Stamped
<1>3. \A g \in posted : (req[t].kind = "reversal" /\ g = req[t].source)
          => entry'[g] = [entry[g] EXCEPT !.reversedBy = f]
  BY <1>s, <1>p DEF Stamped
<1>4. \A g \in posted : ~(req[t].kind = "reversal" /\ g = req[t].source) => entry'[g] = entry[g]
  BY <1>s, <1>p DEF Stamped
<1>5. \A g \in posted : [entry[g] EXCEPT !.reversedBy = f] \in EntryRow
  BY <1>p DEF EntryRow
<1>6. \A g \in posted : /\ entry'[g].kind = entry[g].kind /\ entry'[g].source = entry[g].source
                        /\ entry'[g].date = entry[g].date /\ entry'[g].lines = entry[g].lines
                        /\ entry'[g].period = entry[g].period
  <2> SUFFICES ASSUME NEW g \in posted
               PROVE  /\ entry'[g].kind = entry[g].kind /\ entry'[g].source = entry[g].source
                      /\ entry'[g].date = entry[g].date /\ entry'[g].lines = entry[g].lines
                      /\ entry'[g].period = entry[g].period
    OBVIOUS
  <2>1. CASE req[t].kind = "reversal" /\ g = req[t].source
    BY <2>1, <1>3, <1>p DEF EntryRow
  <2>2. CASE ~(req[t].kind = "reversal" /\ g = req[t].source)
    BY <2>2, <1>4
  <2> QED BY <2>1, <2>2
<1>7. \A g \in posted' : entry'[g] \in EntryRow
  BY <1>s, <1>p, <1>1, <1>2, <1>3, <1>4, <1>5
<1>8. entry' \in [Entry -> EntryRow \cup {None}]
  <2>1. \A g \in Entry : entry'[g] \in EntryRow \cup {None}
    <3> SUFFICES ASSUME NEW g \in Entry PROVE entry'[g] \in EntryRow \cup {None}
      OBVIOUS
    <3>1. CASE g \in posted'
      BY <3>1, <1>7
    <3>2. CASE g \notin posted'
      <4>1. g # f /\ g \notin posted
        BY <3>2, <1>s
      <4>2. ~(req[t].kind = "reversal" /\ g = req[t].source)
        BY <4>1, <1>s, ReadyToPost
      <4>3. entry'[g] = entry[g]
        BY <4>1, <4>2, <1>s DEF Stamped
      <4> QED BY <4>3 DEF TypeOK
    <3> QED BY <3>1, <3>2
  <2>2. entry' = [g \in Entry |-> entry'[g]]
    BY <1>s DEF Stamped
  <2> QED BY <2>1, <2>2
<1>9. \A g \in posted' : entry'[g] # None
  BY <1>7, NoneAssumption
<1> QED BY <1>s, <1>1, <1>2, <1>3, <1>4, <1>6, <1>8, <1>9

LEMMA PostOK ==
    ASSUME AccountingInv, NEW t \in Session, NEW f \in Entry, Post(t, f)
    PROVE  AccountingInv'
<1> USE DEF AccountingInv
<1>s. /\ req[t] # None /\ todo[t] = <<>> /\ NewSource(req[t])
      /\ EndSession(t) /\ UNCHANGED <<opened, postable, span, status>>
  BY DEF Post, Active
<1>f. f \notin posted /\ posted' = posted \cup {f} /\ entry'[f] = NewEntry(t)
  BY PostedRows
<1>g. \A g \in posted : /\ entry'[g].kind = entry[g].kind /\ entry'[g].source = entry[g].source
                        /\ entry'[g].date = entry[g].date /\ entry'[g].lines = entry[g].lines
                        /\ entry'[g].period = entry[g].period
  BY PostedRows
<1>o. \A g \in posted : ~(req[t].kind = "reversal" /\ g = req[t].source) => entry'[g] = entry[g]
  BY PostedRows
<1>r. \A g \in posted : (req[t].kind = "reversal" /\ g = req[t].source) => entry'[g].reversedBy = f
  <2> SUFFICES ASSUME NEW g \in posted, req[t].kind = "reversal", g = req[t].source
               PROVE  entry'[g].reversedBy = f
    OBVIOUS
  <2>1. entry[g] \in EntryRow /\ entry'[g] = [entry[g] EXCEPT !.reversedBy = f]
    BY PostedRows DEF TypeOK
  <2> QED BY <2>1 DEF EntryRow
<1>n. /\ entry'[f].kind = req[t].kind /\ entry'[f].source = req[t].source
      /\ entry'[f].date = req[t].date /\ entry'[f].lines = req[t].lines
      /\ entry'[f].period = into[t] /\ entry'[f].reversedBy = None
  BY <1>f DEF NewEntry
<1>i. /\ into[t] \in Period /\ Covers(into[t], req[t].date)
      /\ req[t].kind = "reversal" =>
             /\ req[t].source \in posted /\ t \in holder[req[t].source]
             /\ entry[req[t].source].reversedBy = None
             /\ req[t].date >= entry[req[t].source].date
             /\ req[t].lines = Swapped(entry[req[t].source].lines)
  BY <1>s, ReadyToPost
<1>1. TypeOK'
  BY <1>s, <1>f, PostedRows, EndSessionFacts DEF TypeOK
<1>2. OneHolder' /\ OnPlan' /\ PeriodStaysGood'
  BY <1>s, EndSessionFacts, EndKeepsPeriods
<1>3. OriginalStaysGood'
  <2> SUFFICES ASSUME NEW u \in Session, req'[u] # None, req'[u].kind = "reversal"
               PROVE  /\ req'[u].source \in posted'
                      /\ req'[u].lines = Swapped(entry'[req'[u].source].lines)
                      /\ todo'[u] # <<"entry", "accounts", "period">> =>
                             /\ u \in holder'[req'[u].source]
                             /\ entry'[req'[u].source].reversedBy = None
                             /\ req'[u].date >= entry'[req'[u].source].date
    BY DEF OriginalStaysGood, Swapped
  <2>1. u # t /\ req'[u] = req[u] /\ todo'[u] = todo[u]
    BY <1>s, EndSessionFacts
  <2>2. req[u].source \in posted /\ req[u].lines = Swapped(entry[req[u].source].lines)
    BY <2>1 DEF OriginalStaysGood
  <2>3. req[u].source \in Entry
    BY <2>2 DEF TypeOK
  <2>4. ASSUME todo[u] # <<"entry", "accounts", "period">>
        PROVE  /\ u \in holder'[req[u].source] /\ entry'[req[u].source].reversedBy = None
               /\ req[u].date >= entry'[req[u].source].date
    <3>1. /\ u \in holder[req[u].source] /\ entry[req[u].source].reversedBy = None
          /\ req[u].date >= entry[req[u].source].date
      BY <2>1, <2>4 DEF OriginalStaysGood
    <3>2. ~(req[t].kind = "reversal" /\ req[u].source = req[t].source)
      BY <2>1, <2>3, <3>1, <1>i DEF OneHolder
    <3>3. entry'[req[u].source] = entry[req[u].source]
      BY <2>2, <3>2, <1>o
    <3>4. u \in holder'[req[u].source]
      BY <1>s, <2>1, <2>3, <3>1, EndSessionFacts
    <3> QED BY <3>1, <3>3, <3>4
  <2>5. entry'[req[u].source].lines = entry[req[u].source].lines
    BY <2>2, <1>g
  <2> QED BY <1>f, <2>1, <2>2, <2>4, <2>5
<1>4. PeriodsDisjoint'
  BY <1>s DEF PeriodsDisjoint, Overlap
<1>5. DocumentPostedOnce'
  <2>1. req[t].kind = "document" =>
          \A g \in posted : ~(entry[g].kind = "document" /\ entry[g].source = req[t].source)
    BY <1>s DEF NewSource
  <2> QED BY <1>f, <1>g, <1>n, <2>1 DEF DocumentPostedOnce
<1>6. OnePeriodPerDate'
  <2> SUFFICES ASSUME NEW g \in posted', NEW q \in Period
               PROVE  Covers(q, entry'[g].date) <=> q = entry'[g].period
    BY <1>s DEF OnePeriodPerDate, Covers
  <2>1. CASE g = f
    <3>1. Covers(q, req[t].date) => q = into[t]
      <4>1. req[t].date \in Int /\ \A x \in Period : span[x].first \in Int /\ span[x].last \in Int
        BY <1>s, RequestFields DEF TypeOK, Span, Date
      <4> QED BY <4>1, <1>i DEF Covers, PeriodsDisjoint, Overlap
    <3> QED BY <2>1, <3>1, <1>n, <1>i
  <2>2. CASE g # f
    BY <2>2, <1>f, <1>g DEF OnePeriodPerDate
  <2> QED BY <2>1, <2>2
<1>7. ReversalsCancel'
  <2>1. ASSUME NEW e \in posted', entry'[e].reversedBy # None
        PROVE  LET r == entry'[e].reversedBy
               IN  /\ r \in posted' /\ entry'[r].kind = "reversal" /\ entry'[r].source = e
                   /\ entry'[r].date >= entry'[e].date
                   /\ \A a \in Account : entry'[r].lines[a] + entry'[e].lines[a] = 0
    <3>1. e \in posted
      BY <2>1, <1>f, <1>n
    <3>2. CASE req[t].kind = "reversal" /\ e = req[t].source
      <4>1. entry'[e].reversedBy = f /\ entry'[f].kind = "reversal" /\ entry'[f].source = e
        BY <3>1, <3>2, <1>r, <1>n
      <4>2. entry'[f].date >= entry'[e].date
        BY <3>1, <3>2, <1>n, <1>i, <1>g
      <4>3. entry[e].lines \in [Account -> Int]
        BY <3>1, EntryFields DEF TypeOK
      <4>4. \A a \in Account : Swapped(entry[e].lines)[a] + entry[e].lines[a] = 0
        BY <4>3 DEF Swapped
      <4>5. entry'[f].lines = Swapped(entry[e].lines) /\ entry'[e].lines = entry[e].lines
        BY <3>1, <3>2, <1>n, <1>i, <1>g
      <4> QED BY <4>1, <4>2, <4>4, <4>5, <1>f
    <3>3. CASE ~(req[t].kind = "reversal" /\ e = req[t].source)
      <4>p. PICK r : r = entry[e].reversedBy
        OBVIOUS
      <4>1. entry'[e] = entry[e]
        BY <3>1, <3>3, <1>o
      <4>2. /\ r \in posted /\ entry[r].kind = "reversal" /\ entry[r].source = e
            /\ entry[r].date >= entry[e].date
            /\ \A a \in Account : entry[r].lines[a] + entry[e].lines[a] = 0
        BY <2>1, <3>1, <4>1, <4>p DEF ReversalsCancel
      <4>3. entry'[e].reversedBy = r
        BY <4>1, <4>p
      <4> QED BY <4>1, <4>2, <4>3, <1>f, <1>g
    <3> QED BY <3>2, <3>3
  <2>2. ASSUME NEW r \in posted', entry'[r].kind = "reversal"
        PROVE  entry'[r].source \in posted' /\ entry'[entry'[r].source].reversedBy = r
    <3>1. CASE r = f
      BY <2>2, <3>1, <1>n, <1>i, <1>r, <1>f
    <3>2. CASE r # f
      <4>1. r \in posted /\ entry'[r].source = entry[r].source /\ entry[r].kind = "reversal"
        BY <2>2, <3>2, <1>f, <1>g
      <4>2. entry[r].source \in posted /\ entry[entry[r].source].reversedBy = r
        BY <4>1 DEF ReversalsCancel
      <4>3. r # None
        BY <4>1, NoneAssumption DEF TypeOK
      <4>4. ~(req[t].kind = "reversal" /\ entry[r].source = req[t].source)
        BY <4>2, <4>3, <1>i
      <4>5. entry'[entry[r].source] = entry[entry[r].source]
        BY <4>2, <4>4, <1>o
      <4> QED BY <4>1, <4>2, <4>5, <1>f
    <3> QED BY <3>1, <3>2
  <2> QED BY <2>1, <2>2 DEF ReversalsCancel
<1> QED BY <1>1, <1>2, <1>3, <1>4, <1>5, <1>6, <1>7

LEMMA StutterAccounting == AccountingInv /\ UNCHANGED vars => AccountingInv'
<1> SUFFICES ASSUME AccountingInv, UNCHANGED vars PROVE AccountingInv'
  OBVIOUS
<1> USE DEF AccountingInv, vars
<1>1. TypeOK' /\ OneHolder' /\ OnPlan'
  BY DEF TypeOK, OneHolder, OnPlan
<1>2. PeriodStaysGood' /\ OriginalStaysGood'
  BY DEF PeriodStaysGood, OriginalStaysGood, Covers, Admits, Swapped
<1> QED BY <1>1, <1>2, LedgerUntouched

\* Every step of any session, period and account keeps the books' invariant.
LEMMA AccountingStep ==
    ASSUME AccountingInv, [Next]_vars
    PROVE  AccountingInv'
<1>0. CASE UNCHANGED vars
  BY <1>0, StutterAccounting
<1>1. CASE \E t \in Session, r \in PostRequest : BeginPost(t, r)
  BY <1>1, BeginPostOK
<1>2. CASE \E t \in Session, e \in Entry, d \in Date, privileged \in BOOLEAN :
               BeginReverse(t, e, d, privileged)
  BY <1>2, BeginReverseOK
<1>3. CASE \E t \in Session : LockEntry(t)
  BY <1>3, LockEntryOK
<1>4. CASE \E t \in Session : ReadAccounts(t)
  BY <1>4, ReadAccountsOK
<1>5. CASE \E t \in Session, p \in Period : LockPeriod(t, p)
  BY <1>5, LockPeriodOK
<1>6. CASE \E t \in Session, f \in Entry : Post(t, f)
  BY <1>6, PostOK
<1>7. CASE \E t \in Session : Rollback(t)
  BY <1>7, RollbackOK
<1>8. CASE \E p \in Period : ChangePeriodStatus(p)
  BY <1>8, ChangePeriodStatusOK
<1>9. CASE \E p \in Period, s \in Span : CreatePeriod(p, s)
  BY <1>9, CreatePeriodOK
<1>10. CASE \E a \in Account, parents \in Parents, leaf \in BOOLEAN : CreateAccount(a, parents, leaf)
  BY <1>10, CreateAccountOK
<1> QED BY <1>0, <1>1, <1>2, <1>3, <1>4, <1>5, <1>6, <1>7, <1>8, <1>9, <1>10
        DEF Next, SessionStep

\* The books' invariant holds in every reachable state.
THEOREM AccountingInvariant == Spec => []AccountingInv
BY InitAccounting, AccountingStep, PTL DEF Spec

\* The tables and the sessions keep their shape.
THEOREM AccountingTypes == Spec => []TypeOK
<1>1. AccountingInv => TypeOK
  BY DEF AccountingInv
<1> QED BY <1>1, AccountingInvariant, PTL

\* reverse locks the original first: an entry is reversed at most once, by an
\* entry that cancels it.
THEOREM ReversedOnceAndCancelled == Spec => []ReversalsCancel
<1>1. AccountingInv => ReversalsCancel
  BY DEF AccountingInv
<1> QED BY <1>1, AccountingInvariant, PTL

\* The unique key on source and event makes a document's posting happen once.
THEOREM NoDocumentPostedTwice == Spec => []DocumentPostedOnce
<1>1. AccountingInv => DocumentPostedOnce
  BY DEF AccountingInv
<1> QED BY <1>1, AccountingInvariant, PTL

\* The exclusion constraint leaves every entry one period, for ever.
THEOREM EveryEntryHasItsPeriod == Spec => []OnePeriodPerDate
<1>1. AccountingInv => OnePeriodPerDate
  BY DEF AccountingInv
<1> QED BY <1>1, AccountingInvariant, PTL

\* What a step does to the ledger: only Post writes it, and never into a period
\* that does not admit the entry at that moment.
LEMMA LedgerSteps ==
    ASSUME AccountingInv, Next
    PROVE  \/ posted' = posted /\ entry' = entry
           \/ \E t \in Session, f \in Entry :
                  Post(t, f) /\ status' = status /\ Admits(into[t], req[t]) /\ into[t] \in Period
<1>1. CASE \E t \in Session, f \in Entry : Post(t, f)
  <2> PICK t \in Session, f \in Entry : Post(t, f)
    BY <1>1
  <2>1. req[t] # None /\ todo[t] = <<>> /\ status' = status
    BY DEF Post, Active
  <2>2. Admits(into[t], req[t]) /\ into[t] \in Period
    BY <2>1, ReadyToPost
  <2> QED BY <2>1, <2>2
<1>2. CASE ~\E t \in Session, f \in Entry : Post(t, f)
  BY <1>2 DEF Next, SessionStep, BeginPost, BeginReverse, LockEntry, ReadAccounts, LockPeriod,
              Rollback, ChangePeriodStatus, CreatePeriod, CreateAccount
<1> QED BY <1>1, <1>2

\* change_period_status and post exclude each other on the period's row.
LEMMA LockedStep ==
    ASSUME AccountingInv, Next, NEW p \in Period, status[p] = "LOCKED"
    PROVE  status'[p] = "LOCKED" /\ InPeriod(p)' = InPeriod(p)
<1>1. status'[p] = "LOCKED"
  <2>1. CASE \E q \in Period : ChangePeriodStatus(q)
    BY <2>1 DEF ChangePeriodStatus, NextStatus, AccountingInv, TypeOK
  <2>2. CASE \E q \in Period, s \in Span : CreatePeriod(q, s)
    BY <2>2 DEF CreatePeriod, AccountingInv, TypeOK
  <2>3. CASE ~(\E q \in Period : ChangePeriodStatus(q))
             /\ ~(\E q \in Period, s \in Span : CreatePeriod(q, s))
    BY <2>3 DEF Next, SessionStep, BeginPost, BeginReverse, LockEntry, ReadAccounts,
                LockPeriod, Post, Rollback, CreateAccount
  <2> QED BY <2>1, <2>2, <2>3
<1>2. CASE posted' = posted /\ entry' = entry
  BY <1>1, <1>2 DEF InPeriod
<1>3. CASE \E t \in Session, f \in Entry :
               Post(t, f) /\ status' = status /\ Admits(into[t], req[t]) /\ into[t] \in Period
  <2> PICK t \in Session, f \in Entry : Post(t, f) /\ Admits(into[t], req[t])
    BY <1>3
  <2>1. into[t] # p
    BY DEF Admits
  <2>2. /\ posted' = posted \cup {f} /\ f \notin posted /\ entry'[f] = NewEntry(t)
        /\ \A g \in posted : entry'[g].period = entry[g].period
    BY PostedRows
  <2>3. entry'[f].period = into[t]
    BY <2>2 DEF NewEntry
  <2> QED BY <1>1, <2>1, <2>2, <2>3 DEF InPeriod
<1> QED BY <1>2, <1>3, LedgerSteps

\* What a locked period holds never changes.
THEOREM LockedPeriodsStayFrozen == Spec => LockedPeriodIsFrozen
<1>1. AccountingInv /\ [Next]_vars
        => [\A p \in Period : status[p] = "LOCKED" =>
               status'[p] = "LOCKED" /\ InPeriod(p)' = InPeriod(p)]_vars
  BY LockedStep
<1> QED BY <1>1, AccountingInvariant, PTL DEF Spec, LockedPeriodIsFrozen

\* The status a posting checked is the status at its commit: only a privileged
\* adjustment goes into a period that is no longer open.
THEOREM ClosedPeriodsOnlyAdjusted == Spec => ClosedOnlyByAdjustment
<1>1. AccountingInv /\ [Next]_vars
        => [\A e \in posted' \ posted :
               \/ status[entry'[e].period] = "OPEN"
               \/ \E t \in Session : Ended(t) /\ req[t].kind # "document" /\ req[t].adjust]_vars
  <2> SUFFICES ASSUME AccountingInv, Next, NEW e \in posted' \ posted
               PROVE  \/ status[entry'[e].period] = "OPEN"
                      \/ \E t \in Session : Ended(t) /\ req[t].kind # "document" /\ req[t].adjust
    OBVIOUS
  <2>1. PICK t \in Session, f \in Entry : Post(t, f) /\ Admits(into[t], req[t]) /\ into[t] \in Period
    BY LedgerSteps
  <2>2. posted' = posted \cup {f} /\ entry'[f] = NewEntry(t)
    BY <2>1, PostedRows
  <2>3. entry'[e].period = into[t]
    BY <2>2 DEF NewEntry
  <2>4. Ended(t)
    <3>1. req'[t] = None
      BY <2>1, EndSessionFacts DEF Post
    <3> QED BY <2>1, <3>1 DEF Post, Ended
  <2>5. status[into[t]] \in {"OPEN", "CLOSED"}
    <3>1. req[t] # None /\ todo[t] = <<>>
      BY <2>1 DEF Post, Active
    <3>2. Covers(into[t], req[t].date)
      BY <3>1, ReadyToPost
    <3> QED BY <2>1, <3>2 DEF Covers, Admits, AccountingInv, TypeOK
  <2> QED BY <2>1, <2>3, <2>4, <2>5 DEF Admits
<1> QED BY <1>1, AccountingInvariant, PTL DEF Spec, ClosedOnlyByAdjustment

-----------------------------------------------------------------------------
(* Reports.  They select entries by date; a date that a locked period covers *)
(* keeps the entries it had, so a report over such dates adds up the same    *)
(* amounts again.                                                            *)

\* What a step does to the rows that a report reads.
LEMMA RowsKept ==
    ASSUME AccountingInv, [Next]_vars
    PROVE  /\ AccountingInv'
           /\ posted \subseteq posted'
           /\ \A e \in posted : /\ entry'[e].date = entry[e].date
                                /\ entry'[e].lines = entry[e].lines
           /\ \A p \in Period : status[p] = "LOCKED" =>
                 status'[p] = "LOCKED" /\ span'[p] = span[p] /\ InPeriod(p)' = InPeriod(p)
<1>1. AccountingInv'
  BY AccountingStep
<1>2. CASE UNCHANGED vars
  BY <1>1, <1>2 DEF vars, InPeriod
<1>3. CASE Next
  <2>1. posted \subseteq posted' /\ \A e \in posted : /\ entry'[e].date = entry[e].date
                                                      /\ entry'[e].lines = entry[e].lines
    <3>1. CASE posted' = posted /\ entry' = entry
      BY <3>1
    <3>2. CASE \E t \in Session, f \in Entry : Post(t, f)
      BY <3>2, PostedRows
    <3> QED BY <1>3, <3>1, <3>2, LedgerSteps
  <2>2. ASSUME NEW p \in Period, status[p] = "LOCKED"
        PROVE  span'[p] = span[p]
    <3>1. CASE \E q \in Period, s \in Span : CreatePeriod(q, s)
      BY <3>1, <2>2 DEF CreatePeriod, AccountingInv, TypeOK
    <3>2. CASE ~\E q \in Period, s \in Span : CreatePeriod(q, s)
      BY <1>3, <3>2 DEF Next, SessionStep, BeginPost, BeginReverse, LockEntry, ReadAccounts,
                        LockPeriod, Post, Rollback, CreateAccount, ChangePeriodStatus
    <3> QED BY <3>1, <3>2
  <2> QED BY <1>1, <1>3, <2>1, <2>2, LockedStep
<1> QED BY <1>2, <1>3

\* Dates that locked periods cover keep the entries they had.
LEMMA LockedDatesKept ==
    ASSUME AccountingInv, [Next]_vars, NEW start \in Int, NEW end \in Int,
           \A d \in Date : start <= d /\ d <= end =>
              \E q \in Period : Covers(q, d) /\ status[q] = "LOCKED"
    PROVE  Dated(start, end)' = Dated(start, end)
<1>1. ASSUME NEW e \in Dated(start, end)
      PROVE  e \in Dated(start, end)'
  BY RowsKept DEF Dated
<1>2. ASSUME NEW e \in Dated(start, end)'
      PROVE  e \in Dated(start, end)
  <2>1. e \in posted' /\ start <= entry'[e].date /\ entry'[e].date <= end
    BY DEF Dated
  <2>2. entry'[e].date \in Date
    BY <2>1, RowsKept DEF AccountingInv, TypeOK, EntryRow
  <2>3. PICK q \in Period : Covers(q, entry'[e].date) /\ status[q] = "LOCKED"
    BY <2>1, <2>2
  <2>4. status'[q] = "LOCKED" /\ span'[q] = span[q] /\ InPeriod(q)' = InPeriod(q)
    BY <2>3, RowsKept
  <2>5. status'[q] # "NONE" /\ span'[q].first <= entry'[e].date /\ entry'[e].date <= span'[q].last
    BY <2>3, <2>4 DEF Covers
  <2>6. OnePeriodPerDate'
    BY RowsKept DEF AccountingInv
  <2>7. q = entry'[e].period
    BY <2>1, <2>5, <2>6 DEF OnePeriodPerDate, Covers
  <2>8. e \in InPeriod(q)
    BY <2>1, <2>4, <2>7 DEF InPeriod
  <2>9. e \in posted /\ entry'[e].date = entry[e].date
    BY <2>8, RowsKept DEF InPeriod
  <2> QED BY <2>1, <2>9 DEF Dated
<1> QED BY <1>1, <1>2

\* So their trial balance is drawn from the same amounts.
LEMMA TrialBalanceKept ==
    ASSUME AccountingInv, [Next]_vars, NEW start \in Int, NEW end \in Int,
           \A d \in Date : start <= d /\ d <= end =>
              \E q \in Period : Covers(q, d) /\ status[q] = "LOCKED"
    PROVE  trial_balance(start, end)' = trial_balance(start, end)
<1> DEFINE E == Dated(start, end)
<1>1. E' = E /\ E \subseteq posted
  BY LockedDatesKept DEF Dated
<1> HIDE DEF E
<1>2. ASSUME NEW a \in Account
      PROVE  /\ [e \in E |-> Debit(e, a)]' = [e \in E |-> Debit(e, a)]
             /\ [e \in E |-> Credit(e, a)]' = [e \in E |-> Credit(e, a)]
  BY <1>1, RowsKept DEF Debit, Credit
<1>3. ASSUME NEW a \in Account
      PROVE  [debit |-> Total([e \in E |-> Debit(e, a)]),
              credit |-> Total([e \in E |-> Credit(e, a)])]'
             = [debit |-> Total([e \in E |-> Debit(e, a)]),
                credit |-> Total([e \in E |-> Credit(e, a)])]
  BY <1>2
<1> DEFINE T == [a \in Account |-> [debit |-> Total([e \in E |-> Debit(e, a)]),
                                    credit |-> Total([e \in E |-> Credit(e, a)])]]
<1>4. T' = T
  BY <1>3
<1>5. T = trial_balance(start, end)
  BY DEF trial_balance, E
<1>6. T' = trial_balance(start, end)'
  BY DEF trial_balance, E
<1> QED BY <1>4, <1>5, <1>6

\* The profit and loss that a balance sheet adds to equity goes by the same dates.
LEMMA EarningsKept ==
    ASSUME AccountingInv, [Next]_vars, NEW last \in Date,
           \A d \in Date : d <= last => \E q \in Period : Covers(q, d) /\ status[q] = "LOCKED"
    PROVE  current_year_earnings(last)' = current_year_earnings(last)
<1> DEFINE P == {p \in Period : Covers(p, last)}
           Result(p) == LET result == profit_and_loss(span[p].first, last)
                        IN  Total(result.revenue) - Total(result.expense)
<1>1. PICK q \in Period : Covers(q, last) /\ status[q] = "LOCKED"
  BY DEF Date
<1>2. /\ PeriodsDisjoint /\ PeriodsDisjoint' /\ TypeOK /\ TypeOK'
      /\ status'[q] = "LOCKED" /\ span'[q] = span[q]
  BY <1>1, RowsKept DEF AccountingInv
<1>3. span[q].first \in Int /\ last \in Int /\ LastDate \in Nat
  BY <1>2, DateAssumption DEF TypeOK, Span, Date
<1>i. \A p \in Period : /\ span[p].first \in Int /\ span[p].last \in Int
                        /\ span'[p].first \in Int /\ span'[p].last \in Int
  BY <1>2, DateAssumption DEF TypeOK, Span, Date
<1>4. ASSUME NEW p \in Period, Covers(p, last)
      PROVE  p = q
  BY <1>1, <1>2, <1>3, <1>4, <1>i DEF Covers, PeriodsDisjoint, Overlap
<1>5. ASSUME NEW p \in Period, Covers(p, last)'
      PROVE  p = q
  <2>1. status'[p] # "NONE" /\ span'[p].first <= last /\ last <= span'[p].last
    BY <1>5 DEF Covers
  <2>2. span'[q].first <= last /\ last <= span'[q].last
    BY <1>1, <1>2 DEF Covers
  <2> QED BY <2>1, <2>2, <1>2, <1>3, <1>i DEF PeriodsDisjoint, Overlap
<1>6. Covers(q, last)'
  BY <1>1, <1>2 DEF Covers
<1>7. P = {q} /\ P' = {q}
  BY <1>1, <1>4, <1>5, <1>6
<1>8. PICK start \in Int : start = span[q].first
  BY <1>3
<1>9. trial_balance(start, last)' = trial_balance(start, last)
  BY <1>3, TrialBalanceKept
<1>10. profit_and_loss(start, last)' = profit_and_loss(start, last)
  BY <1>9 DEF profit_and_loss, AmountsBy
<1>11. Result(q) = (LET result == profit_and_loss(start, last)
                    IN  Total(result.revenue) - Total(result.expense))
  BY <1>8
<1>12. Result(q)' = (LET result == profit_and_loss(start, last)
                     IN  Total(result.revenue) - Total(result.expense))'
  <2>1. profit_and_loss(span[q].first, last)' = profit_and_loss(start, last)'
    BY <1>2, <1>8 DEF profit_and_loss, trial_balance, Dated
  <2> QED BY <2>1
<1>13. Result(q)' = Result(q)
  BY <1>10, <1>11, <1>12
<1>14. current_year_earnings(last) = Total([p \in P |-> Result(p)])
  BY DEF current_year_earnings
<1>15. current_year_earnings(last)' = Total([p \in P |-> Result(p)]')
  BY DEF current_year_earnings
<1> HIDE DEF P, Result
<1>16. [p \in P |-> Result(p)]' = [p \in P |-> Result(p)]
  BY <1>7, <1>13
<1> QED BY <1>14, <1>15, <1>16

\* The balance sheet, when every date up to its own is locked.
LEMMA BalanceSheetKept ==
    ASSUME AccountingInv, [Next]_vars, NEW last \in Date,
           \A d \in Date : d <= last => \E q \in Period : Covers(q, d) /\ status[q] = "LOCKED"
    PROVE  balance_sheet(last)' = balance_sheet(last)
<1>1. trial_balance(1, last)' = trial_balance(1, last)
  BY TrialBalanceKept, DateAssumption DEF Date
<1>2. current_year_earnings(last)' = current_year_earnings(last)
  BY EarningsKept
<1> QED BY <1>1, <1>2 DEF balance_sheet, AmountsBy

\* An account's ledger, under the same condition.
LEMMA GeneralLedgerKept ==
    ASSUME AccountingInv, [Next]_vars, NEW first \in Date, NEW last \in Date, first <= last,
           \A d \in Date : d <= last => \E q \in Period : Covers(q, d) /\ status[q] = "LOCKED",
           NEW a \in Account
    PROVE  general_ledger(a, first, last)' = general_ledger(a, first, last)
<1>0. first \in Int /\ last \in Int
  BY DateAssumption DEF Date
<1>1. ASSUME NEW start \in Int, NEW end \in Int, end <= last
      PROVE  /\ [e \in Dated(start, end) |-> entry[e].lines[a]]'
                  = [e \in Dated(start, end) |-> entry[e].lines[a]]
  <2> DEFINE E == Dated(start, end)
  <2>1. \A d \in Date : start <= d /\ d <= end =>
              \E q \in Period : Covers(q, d) /\ status[q] = "LOCKED"
    BY <1>0, <1>1, DateAssumption DEF Date
  <2>2. E' = E /\ E \subseteq posted
    BY <2>1, LockedDatesKept DEF Dated
  <2> HIDE DEF E
  <2>3. [e \in E |-> entry[e].lines[a]]' = [e \in E |-> entry[e].lines[a]]
    BY <2>2, RowsKept
  <2> QED BY <2>3 DEF E
<1>2. general_ledger_opening_balance(a, first)' = general_ledger_opening_balance(a, first)
  BY <1>0, <1>1 DEF general_ledger_opening_balance
<1>3. ASSUME NEW opening
      PROVE  general_ledger_lines(a, first, last, opening)'
               = general_ledger_lines(a, first, last, opening)
  <2>1. ASSUME NEW d \in first..last
        PROVE  [e \in Dated(first, d) |-> entry[e].lines[a]]'
                  = [e \in Dated(first, d) |-> entry[e].lines[a]]
    BY <1>0, <1>1
  <2> QED BY <2>1 DEF general_ledger_lines
<1>4. PICK opening : opening = general_ledger_opening_balance(a, first)
  OBVIOUS
<1> DEFINE G == [opening |-> Sign(AccountType[a]) * opening,
                 running |-> [d \in first..last |->
                    Sign(AccountType[a]) * general_ledger_lines(a, first, last, opening)[d]]]
<1>5. G' = G
  BY <1>3
<1>6. general_ledger(a, first, last) = G
  BY <1>4 DEF general_ledger
<1>7. general_ledger(a, first, last)' = G'
  BY <1>2, <1>4 DEF general_ledger, general_ledger_lines
<1> QED BY <1>5, <1>6, <1>7

\* What was reported for a locked period stands: no posting, reversal or new
\* period changes a report of it (trial_balance, balance_sheet, general_ledger).
THEOREM LockedReportsNeverChange == Spec => LockedReportsStand
<1> DEFINE Stands(p) ==
             LET first == span[p].first
                 last == span[p].last
             IN  /\ trial_balance(first, last)' = trial_balance(first, last)
                 /\ LockedThrough(p) =>
                       /\ balance_sheet(last)' = balance_sheet(last)
                       /\ \A a \in Account :
                             general_ledger(a, first, last)' = general_ledger(a, first, last)
<1>1. ASSUME AccountingInv, [Next]_vars, NEW p \in Period, status[p] = "LOCKED"
      PROVE  Stands(p)
  <2>1. span[p] \in Span /\ span'[p] = span[p] /\ span[p].first <= span[p].last
    BY <1>1, RowsKept DEF AccountingInv, TypeOK, PeriodsDisjoint
  <2>2. PICK first \in Date, last \in Date : first = span[p].first /\ last = span[p].last
    BY <2>1 DEF Span
  <2>3. first <= last /\ first' = span'[p].first /\ last' = span'[p].last
    BY <2>1, <2>2
  <2>4. first \in Int /\ last \in Int
    BY DateAssumption DEF Date
  <2>5. trial_balance(first, last)' = trial_balance(first, last)
    <3>1. \A d \in Date : first <= d /\ d <= last => Covers(p, d) /\ status[p] = "LOCKED"
      BY <1>1, <2>2 DEF Covers
    <3> QED BY <1>1, <2>4, <3>1, TrialBalanceKept
  <2>6. trial_balance(span[p].first, span[p].last)' = trial_balance(first, last)'
    BY <2>1, <2>2 DEF trial_balance, Dated
  <2>7. ASSUME LockedThrough(p)
        PROVE  /\ balance_sheet(span[p].last)' = balance_sheet(span[p].last)
               /\ \A a \in Account :
                     general_ledger(a, span[p].first, span[p].last)'
                       = general_ledger(a, span[p].first, span[p].last)
    <3>1. \A d \in Date : d <= last => \E q \in Period : Covers(q, d) /\ status[q] = "LOCKED"
      BY <2>2, <2>4, <2>7, DateAssumption DEF LockedThrough, Date
    <3>2. balance_sheet(last)' = balance_sheet(last)
      BY <1>1, <3>1, BalanceSheetKept
    <3>3. \A a \in Account : general_ledger(a, first, last)' = general_ledger(a, first, last)
      BY <1>1, <2>3, <3>1, GeneralLedgerKept
    <3>4. balance_sheet(span[p].last)' = balance_sheet(last)'
      BY <2>1, <2>2 DEF balance_sheet, trial_balance, current_year_earnings, profit_and_loss,
                        Dated, Covers
    <3>5. \A a \in Account :
             general_ledger(a, span[p].first, span[p].last)' = general_ledger(a, first, last)'
      BY <2>1, <2>2 DEF general_ledger, general_ledger_opening_balance, general_ledger_lines, Dated
    <3> QED BY <2>2, <3>2, <3>3, <3>4, <3>5
  <2> QED BY <2>2, <2>5, <2>6, <2>7
<1>2. AccountingInv /\ [Next]_vars
        => [ReportTables' # ReportTables =>
              \A p \in {p \in Period : status[p] = "LOCKED"} :
                 LET first == span[p].first
                     last == span[p].last
                 IN  /\ trial_balance(first, last)' = trial_balance(first, last)
                     /\ LockedThrough(p) =>
                           /\ balance_sheet(last)' = balance_sheet(last)
                           /\ \A a \in Account :
                                 general_ledger(a, first, last)' = general_ledger(a, first, last)]_vars
  BY <1>1
<1> QED BY <1>2, AccountingInvariant, PTL DEF Spec, LockedReportsStand

=============================================================================
