--------------------------- MODULE Platform_proofs ---------------------------
(***************************************************************************)
(* Proofs about what every part of the program relies on: the key of a     *)
(* request (Idempotency) and the number of its document (Numbering), the   *)
(* events it leaves for the workers (Outbox) and the documents they index  *)
(* (DocumentIndex), for any clients, keys, bodies, series, sessions,       *)
(* events, workers and limits, and any number of faults.                   *)
(*                                                                         *)
(* A key performs one operation because the session that works under it    *)
(* holds its uncommitted row, alone, and no row is committed meanwhile.    *)
(*                                                                         *)
(* What is issued is gapless because the counter and the numbers taken but *)
(* not committed continue what is committed; that holds because a row has  *)
(* one holder.  No circular wait follows from the ranks of the rows.       *)
(*                                                                         *)
(* Outbox: a held row is unsent, due and below its limit in the database,  *)
(* and its uncommitted image is that row, or that row with one attempt     *)
(* more.                                                                   *)
(*                                                                         *)
(* Documents: each step is reduced to how it moves one worker, one status  *)
(* and the queue (StepEffects).  A cleanup runs only for a document that   *)
(* is gone and the row a connected run holds is there, so vectors of what  *)
(* exists go only where the history or a run at work accounts for them.    *)
(***************************************************************************)
EXTENDS Idempotency, Numbering, Outbox, DocumentIndex, TLAPS

-----------------------------------------------------------------------------
(* Idempotency                                                               *)

\* A session works under a key exactly while it holds the key's uncommitted row;
\* it holds it alone, and there is no committed row then.
WorkHoldsKey ==
    /\ \A k \in Key : \A w, v \in holder[k] : w = v
    /\ \A k \in Key : \A w \in holder[k] :
         session[w].at = "work" /\ session[w].key = k /\ keyRow[k] = NoKeyRow
    /\ \A w \in Session : session[w].at = "work" => w \in holder[session[w].key]

\* The response is stored in the transaction that records the key.
RowsAreCompleted == \A k \in Key : keyRow[k] # NoKeyRow => keyRow[k].status = "COMPLETED"

IdempotencyInv ==
    TypeOK /\ WorkHoldsKey /\ RowsAreCompleted /\ KeyIffDocument /\ AnswersAgree
    /\ NeverStuckInProgress

-----------------------------------------------------------------------------
LEMMA InitIdempotency == Init => IdempotencyInv
<1> SUFFICES ASSUME Init PROVE IdempotencyInv
  OBVIOUS
<1>1. TypeOK
  <2>1. keyRow \in [Key -> KeyRow] /\ holder \in [Key -> SUBSET Session]
    BY DEF Init, KeyRow
  <2>2. docs \in Seq(DocRow) /\ sent \in [Intent -> Nat] /\ requests \subseteq Request
        /\ answers \subseteq Answer /\ got \subseteq Intent
    BY DEF Init
  <2>3. session \in [Session -> {IdleSession} \cup [at : {"claim", "work"}, intent : Intent, key : Key]]
    BY DEF Init
  <2> QED BY <2>1, <2>2, <2>3 DEF TypeOK
<1>2. WorkHoldsKey
  BY DEF Init, WorkHoldsKey, IdleSession
<1>3. RowsAreCompleted /\ NeverStuckInProgress /\ AnswersAgree
  BY DEF Init, RowsAreCompleted, NeverStuckInProgress, AnswersAgree
<1>4. KeyIffDocument
  BY DEF Init, KeyIffDocument, Effects
<1> QED BY <1>1, <1>2, <1>3, <1>4 DEF IdempotencyInv

\* Steps that leave the key rows, the documents and the holders alone.
LEMMA QuietStep ==
    ASSUME IdempotencyInv, keyRow' = keyRow, docs' = docs
    PROVE  RowsAreCompleted' /\ KeyIffDocument' /\ Effects' = Effects
BY DEF IdempotencyInv, RowsAreCompleted, KeyIffDocument, Effects

LEMMA Busy ==
    ASSUME TypeOK, NEW w \in Session, session[w] # IdleSession
    PROVE  /\ session[w] \in [at : {"claim", "work"}, intent : Intent, key : Key]
           /\ session[w].at \in {"claim", "work"}
           /\ session[w].intent \in Intent /\ session[w].key \in Key
<1>1. session[w] \in [at : {"claim", "work"}, intent : Intent, key : Key]
  BY DEF TypeOK
<1> QED BY <1>1

LEMMA StoredRow ==
    ASSUME TypeOK, NEW d \in 1..Len(docs)
    PROVE  /\ docs[d] \in DocRow /\ docs[d].intent \in Intent /\ docs[d].key \in Key
           /\ docs[d].body \in Body /\ docs[d].changes \in Nat
<1>1. docs \in Seq(DocRow)
  BY DEF TypeOK
<1>2. docs[d] \in DocRow
  BY <1>1
<1> QED BY <1>2 DEF DocRow

LEMMA SendOK ==
    ASSUME IdempotencyInv, NEW i \in Intent, NEW k \in Key, Send(i, k)
    PROVE  IdempotencyInv'
<1> USE DEF IdempotencyInv
<1>q. RowsAreCompleted' /\ KeyIffDocument' /\ Effects' = Effects
  BY QuietStep DEF Send
<1>p. PICK r : r = [intent |-> i, key |-> k, attempt |-> sent[i] + 1]
  OBVIOUS
<1>s. /\ sent' = [sent EXCEPT ![i] = @ + 1] /\ requests' = requests \cup {r}
      /\ UNCHANGED <<keyRow, docs, holder, session, answers, got>>
  BY <1>p DEF Send
<1>0. sent \in [Intent -> Nat] /\ sent[i] \in Nat
  BY DEF TypeOK
<1>1. TypeOK'
  <2>1. sent' \in [Intent -> Nat]
    BY <1>s, <1>0
  <2>2. r \in Request
    BY <1>p, <1>0 DEF Request
  <2> QED BY <1>s, <2>1, <2>2 DEF TypeOK
<1>2. WorkHoldsKey' /\ NeverStuckInProgress'
  BY <1>s DEF WorkHoldsKey, NeverStuckInProgress
<1>3. AnswersAgree'
  BY <1>s, <1>q DEF AnswersAgree
<1> QED BY <1>q, <1>1, <1>2, <1>3

LEMMA ReadOK ==
    ASSUME IdempotencyInv, NEW a \in answers, Read(a)
    PROVE  IdempotencyInv'
<1> USE DEF IdempotencyInv
<1>s. got' = got \cup {a.intent} /\ UNCHANGED <<keyRow, docs, holder, session, sent, requests, answers>>
  BY DEF Read
<1>q. RowsAreCompleted' /\ KeyIffDocument' /\ Effects' = Effects
  BY <1>s, QuietStep
<1>1. TypeOK'
  <2> a.intent \in Intent
    BY DEF TypeOK, Answer
  <2> QED BY <1>s DEF TypeOK
<1>2. WorkHoldsKey' /\ NeverStuckInProgress'
  BY <1>s DEF WorkHoldsKey, NeverStuckInProgress
<1>3. AnswersAgree'
  BY <1>s, <1>q DEF AnswersAgree
<1> QED BY <1>q, <1>1, <1>2, <1>3

LEMMA AcceptOK ==
    ASSUME IdempotencyInv, NEW w \in Session, NEW r \in requests, Accept(w, r)
    PROVE  IdempotencyInv'
<1> USE DEF IdempotencyInv
<1>p. PICK s : s = [at |-> "claim", intent |-> r.intent, key |-> r.key]
  OBVIOUS
<1>s. /\ session[w] = IdleSession /\ session' = [session EXCEPT ![w] = s] /\ requests' = requests \ {r}
      /\ UNCHANGED <<keyRow, docs, holder, sent, answers, got>>
  BY <1>p DEF Accept, Serving
<1>q. RowsAreCompleted' /\ KeyIffDocument' /\ Effects' = Effects
  BY <1>s, QuietStep
<1>0. /\ s \in [at : {"claim", "work"}, intent : Intent, key : Key]
      /\ s.at = "claim" /\ s.intent = r.intent /\ s.key = r.key
  <2>1. r.intent \in Intent /\ r.key \in Key
    BY DEF TypeOK, Request
  <2> QED BY <2>1, <1>p
<1>1. TypeOK'
  BY <1>s, <1>0 DEF TypeOK
<1>2. WorkHoldsKey'
  <2>1. \A v \in Session : session'[v] = IF v = w THEN s ELSE session[v]
    BY <1>s DEF TypeOK
  <2>2. session[w].at = "idle"
    BY <1>s DEF IdleSession
  <2>3. \A k \in Key : w \notin holder[k] /\ holder[k] \subseteq Session
    BY <2>2 DEF WorkHoldsKey, TypeOK
  <2> QED BY <1>s, <1>0, <2>1, <2>3 DEF WorkHoldsKey
<1>3. AnswersAgree' /\ NeverStuckInProgress'
  BY <1>s, <1>q DEF AnswersAgree, NeverStuckInProgress
<1> QED BY <1>q, <1>1, <1>2, <1>3

LEMMA ClaimWonOK ==
    ASSUME IdempotencyInv, NEW w \in Session, ClaimWon(w)
    PROVE  IdempotencyInv'
<1> USE DEF IdempotencyInv
<1>p. PICK k, s : k = session[w].key /\ s = [at |-> "work", intent |-> session[w].intent, key |-> k]
  OBVIOUS
<1>s. /\ session[w].at = "claim" /\ holder[k] \subseteq {w} /\ keyRow[k] = NoKeyRow
      /\ holder' = [holder EXCEPT ![k] = @ \cup {w}]
      /\ session' = [session EXCEPT ![w] = s]
      /\ UNCHANGED <<keyRow, docs, sent, requests, answers, got>>
  BY <1>p DEF ClaimWon, MayClaim, Serving
<1>b. session[w] # IdleSession /\ session[w].intent \in Intent /\ k \in Key
  BY <1>s, <1>p, Busy DEF IdleSession
<1>q. RowsAreCompleted' /\ KeyIffDocument' /\ Effects' = Effects
  BY <1>s, QuietStep
<1>0. /\ s \in [at : {"claim", "work"}, intent : Intent, key : Key]
      /\ s.at = "work" /\ s.intent = session[w].intent /\ s.key = k
  BY <1>p, <1>b
<1>t. /\ \A v \in Session : session'[v] = IF v = w THEN s ELSE session[v]
      /\ \A j \in Key : holder'[j] = IF j = k THEN holder[k] \cup {w} ELSE holder[j]
  BY <1>s DEF TypeOK
<1>1. TypeOK'
  BY <1>s, <1>0, <1>b DEF TypeOK
<1>2. WorkHoldsKey'
  <2>1. \A j \in Key : holder[j] \subseteq Session
    BY DEF TypeOK
  <2>2. \A j \in Key : w \notin holder[j]
    BY <1>s DEF WorkHoldsKey
  <2> QED BY <1>s, <1>0, <1>b, <1>t, <2>1, <2>2 DEF WorkHoldsKey
<1>3. AnswersAgree' /\ NeverStuckInProgress'
  BY <1>s, <1>q DEF AnswersAgree, NeverStuckInProgress
<1> QED BY <1>q, <1>1, <1>2, <1>3

\* A session that ends without a commit gives its key back.
LEMMA EndsOK ==
    ASSUME IdempotencyInv, NEW w \in Session,
           session' = [session EXCEPT ![w] = IdleSession],
           \/ holder' = Released(w)
           \/ holder' = holder /\ session[w].at = "claim",
           UNCHANGED <<keyRow, docs, sent, requests, got>>
    PROVE  /\ WorkHoldsKey' /\ RowsAreCompleted' /\ KeyIffDocument'
           /\ Effects' = Effects /\ holder' \in [Key -> SUBSET Session]
           /\ session' \in [Session -> {IdleSession} \cup [at : {"claim", "work"}, intent : Intent, key : Key]]
<1> USE DEF IdempotencyInv
<1>q. RowsAreCompleted' /\ KeyIffDocument' /\ Effects' = Effects
  BY QuietStep
<1>0. /\ holder \in [Key -> SUBSET Session]
      /\ session \in [Session -> {IdleSession} \cup [at : {"claim", "work"}, intent : Intent, key : Key]]
  BY DEF TypeOK
<1>t. /\ \A v \in Session : session'[v] = IF v = w THEN IdleSession ELSE session[v]
      /\ \A k \in Key : holder[k] \subseteq Session
      /\ \A k \in Key : holder'[k] = holder[k] \ {w}
  <2>1. \A v \in Session : session'[v] = IF v = w THEN IdleSession ELSE session[v]
    BY <1>0
  <2>2. \A k \in Key : holder[k] \subseteq Session
    BY <1>0
  <2>3. ASSUME NEW k \in Key PROVE holder'[k] = holder[k] \ {w}
    <3>1. CASE holder' = Released(w)
      BY <3>1 DEF Released
    <3>2. CASE holder' = holder /\ session[w].at = "claim"
      BY <3>2 DEF WorkHoldsKey
    <3> QED BY <3>1, <3>2
  <2> QED BY <2>1, <2>2, <2>3
<1>1. holder' \in [Key -> SUBSET Session]
  BY <1>0 DEF Released
<1>2. session' \in [Session -> {IdleSession} \cup [at : {"claim", "work"}, intent : Intent, key : Key]]
  BY <1>0
<1>3. IdleSession.at = "idle"
  BY DEF IdleSession
<1>4. WorkHoldsKey'
  <2>1. \A k \in Key : \A x, v \in holder'[k] : x = v
    BY <1>t DEF WorkHoldsKey
  <2>2. \A k \in Key : \A x \in holder'[k] :
          session'[x].at = "work" /\ session'[x].key = k /\ keyRow'[k] = NoKeyRow
    <3> SUFFICES ASSUME NEW k \in Key, NEW x \in holder'[k]
                 PROVE  session'[x].at = "work" /\ session'[x].key = k /\ keyRow'[k] = NoKeyRow
      OBVIOUS
    <3>1. x \in holder[k] /\ x # w /\ x \in Session
      BY <1>t
    <3>2. session'[x] = session[x] /\ keyRow' = keyRow
      BY <1>t, <3>1
    <3> QED BY <3>1, <3>2 DEF WorkHoldsKey
  <2>3. \A v \in Session : session'[v].at = "work" => v \in holder'[session'[v].key]
    <3> SUFFICES ASSUME NEW v \in Session, session'[v].at = "work"
                 PROVE  v \in holder'[session'[v].key]
      OBVIOUS
    <3>1. v # w /\ session'[v] = session[v]
      BY <1>t, <1>3
    <3>2. session[v] # IdleSession
      BY <1>3, <3>1
    <3>3. session[v].key \in Key
      BY <3>2, Busy
    <3> QED BY <3>1, <3>3, <1>t DEF WorkHoldsKey
  <2> QED BY <2>1, <2>2, <2>3 DEF WorkHoldsKey
<1> QED BY <1>q, <1>1, <1>2, <1>4

LEMMA CrashOK ==
    ASSUME IdempotencyInv, NEW w \in Session, Crash(w)
    PROVE  IdempotencyInv'
<1> USE DEF IdempotencyInv
<1>s. /\ session' = [session EXCEPT ![w] = IdleSession] /\ holder' = Released(w)
      /\ UNCHANGED <<keyRow, docs, sent, requests, answers, got>>
  BY DEF Crash
<1>1. /\ WorkHoldsKey' /\ RowsAreCompleted' /\ KeyIffDocument'
      /\ Effects' = Effects /\ holder' \in [Key -> SUBSET Session]
      /\ session' \in [Session -> {IdleSession} \cup [at : {"claim", "work"}, intent : Intent, key : Key]]
  BY <1>s, EndsOK
<1>2. TypeOK'
  BY <1>s, <1>1 DEF TypeOK
<1>3. AnswersAgree' /\ NeverStuckInProgress'
  BY <1>s, <1>1 DEF AnswersAgree, NeverStuckInProgress
<1> QED BY <1>1, <1>2, <1>3

LEMMA RejectOK ==
    ASSUME IdempotencyInv, NEW w \in Session, Reject(w)
    PROVE  IdempotencyInv'
<1> USE DEF IdempotencyInv
<1>p. PICK a : a = Answered(w, "REJECTED", 0)
  OBVIOUS
<1>s. /\ session' = [session EXCEPT ![w] = IdleSession] /\ holder' = Released(w)
      /\ answers' = answers \cup {a} /\ session[w].at = "work"
      /\ UNCHANGED <<keyRow, docs, sent, requests, got>>
  BY <1>p DEF Reject
<1>1. /\ WorkHoldsKey' /\ RowsAreCompleted' /\ KeyIffDocument'
      /\ Effects' = Effects /\ holder' \in [Key -> SUBSET Session]
      /\ session' \in [Session -> {IdleSession} \cup [at : {"claim", "work"}, intent : Intent, key : Key]]
  BY <1>s, EndsOK
<1>b. session[w].intent \in Intent /\ session[w].key \in Key
  BY <1>s, Busy DEF IdleSession
<1>a. a \in Answer /\ a.code = "REJECTED"
  <2>1. 0 \notin DOMAIN docs
    BY DEF TypeOK
  <2>2. a = [intent |-> session[w].intent, key |-> session[w].key, code |-> "REJECTED", doc |-> 0,
             changes |-> 0]
    BY <1>p, <2>1 DEF Answered
  <2> QED BY <2>2, <1>b DEF Answer
<1>2. TypeOK'
  BY <1>s, <1>1, <1>a DEF TypeOK
<1>3. AnswersAgree' /\ NeverStuckInProgress'
  BY <1>s, <1>1, <1>a DEF AnswersAgree, NeverStuckInProgress
<1> QED BY <1>1, <1>2, <1>3

LEMMA ClaimLostOK ==
    ASSUME IdempotencyInv, NEW w \in Session, ClaimLost(w)
    PROVE  IdempotencyInv'
<1> USE DEF IdempotencyInv
<1>p. PICK k, i, found, verdict, doc, a :
        /\ k = session[w].key /\ i = session[w].intent /\ found = keyRow[k]
        /\ verdict = Verdict(found, BodyOf[i])
        /\ doc = IF verdict = "REPLAYED" THEN found.doc ELSE 0
        /\ a = Answered(w, verdict, doc)
  OBVIOUS
<1>s. /\ session' = [session EXCEPT ![w] = IdleSession] /\ holder' = holder
      /\ answers' = answers \cup {a} /\ session[w].at = "claim" /\ found # NoKeyRow
      /\ UNCHANGED <<keyRow, docs, sent, requests, got>>
  BY <1>p DEF ClaimLost, MayClaim
<1>1. /\ WorkHoldsKey' /\ RowsAreCompleted' /\ KeyIffDocument'
      /\ Effects' = Effects /\ holder' \in [Key -> SUBSET Session]
      /\ session' \in [Session -> {IdleSession} \cup [at : {"claim", "work"}, intent : Intent, key : Key]]
  BY <1>s, EndsOK
<1>b. i \in Intent /\ k \in Key
  BY <1>s, <1>p, Busy DEF IdleSession
<1>2. found.status = "COMPLETED" /\ Effects[k] = {found.doc} /\ docs[found.doc].body = found.body
  BY <1>b, <1>p, <1>s DEF RowsAreCompleted, KeyIffDocument
<1>3. /\ verdict \in {"REUSE", "REPLAYED"}
      /\ verdict = "REPLAYED" => found.body = BodyOf[i]
  BY <1>p, <1>2 DEF Verdict
<1>4. found.doc \in 1..Len(docs)
  <2>1. found.doc \in Effects[k]
    BY <1>2
  <2> QED BY <2>1, <1>b DEF Effects
<1>5. a.intent = i /\ a.key = k /\ a.code = verdict /\ a.doc = doc
  BY <1>p DEF Answered
<1>6. a \in Answer
  <2>1. DOMAIN docs = 1..Len(docs)
    BY DEF TypeOK
  <2>2. found.doc \in Nat /\ docs[found.doc].changes \in Nat
    BY <1>4, StoredRow
  <2>3. doc \in Nat /\ (doc \in DOMAIN docs => docs[doc].changes \in Nat)
    BY <1>p, <2>1, <2>2
  <2>p. PICK c : c = IF doc \in DOMAIN docs THEN docs[doc].changes ELSE 0
    OBVIOUS
  <2>4. c \in Nat
    BY <2>3, <2>p
  <2>5. a = [intent |-> i, key |-> k, code |-> verdict, doc |-> doc, changes |-> c]
    BY <1>p, <2>p DEF Answered
  <2> QED BY <2>3, <2>4, <2>5, <1>b, <1>3 DEF Answer
<1>7. TypeOK'
  BY <1>s, <1>1, <1>6 DEF TypeOK
<1>8. NeverStuckInProgress'
  BY <1>s, <1>3, <1>5 DEF NeverStuckInProgress
<1>9. AnswersAgree'
  <2> SUFFICES ASSUME NEW b \in answers', b.code \in {"DONE", "REPLAYED"}
               PROVE  Effects[b.key] = {b.doc} /\ docs[b.doc].body = BodyOf[b.intent]
    BY <1>1, <1>s DEF AnswersAgree
  <2>1. CASE b \in answers
    BY <2>1 DEF AnswersAgree
  <2>2. CASE b = a
    <3>1. verdict = "REPLAYED"
      BY <2>2, <1>3, <1>5
    <3>2. doc = found.doc /\ found.body = BodyOf[i]
      BY <3>1, <1>p, <1>3
    <3> QED BY <2>2, <3>2, <1>2, <1>5
  <2> QED BY <2>1, <2>2, <1>s
<1> QED BY <1>1, <1>7, <1>8, <1>9

LEMMA ChangeOK ==
    ASSUME IdempotencyInv, NEW d \in DOMAIN docs, Change(d)
    PROVE  IdempotencyInv'
<1> USE DEF IdempotencyInv
<1>s. /\ docs' = [docs EXCEPT ![d].changes = @ + 1]
      /\ UNCHANGED <<keyRow, holder, session, sent, requests, answers, got>>
  BY DEF Change
<1>0. docs \in Seq(DocRow) /\ DOMAIN docs = 1..Len(docs) /\ d \in 1..Len(docs)
  BY DEF TypeOK
<1>1. /\ docs' \in Seq(DocRow) /\ Len(docs') = Len(docs)
      /\ \A c \in 1..Len(docs) : /\ docs'[c].key = docs[c].key /\ docs'[c].body = docs[c].body
                                 /\ docs'[c].intent = docs[c].intent
  <2>p. PICK x : x = [docs[d] EXCEPT !.changes = @ + 1]
    OBVIOUS
  <2>1. docs[d] \in DocRow /\ docs[d].changes \in Nat
    BY <1>0, StoredRow
  <2>2. /\ x \in DocRow /\ x.key = docs[d].key /\ x.body = docs[d].body /\ x.intent = docs[d].intent
    BY <2>p, <2>1 DEF DocRow
  <2>3. docs' = [docs EXCEPT ![d] = x]
    BY <1>s, <2>p
  <2>4. docs' \in Seq(DocRow) /\ Len(docs') = Len(docs)
    BY <1>0, <2>2, <2>3
  <2>5. \A c \in 1..Len(docs) : docs'[c] = IF c = d THEN x ELSE docs[c]
    BY <1>0, <2>3
  <2> QED BY <2>2, <2>4, <2>5
<1>2. Effects' = Effects
  BY <1>1 DEF Effects
<1>3. TypeOK'
  BY <1>s, <1>1 DEF TypeOK
<1>4. WorkHoldsKey' /\ RowsAreCompleted' /\ NeverStuckInProgress'
  BY <1>s DEF WorkHoldsKey, RowsAreCompleted, NeverStuckInProgress
<1>5. \A k \in Key : Effects[k] \subseteq 1..Len(docs)
  BY DEF Effects
<1>6. KeyIffDocument'
  <2> SUFFICES ASSUME NEW k \in Key
               PROVE  IF keyRow[k] = NoKeyRow THEN Effects[k] = {}
                      ELSE Effects[k] = {keyRow[k].doc} /\ docs'[keyRow[k].doc].body = keyRow[k].body
    BY <1>s, <1>2 DEF KeyIffDocument
  <2> QED BY <1>1, <1>5 DEF KeyIffDocument
<1>7. AnswersAgree'
  <2> SUFFICES ASSUME NEW b \in answers, b.code \in {"DONE", "REPLAYED"}
               PROVE  Effects[b.key] = {b.doc} /\ docs'[b.doc].body = BodyOf[b.intent]
    BY <1>s, <1>2 DEF AnswersAgree
  <2>1. b.key \in Key
    BY DEF TypeOK, Answer
  <2>2. Effects[b.key] = {b.doc} /\ docs[b.doc].body = BodyOf[b.intent]
    BY DEF AnswersAgree
  <2>3. b.doc \in 1..Len(docs)
    BY <2>1, <2>2, <1>5
  <2> QED BY <2>2, <2>3, <1>1
<1> QED BY <1>3, <1>4, <1>6, <1>7

LEMMA AppendDoc ==
    ASSUME NEW q \in Seq(DocRow), NEW x \in DocRow
    PROVE  /\ Append(q, x) \in Seq(DocRow) /\ Len(Append(q, x)) = Len(q) + 1 /\ Len(q) \in Nat
           /\ Append(q, x)[Len(q) + 1] = x
           /\ \A d \in 1..Len(q) : Append(q, x)[d] = q[d]
OBVIOUS

\* A commit adds one document, the first and only one of its key.
LEMMA CommitEffects ==
    ASSUME IdempotencyInv, NEW w \in Session, Commit(w)
    PROVE  /\ session[w].key \in Key /\ session[w].intent \in Intent
           /\ keyRow[session[w].key] = NoKeyRow
           /\ Effects[session[w].key] = {}
           /\ Effects' = [Effects EXCEPT ![session[w].key] = {Len(docs) + 1}]
           /\ docs' \in Seq(DocRow) /\ Len(docs) \in Nat /\ Len(docs') = Len(docs) + 1
           /\ docs'[Len(docs) + 1] = NewDoc(w)
           /\ \A d \in 1..Len(docs) : docs'[d] = docs[d]
<1> USE DEF IdempotencyInv
<1>p. PICK k, n, x : k = session[w].key /\ n = Len(docs) /\ x = NewDoc(w)
  OBVIOUS
<1>s. session[w].at = "work" /\ docs' = Append(docs, x)
  BY <1>p DEF Commit
<1>b. k \in Key /\ session[w].intent \in Intent
  BY <1>s, <1>p, Busy DEF IdleSession
<1>1. keyRow[k] = NoKeyRow
  <2>1. w \in holder[k]
    BY <1>s, <1>p DEF WorkHoldsKey
  <2> QED BY <2>1, <1>b DEF WorkHoldsKey
<1>2. Effects[k] = {}
  BY <1>1, <1>b DEF KeyIffDocument
<1>3. x \in DocRow /\ x.key = k
  BY <1>b, <1>p, BodyAssumption DEF NewDoc, DocRow
<1>4. docs \in Seq(DocRow)
  BY DEF TypeOK
<1>5. /\ docs' \in Seq(DocRow) /\ n \in Nat /\ Len(docs') = n + 1 /\ docs'[n + 1] = x
      /\ \A d \in 1..n : docs'[d] = docs[d]
  BY <1>3, <1>4, <1>s, <1>p, AppendDoc
<1>6. \A j \in Key : Effects'[j] = IF j = k THEN {n + 1} ELSE Effects[j]
  <2> SUFFICES ASSUME NEW j \in Key PROVE Effects'[j] = IF j = k THEN {n + 1} ELSE Effects[j]
    OBVIOUS
  <2>1. Effects'[j] = {d \in 1..(n + 1) : docs'[d].key = j}
    BY <1>5 DEF Effects
  <2>2. Effects[j] = {d \in 1..n : docs[d].key = j}
    BY <1>p DEF Effects
  <2>3. \A d \in 1..(n + 1) : d \in 1..n \/ d = n + 1
    BY <1>5
  <2>4. n + 1 \notin 1..n /\ n + 1 \in 1..(n + 1) /\ \A d \in 1..n : d \in 1..(n + 1)
    BY <1>5
  <2>5. CASE j = k
    <3>1. \A d \in 1..n : docs[d].key # k
      BY <1>2, <2>2, <2>5
    <3> QED BY <3>1, <2>1, <2>3, <2>4, <2>5, <1>3, <1>5
  <2>6. CASE j # k
    BY <2>1, <2>2, <2>3, <2>4, <2>6, <1>3, <1>5
  <2> QED BY <2>5, <2>6
<1>7. Effects' = [Effects EXCEPT ![k] = {n + 1}]
  <2>1. Effects' = [j \in Key |-> Effects'[j]] /\ Effects = [j \in Key |-> Effects[j]]
    BY DEF Effects
  <2> QED BY <2>1, <1>6, Zenon
<1> QED BY <1>b, <1>1, <1>2, <1>5, <1>7, <1>p

LEMMA CommitOK ==
    ASSUME IdempotencyInv, NEW w \in Session, Commit(w)
    PROVE  IdempotencyInv'
<1> USE DEF IdempotencyInv
<1>p. PICK k, i, n, x, a, found :
        /\ k = session[w].key /\ i = session[w].intent /\ n = Len(docs) /\ x = NewDoc(w)
        /\ a = Answered(w, "DONE", n + 1) /\ found = Completed(w, n + 1)
  OBVIOUS
<1>s. /\ session[w].at = "work" /\ keyRow' = [keyRow EXCEPT ![k] = found]
      /\ holder' = Released(w) /\ answers' = answers \cup {a}
      /\ session' = [session EXCEPT ![w] = IdleSession]
      /\ UNCHANGED <<sent, requests, got>>
  BY <1>p DEF Commit
<1>c. /\ k \in Key /\ i \in Intent /\ keyRow[k] = NoKeyRow /\ Effects[k] = {}
      /\ Effects' = [Effects EXCEPT ![k] = {n + 1}]
      /\ docs' \in Seq(DocRow) /\ n \in Nat /\ Len(docs') = n + 1 /\ docs'[n + 1] = x
      /\ \A d \in 1..n : docs'[d] = docs[d]
  BY <1>p, CommitEffects
<1>d. n + 1 \in Nat \ {0} /\ n + 1 \notin DOMAIN docs
  <2>1. DOMAIN docs = 1..n
    BY <1>p DEF TypeOK
  <2> QED BY <2>1, <1>c
<1>x. x.intent = i /\ x.key = k /\ x.body = BodyOf[i]
  BY <1>p DEF NewDoc
<1>r. found \in KeyRow /\ found # NoKeyRow /\ found.status = "COMPLETED" /\ found.body = BodyOf[i] /\ found.doc = n + 1
  <2>1. found = [status |-> "COMPLETED", body |-> BodyOf[i], doc |-> n + 1]
    BY <1>p DEF Completed
  <2>2. BodyOf[i] \in Body
    BY <1>c, BodyAssumption
  <2>3. NoKeyRow.status = "NONE" /\ found.status = "COMPLETED"
    BY <2>1 DEF NoKeyRow
  <2> QED BY <2>1, <2>2, <2>3, <1>d DEF KeyRow
<1>a. a \in Answer /\ a.intent = i /\ a.key = k /\ a.doc = n + 1 /\ a.code = "DONE"
  <2>1. a = [intent |-> i, key |-> k, code |-> "DONE", doc |-> n + 1, changes |-> 0]
    BY <1>p, <1>d DEF Answered
  <2> QED BY <2>1, <1>c, <1>d DEF Answer
<1>t. /\ \A v \in Session : session'[v] = IF v = w THEN IdleSession ELSE session[v]
      /\ \A j \in Key : holder[j] \subseteq Session /\ holder'[j] = holder[j] \ {w}
      /\ \A j \in Key : keyRow'[j] = IF j = k THEN found ELSE keyRow[j]
      /\ \A j \in Key : Effects'[j] = IF j = k THEN {n + 1} ELSE Effects[j]
  <2>1. \A v \in Session : session'[v] = IF v = w THEN IdleSession ELSE session[v]
    BY <1>s DEF TypeOK
  <2>2. \A j \in Key : holder[j] \subseteq Session /\ holder'[j] = holder[j] \ {w}
    BY <1>s DEF TypeOK, Released
  <2>3. \A j \in Key : keyRow'[j] = IF j = k THEN found ELSE keyRow[j]
    BY <1>s DEF TypeOK
  <2>4. \A j \in Key : Effects'[j] = IF j = k THEN {n + 1} ELSE Effects[j]
    <3>1. Effects = [j \in Key |-> Effects[j]]
      BY DEF Effects
    <3> QED BY <3>1, <1>c
  <2> QED BY <2>1, <2>2, <2>3, <2>4
<1>1. TypeOK'
  <2>1. holder' \in [Key -> SUBSET Session]
    BY <1>s DEF TypeOK, Released
  <2>2. session' \in [Session -> {IdleSession} \cup [at : {"claim", "work"}, intent : Intent, key : Key]]
    BY <1>s DEF TypeOK
  <2>3. keyRow' \in [Key -> KeyRow]
    BY <1>s, <1>r DEF TypeOK
  <2> QED BY <2>1, <2>2, <2>3, <1>s, <1>c, <1>a DEF TypeOK
<1>w. w \in holder[k]
  BY <1>s, <1>p DEF WorkHoldsKey
<1>2. WorkHoldsKey'
  <2>0. IdleSession.at = "idle"
    BY DEF IdleSession
  <2>1. \A j \in Key : \A u, v \in holder'[j] : u = v
    BY <1>t DEF WorkHoldsKey
  <2>2. \A j \in Key : \A v \in holder'[j] :
          session'[v].at = "work" /\ session'[v].key = j /\ keyRow'[j] = NoKeyRow
    <3> SUFFICES ASSUME NEW j \in Key, NEW v \in holder'[j]
                 PROVE  session'[v].at = "work" /\ session'[v].key = j /\ keyRow'[j] = NoKeyRow
      OBVIOUS
    <3>1. v \in holder[j] /\ v # w /\ v \in Session
      BY <1>t
    <3>2. j # k
      BY <3>1, <1>w, <1>c DEF WorkHoldsKey
    <3> QED BY <3>1, <3>2, <1>t DEF WorkHoldsKey
  <2>3. \A v \in Session : session'[v].at = "work" => v \in holder'[session'[v].key]
    <3> SUFFICES ASSUME NEW v \in Session, session'[v].at = "work"
                 PROVE  v \in holder'[session'[v].key]
      OBVIOUS
    <3>1. v # w /\ session'[v] = session[v] /\ session[v] # IdleSession
      BY <1>t, <2>0
    <3>2. session[v].key \in Key
      BY <3>1, Busy
    <3> QED BY <3>1, <3>2, <1>t DEF WorkHoldsKey
  <2> QED BY <2>1, <2>2, <2>3 DEF WorkHoldsKey
<1>3. RowsAreCompleted'
  BY <1>t, <1>r DEF RowsAreCompleted
<1>e. \A j \in Key : Effects[j] \subseteq 1..n
  BY <1>p DEF Effects
<1>4. KeyIffDocument'
  <2> SUFFICES ASSUME NEW j \in Key
               PROVE  IF keyRow'[j] = NoKeyRow THEN Effects'[j] = {}
                      ELSE Effects'[j] = {keyRow'[j].doc} /\ docs'[keyRow'[j].doc].body = keyRow'[j].body
    BY DEF KeyIffDocument
  <2>1. CASE j = k
    BY <2>1, <1>t, <1>r, <1>c, <1>x
  <2>2. CASE j # k
    <3>1. keyRow'[j] = keyRow[j] /\ Effects'[j] = Effects[j]
      BY <2>2, <1>t
    <3>2. CASE keyRow[j] = NoKeyRow
      BY <3>1, <3>2 DEF KeyIffDocument
    <3>3. CASE keyRow[j] # NoKeyRow
      <4>1. Effects[j] = {keyRow[j].doc} /\ docs[keyRow[j].doc].body = keyRow[j].body
        BY <3>3 DEF KeyIffDocument
      <4>2. keyRow[j].doc \in 1..n
        BY <4>1, <1>e
      <4> QED BY <3>1, <3>3, <4>1, <4>2, <1>c
    <3> QED BY <3>2, <3>3
  <2> QED BY <2>1, <2>2
<1>5. NeverStuckInProgress'
  BY <1>s, <1>a DEF NeverStuckInProgress
<1>6. AnswersAgree'
  <2> SUFFICES ASSUME NEW b \in answers', b.code \in {"DONE", "REPLAYED"}
               PROVE  Effects'[b.key] = {b.doc} /\ docs'[b.doc].body = BodyOf[b.intent]
    BY DEF AnswersAgree
  <2>1. CASE b \in answers
    <3>1. Effects[b.key] = {b.doc} /\ docs[b.doc].body = BodyOf[b.intent]
      BY <2>1 DEF AnswersAgree
    <3>2. b.key \in Key
      BY <2>1 DEF TypeOK, Answer
    <3>3. b.key # k /\ b.doc \in 1..n
      BY <3>1, <3>2, <1>c, <1>e
    <3> QED BY <3>1, <3>2, <3>3, <1>t, <1>c
  <2>2. CASE b = a
    BY <2>2, <1>a, <1>t, <1>c, <1>x
  <2> QED BY <2>1, <2>2, <1>s
<1> QED BY <1>1, <1>2, <1>3, <1>4, <1>5, <1>6

-----------------------------------------------------------------------------
LEMMA NextIdempotency == IdempotencyInv /\ [Next]_vars => IdempotencyInv'
<1> SUFFICES ASSUME IdempotencyInv, [Next]_vars PROVE IdempotencyInv'
  OBVIOUS
<1>1. ASSUME NEW i \in Intent, NEW k \in Key, Send(i, k) PROVE IdempotencyInv'
  BY <1>1, SendOK
<1>2. ASSUME NEW a \in answers, Read(a) PROVE IdempotencyInv'
  BY <1>2, ReadOK
<1>3. ASSUME NEW w \in Session, NEW r \in requests, Accept(w, r) PROVE IdempotencyInv'
  BY <1>3, AcceptOK
<1>4. ASSUME NEW w \in Session, ClaimWon(w) PROVE IdempotencyInv'
  BY <1>4, ClaimWonOK
<1>5. ASSUME NEW w \in Session, ClaimLost(w) PROVE IdempotencyInv'
  BY <1>5, ClaimLostOK
<1>6. ASSUME NEW w \in Session, Commit(w) PROVE IdempotencyInv'
  BY <1>6, CommitOK
<1>7. ASSUME NEW w \in Session, Reject(w) PROVE IdempotencyInv'
  BY <1>7, RejectOK
<1>8. ASSUME NEW w \in Session, Crash(w) PROVE IdempotencyInv'
  BY <1>8, CrashOK
<1>9. ASSUME NEW d \in DOMAIN docs, Change(d) PROVE IdempotencyInv'
  BY <1>9, ChangeOK
<1>10. CASE UNCHANGED vars
  <2>1. Effects' = Effects
    BY <1>10 DEF vars, Effects
  <2>2. TypeOK' /\ WorkHoldsKey' /\ RowsAreCompleted' /\ NeverStuckInProgress'
    BY <1>10 DEF vars, IdempotencyInv, TypeOK, WorkHoldsKey, RowsAreCompleted,
       NeverStuckInProgress
  <2>3. KeyIffDocument' /\ AnswersAgree'
    BY <1>10, <2>1 DEF vars, IdempotencyInv, KeyIffDocument, AnswersAgree
  <2> QED BY <2>2, <2>3 DEF IdempotencyInv
<1> QED
  BY <1>1, <1>2, <1>3, <1>4, <1>5, <1>6, <1>7, <1>8, <1>9, <1>10 DEF Next, Step

\* The inductive invariant: besides what the runs check, who works under a key
\* holds its row alone, and no row of that key is committed.
THEOREM IdempotencyInvariant == Spec => []IdempotencyInv
BY InitIdempotency, NextIdempotency, PTL DEF Spec

\* Every committed key row, document, request and answer keeps its shape.
THEOREM IdempotencyTypes == Spec => []TypeOK
<1>1. IdempotencyInv => TypeOK
  BY DEF IdempotencyInv
<1> QED BY <1>1, IdempotencyInvariant, PTL

\* It is impossible to have a recorded key without its document, or a document
\* without its key.
THEOREM RecordedKeyHasDocument == Spec => []KeyIffDocument
<1>1. IdempotencyInv => KeyIffDocument
  BY DEF IdempotencyInv
<1> QED BY <1>1, IdempotencyInvariant, PTL

\* First and replayed answers for a key always name one and the same document.
THEOREM AllAnswersAgree == Spec => []AnswersAgree
<1>1. IdempotencyInv => AnswersAgree
  BY DEF IdempotencyInv
<1> QED BY <1>1, IdempotencyInvariant, PTL

\* Refinement: claims, crashes, retries and replays implement ExactlyOnce.
THEOREM IdempotencyImplementsExactlyOnce == Spec => ImplementsExactlyOnce
<1>1. Init => Once!Init
  BY DEF Init, Once!Init, Effects
<1>2. IdempotencyInv /\ [Next]_vars => [Once!Next]_Effects
  <2> SUFFICES ASSUME IdempotencyInv, [Next]_vars, Effects' # Effects
               PROVE  Once!Next
    OBVIOUS
  <2>1. docs' # docs
    BY DEF Effects
  <2>2. ASSUME NEW d \in DOMAIN docs, Change(d) PROVE FALSE
    <3>1. docs \in Seq(DocRow) /\ d \in 1..Len(docs)
      BY DEF IdempotencyInv, TypeOK
    <3>2. docs' = [docs EXCEPT ![d].changes = @ + 1]
      BY <2>2 DEF Change
    <3>3. Len(docs') = Len(docs)
      BY <3>1, <3>2
    <3>4. \A c \in 1..Len(docs) : docs'[c].key = docs[c].key
      <4>1. docs[d] \in DocRow
        BY <3>1
      <4>p. PICK x : x = [docs[d] EXCEPT !.changes = @ + 1]
        OBVIOUS
      <4>2. x.key = docs[d].key
        BY <4>1, <4>p DEF DocRow
      <4>3. docs' = [docs EXCEPT ![d] = x]
        BY <3>2, <4>p
      <4>4. \A c \in 1..Len(docs) : docs'[c] = IF c = d THEN x ELSE docs[c]
        BY <3>1, <4>3
      <4> QED BY <4>2, <4>4
    <3> QED BY <3>3, <3>4 DEF Effects
  <2>3. PICK w \in Session : Commit(w)
    BY <2>1, <2>2 DEF Next, Step, vars, Send, Read, Accept, ClaimWon, ClaimLost, Reject, Crash
  <2>p. PICK k, n : k = session[w].key /\ n = Len(docs)
    OBVIOUS
  <2>4. k \in Key /\ Effects[k] = {} /\ Effects' = [Effects EXCEPT ![k] = {n + 1}]
    BY <2>3, <2>p, CommitEffects
  <2>5. Effects'[k] = {n + 1}
    <3>1. Effects = [j \in Key |-> Effects[j]]
      BY DEF Effects
    <3> QED BY <3>1, <2>4
  <2>6. Once!Perform(k)
    BY <2>4, <2>5 DEF Once!Perform, Once!IsSingleton
  <2> QED BY <2>4, <2>6 DEF Once!Next
<1> QED BY <1>1, <1>2, IdempotencyInvariant, PTL DEF Spec, ImplementsExactlyOnce, Once!Spec

-----------------------------------------------------------------------------
(* Numbering                                                                 *)

\* The order in which every plan takes its rows, the audit lock apart.
Rank(r) == IF r \in Document \cup Entry \cup {AuditLock} THEN 0 ELSE IF r \in Period THEN 1 ELSE 2

Holds(t) == {r \in Row : t \in holders[r]}

\* What is still to be locked is the audit lock, is held already, or ranks above
\* all that is held and all that is locked before it.
Ascending(held, q) ==
    \A k \in 1..Len(q) :
        \/ q[k] = AuditLock
        \/ q[k] \in held
        \/ \E i \in 1..(k - 1) : q[i] = q[k]
        \/ /\ \A r \in held : Rank(r) < Rank(q[k])
           /\ \A i \in 1..(k - 1) : Rank(q[i]) < Rank(q[k])

\* A row is locked by one session, and only by a session in a transaction.
OneHolder ==
    /\ \A r \in Row : \A t, u \in holders[r] : t = u
    /\ \A r \in Row : holders[r] \subseteq active

\* The committed counter offers the number after the last one issued.
CounterFollows ==
    \A s \in Series :
        /\ issued[s] = Gapless!Counting(Len(issued[s]))
        /\ nextValue[s] = IF Len(issued[s]) = 0 THEN NoRow ELSE Len(issued[s]) + 1

OrderedLocks == \A t \in active : Ascending(Holds(t), plan[t])

NumberingInv == NumberingTypeOK /\ OneHolder /\ CounterFollows /\ TakenAreNext /\ OrderedLocks

-----------------------------------------------------------------------------
\* A plan is one of seven shapes.
LEMMA PlanShapes ==
    ASSUME NEW q \in Plan
    PROVE  \/ \E d \in Document : q = <<d, AuditLock>>
           \/ \E d \in Document, p \in Period, j \in Journal : q = <<d, p, j, AuditLock>>
           \/ \E d \in Document, p \in Period, j \in Journal : q = <<d, AuditLock, p, j>>
           \/ \E d \in Document, p \in Period, j \in Journal : q = <<d, AuditLock, p, j, p, j>>
           \/ \E p \in Period, j \in Journal : q = <<p, j, AuditLock>>
           \/ \E e \in Entry, p \in Period, j \in Journal : q = <<e, p, j, AuditLock>>
           \/ \E p \in Period : q = <<p, AuditLock>>
BY DEF Plan, Numbered, NumberedAndPosted,
     MovedAndPosted, MovedAndPostedTwice, PostedByHand, Reversed, PeriodChanged

LEMMA PlansHaveRows == Plan \subseteq Seq(Row)
<1>1. /\ Document \subseteq Row /\ Journal \subseteq Row /\ Period \subseteq Row /\ Entry \subseteq Row
      /\ AuditLock \in Row
  BY DEF Row, Series, OtherRow
<1> SUFFICES ASSUME NEW q \in Plan PROVE q \in Seq(Row)
  OBVIOUS
<1>2. CASE \E d \in Document : q = <<d, AuditLock>>
  <2> PICK d \in Document : q = <<d, AuditLock>>
    BY <1>2
  <2> QED BY <1>1
<1>3. CASE \E d \in Document, p \in Period, j \in Journal : q = <<d, p, j, AuditLock>>
  <2> PICK d \in Document, p \in Period, j \in Journal : q = <<d, p, j, AuditLock>>
    BY <1>3
  <2> QED BY <1>1
<1>4. CASE \E d \in Document, p \in Period, j \in Journal : q = <<d, AuditLock, p, j>>
  <2> PICK d \in Document, p \in Period, j \in Journal : q = <<d, AuditLock, p, j>>
    BY <1>4
  <2> QED BY <1>1
<1>5. CASE \E d \in Document, p \in Period, j \in Journal : q = <<d, AuditLock, p, j, p, j>>
  <2> PICK d \in Document, p \in Period, j \in Journal : q = <<d, AuditLock, p, j, p, j>>
    BY <1>5
  <2> QED BY <1>1
<1>6. CASE \E p \in Period, j \in Journal : q = <<p, j, AuditLock>>
  <2> PICK p \in Period, j \in Journal : q = <<p, j, AuditLock>>
    BY <1>6
  <2> QED BY <1>1
<1>7. CASE \E e \in Entry, p \in Period, j \in Journal : q = <<e, p, j, AuditLock>>
  <2> PICK e \in Entry, p \in Period, j \in Journal : q = <<e, p, j, AuditLock>>
    BY <1>7
  <2> QED BY <1>1
<1>8. CASE \E p \in Period : q = <<p, AuditLock>>
  <2> PICK p \in Period : q = <<p, AuditLock>>
    BY <1>8
  <2> QED BY <1>1
<1> QED BY <1>2, <1>3, <1>4, <1>5, <1>6, <1>7, <1>8, PlanShapes

\* Every plan takes its rows in the order of their ranks.
LEMMA PlansAscend == \A p \in Plan : Ascending({}, p)
<1> SUFFICES ASSUME NEW q \in Plan PROVE Ascending({}, q)
  OBVIOUS
<1>0. /\ \A d \in Document \cup Entry \cup {AuditLock} : Rank(d) = 0
      /\ \A p \in Period : Rank(p) = 1
      /\ \A j \in Journal : Rank(j) = 2
  BY RowAssumption DEF Rank
<1>1. CASE \E d \in Document : q = <<d, AuditLock>>
  <2> PICK d \in Document : q = <<d, AuditLock>>
    BY <1>1
  <2>1. Rank(d) = 0 /\ Rank(AuditLock) = 0
    BY <1>0
  <2> QED BY <2>1 DEF Ascending
<1>2. CASE \E d \in Document, p \in Period, j \in Journal : q = <<d, p, j, AuditLock>>
  <2> PICK d \in Document, p \in Period, j \in Journal : q = <<d, p, j, AuditLock>>
    BY <1>2
  <2>1. Rank(d) = 0 /\ Rank(p) = 1 /\ Rank(j) = 2 /\ Rank(AuditLock) = 0
    BY <1>0
  <2> QED BY <2>1 DEF Ascending
<1>3. CASE \E d \in Document, p \in Period, j \in Journal : q = <<d, AuditLock, p, j>>
  <2> PICK d \in Document, p \in Period, j \in Journal : q = <<d, AuditLock, p, j>>
    BY <1>3
  <2>1. Rank(d) = 0 /\ Rank(p) = 1 /\ Rank(j) = 2 /\ Rank(AuditLock) = 0
    BY <1>0
  <2> QED BY <2>1 DEF Ascending
<1>4. CASE \E d \in Document, p \in Period, j \in Journal : q = <<d, AuditLock, p, j, p, j>>
  <2> PICK d \in Document, p \in Period, j \in Journal : q = <<d, AuditLock, p, j, p, j>>
    BY <1>4
  <2>1. Rank(d) = 0 /\ Rank(p) = 1 /\ Rank(j) = 2 /\ Rank(AuditLock) = 0
    BY <1>0
  <2> QED BY <2>1 DEF Ascending
<1>5. CASE \E p \in Period, j \in Journal : q = <<p, j, AuditLock>>
  <2> PICK p \in Period, j \in Journal : q = <<p, j, AuditLock>>
    BY <1>5
  <2>1. Rank(p) = 1 /\ Rank(j) = 2 /\ Rank(AuditLock) = 0
    BY <1>0
  <2> QED BY <2>1 DEF Ascending
<1>6. CASE \E e \in Entry, p \in Period, j \in Journal : q = <<e, p, j, AuditLock>>
  <2> PICK e \in Entry, p \in Period, j \in Journal : q = <<e, p, j, AuditLock>>
    BY <1>6
  <2>1. Rank(e) = 0 /\ Rank(p) = 1 /\ Rank(j) = 2 /\ Rank(AuditLock) = 0
    BY <1>0
  <2> QED BY <2>1 DEF Ascending
<1>7. CASE \E p \in Period : q = <<p, AuditLock>>
  <2> PICK p \in Period : q = <<p, AuditLock>>
    BY <1>7
  <2>1. Rank(p) = 1 /\ Rank(AuditLock) = 0
    BY <1>0
  <2> QED BY <2>1 DEF Ascending
<1> QED BY <1>1, <1>2, <1>3, <1>4, <1>5, <1>6, <1>7, PlanShapes

\* Locking the next row of a plan keeps the rest in order.
LEMMA AscendingTail ==
    ASSUME NEW held, NEW q \in Seq(Row), q # <<>>, Ascending(held, q)
    PROVE  Ascending(held \cup {Head(q)}, Tail(q))
<1> DEFINE n == Len(q)
           more == held \cup {Head(q)}
<1>1. n \in Nat /\ n >= 1 /\ Len(Tail(q)) = n - 1 /\ Head(q) = q[1]
  OBVIOUS
<1>2. \A k \in 1..(n - 1) : Tail(q)[k] = q[k + 1]
  OBVIOUS
<1> SUFFICES ASSUME NEW k \in 1..(n - 1)
             PROVE  \/ q[k + 1] = AuditLock
                    \/ q[k + 1] \in more
                    \/ \E i \in 1..(k - 1) : q[i + 1] = q[k + 1]
                    \/ /\ \A r \in more : Rank(r) < Rank(q[k + 1])
                       /\ \A i \in 1..(k - 1) : Rank(q[i + 1]) < Rank(q[k + 1])
  <2> \A k, i : k \in 1..(n - 1) /\ i \in 1..(k - 1) => i \in 1..(n - 1)
    BY <1>1
  <2> HIDE DEF more
  <2> QED BY <1>1, <1>2 DEF Ascending, more
<1>3. k + 1 \in 1..n
  BY <1>1
<1>4. CASE q[k + 1] \in held
  BY <1>4
<1>5. CASE \E i \in 1..k : q[i] = q[k + 1]
  <2> PICK i \in 1..k : q[i] = q[k + 1]
    BY <1>5
  <2>1. CASE i = 1
    BY <2>1, <1>1
  <2>2. CASE i # 1
    <3> i - 1 \in 1..(k - 1) /\ (i - 1) + 1 = i
      BY <2>2
    <3> QED OBVIOUS
  <2> QED BY <2>1, <2>2
<1>6. CASE /\ \A r \in held : Rank(r) < Rank(q[k + 1])
           /\ \A i \in 1..k : Rank(q[i]) < Rank(q[k + 1])
  <2>1. 1 \in 1..k /\ \A i \in 1..(k - 1) : i + 1 \in 1..k
    BY <1>1
  <2> QED BY <2>1, <1>6, <1>1
<1> QED
  <2> (k + 1) - 1 = k
    BY <1>1
  <2> QED BY <1>3, <1>4, <1>5, <1>6 DEF Ascending

-----------------------------------------------------------------------------
LEMMA InitNumbering == NumberingInit => NumberingInv
<1> SUFFICES ASSUME NumberingInit PROVE NumberingInv
  OBVIOUS
<1>1. NumberingTypeOK
  BY DEF NumberingInit, NumberingTypeOK, NoRow
<1>2. OneHolder /\ OrderedLocks
  BY DEF NumberingInit, OneHolder, OrderedLocks
<1>3. CounterFollows
  BY DEF NumberingInit, CounterFollows, Gapless!Counting
<1>4. TakenAreNext
  BY DEF NumberingInit, TakenAreNext, Row
<1> QED BY <1>1, <1>2, <1>3, <1>4 DEF NumberingInv

LEMMA BeginOK ==
    ASSUME NumberingInv, NEW t \in Txn, NEW p \in Plan, Begin(t, p)
    PROVE  NumberingInv'
<1> USE DEF NumberingInv
<1>1. NumberingTypeOK'
  BY PlansHaveRows DEF NumberingTypeOK, Begin
<1>2. OneHolder'
  BY DEF OneHolder, Begin
<1>3. CounterFollows'
  BY DEF CounterFollows, Begin
<1>4. TakenAreNext'
  BY DEF TakenAreNext, Begin
<1>5. OrderedLocks'
  <2> SUFFICES ASSUME NEW u \in active' PROVE Ascending(Holds(u)', plan'[u])
    BY DEF OrderedLocks
  <2>1. Holds(u)' = Holds(u)
    BY DEF Holds, Begin
  <2>2. CASE u = t
    <3>1. Holds(t) = {}
      BY DEF Holds, OneHolder, Begin
    <3>2. plan'[t] = p
      BY DEF Begin, NumberingTypeOK
    <3> QED BY <2>1, <2>2, <3>1, <3>2, PlansAscend
  <2>3. CASE u # t
    <3> u \in active /\ plan'[u] = plan[u]
      BY <2>3 DEF Begin, NumberingTypeOK
    <3> QED BY <2>1 DEF OrderedLocks
  <2> QED BY <2>2, <2>3
<1> QED BY <1>1, <1>2, <1>3, <1>4, <1>5

\* Locking the head of a plan keeps the locks single and in order.
LEMMA LockKeepsOrder ==
    ASSUME NumberingInv, NEW t \in Txn, NEW r \in Row, MayLock(t, r),
           holders' = [holders EXCEPT ![r] = @ \cup {t}],
           plan' = [plan EXCEPT ![t] = Tail(@)],
           active' = active
    PROVE  /\ OneHolder' /\ OrderedLocks'
           /\ holders' \in [Row -> SUBSET Txn] /\ plan' \in [Txn -> Seq(Row)]
<1> USE DEF NumberingInv
<1>1. t \in active /\ plan[t] # <<>> /\ r = Head(plan[t]) /\ holders[r] \subseteq {t}
  BY DEF MayLock
<1>2. plan \in [Txn -> Seq(Row)] /\ holders \in [Row -> SUBSET Txn]
  BY DEF NumberingTypeOK
<1>3. holders' \in [Row -> SUBSET Txn] /\ plan' \in [Txn -> Seq(Row)]
  BY <1>1, <1>2
<1>4. OneHolder'
  BY <1>1, <1>2 DEF OneHolder
<1>5. OrderedLocks'
  <2> SUFFICES ASSUME NEW u \in active' PROVE Ascending(Holds(u)', plan'[u])
    BY DEF OrderedLocks
  <2>0. u \in active /\ Ascending(Holds(u), plan[u]) /\ u \in Txn
    BY DEF OrderedLocks, NumberingTypeOK
  <2>1. CASE u = t
    <3>1. Holds(t)' = Holds(t) \cup {r}
      BY <1>2 DEF Holds
    <3>2. plan'[t] = Tail(plan[t])
      BY <1>2
    <3>3. Ascending(Holds(t) \cup {Head(plan[t])}, Tail(plan[t]))
      BY <2>0, <2>1, <1>1, <1>2, AscendingTail
    <3> QED BY <2>1, <3>1, <3>2, <3>3, <1>1
  <2>2. CASE u # t
    <3>1. Holds(u)' = Holds(u)
      BY <1>2, <2>2 DEF Holds
    <3>2. plan'[u] = plan[u]
      BY <1>2, <2>2, <2>0
    <3> QED BY <2>0, <3>1, <3>2
  <2> QED BY <2>1, <2>2
<1> QED BY <1>3, <1>4, <1>5

LEMMA LockRowOK ==
    ASSUME NumberingInv, NEW t \in Txn, NEW r \in OtherRow, LockRow(t, r)
    PROVE  NumberingInv'
<1> USE DEF NumberingInv
<1>1. r \in Row /\ r \notin Series
  BY RowAssumption DEF Row, OtherRow, Series
<1>2. OneHolder' /\ OrderedLocks' /\ holders' \in [Row -> SUBSET Txn] /\ plan' \in [Txn -> Seq(Row)]
  BY <1>1, LockKeepsOrder DEF LockRow
<1>3. NumberingTypeOK'
  BY <1>2 DEF NumberingTypeOK, LockRow
<1>4. CounterFollows'
  BY DEF CounterFollows, LockRow
<1>5. TakenAreNext'
  <2> \A s \in Series : holders'[s] = holders[s]
    BY <1>1 DEF LockRow, NumberingTypeOK, Row
  <2> QED BY DEF TakenAreNext, LockRow
<1> QED BY <1>2, <1>3, <1>4, <1>5

LEMMA AppendFacts ==
    ASSUME NEW S, NEW q \in Seq(S), NEW x \in S
    PROVE  /\ Append(q, x) \in Seq(S) /\ Append(q, x) # <<>> /\ Len(Append(q, x)) = Len(q) + 1
           /\ Append(q, x)[Len(q) + 1] = x /\ \A i \in 1..Len(q) : Append(q, x)[i] = q[i]
OBVIOUS

\* A run of numbers extended by its next number.
LEMMA RunExtends ==
    ASSUME NEW q \in Seq(Nat \ {0}), NEW n \in Nat, NEW x \in Nat \ {0},
           \A i \in 1..Len(q) : q[i] = n + i, x = n + Len(q) + 1
    PROVE  /\ Append(q, x) \in Seq(Nat \ {0}) /\ Append(q, x) # <<>>
           /\ Len(Append(q, x)) = Len(q) + 1
           /\ \A i \in 1..Len(Append(q, x)) : Append(q, x)[i] = n + i
<1> PICK k, r : k = Len(q) /\ r = Append(q, x)
  OBVIOUS
<1>1. /\ r \in Seq(Nat \ {0}) /\ r # <<>> /\ Len(r) = k + 1
      /\ r[k + 1] = x /\ \A i \in 1..k : r[i] = q[i]
  BY AppendFacts
<1>2. k \in Nat
  OBVIOUS
<1>3. \A i \in 1..(k + 1) : i \in 1..k \/ i = k + 1
  BY <1>2
<1>4. x = n + (k + 1)
  BY <1>2
<1>5. \A i \in 1..(k + 1) : r[i] = n + i
  BY <1>1, <1>3, <1>4
<1> QED BY <1>1, <1>5

\* The upsert offers the number after the n issued and the k already taken.
LEMMA UpsertOwn == ASSUME NEW n \in Nat, NEW k \in Nat PROVE Upserted(n + k + 1) = n + k + 2
BY DEF Upserted, NoRow

LEMMA UpsertCommitted ==
    ASSUME NEW n \in Nat
    PROVE  Upserted(IF n = 0 THEN NoRow ELSE n + 1) = n + 2
BY DEF Upserted, NoRow

LEMMA AllocateOK ==
    ASSUME NumberingInv, NEW t \in Txn, NEW s \in Series, Allocate(t, s)
    PROVE  NumberingInv'
<1> USE DEF NumberingInv
<1>0. s \in Row
  BY DEF Row
<1>1. OneHolder' /\ OrderedLocks' /\ holders' \in [Row -> SUBSET Txn] /\ plan' \in [Txn -> Seq(Row)]
  BY <1>0, LockKeepsOrder DEF Allocate
<1>p. PICK old, new, n, q, k :
        /\ old = IF t \in holders[s] THEN mine[t][s] ELSE nextValue[s]
        /\ new = Upserted(old)
        /\ n = Len(issued[s])
        /\ q = taken[t][s]
        /\ k = Len(q)
  OBVIOUS
<1>2. /\ holders' = [holders EXCEPT ![s] = @ \cup {t}]
      /\ mine' = [mine EXCEPT ![t][s] = new]
      /\ taken' = [taken EXCEPT ![t][s] = Append(@, new - 1)]
      /\ nextValue' = nextValue /\ issued' = issued /\ active' = active
      /\ holders[s] \subseteq {t}
  BY <1>p DEF Allocate, MayLock
<1>3. n \in Nat /\ q \in Seq(Nat \ {0}) /\ k \in Nat /\ k = Len(q)
  <2>1. issued[s] \in Seq(Nat \ {0}) /\ taken[t][s] \in Seq(Nat \ {0})
    BY DEF NumberingTypeOK
  <2> QED BY <2>1, <1>p
\* The upsert hands out the number after those issued and those already taken.
<1>4. new = n + k + 2 /\ \A i \in 1..k : q[i] = n + i
  <2>1. CASE t \in holders[s]
    <3>1. mine[t][s] = n + k + 1 /\ \A i \in 1..k : q[i] = n + i
      BY <1>p, <2>1 DEF TakenAreNext
    <3>2. new = Upserted(n + k + 1)
      BY <1>p, <2>1, <3>1
    <3> QED BY <3>1, <3>2, <1>3, UpsertOwn
  <2>2. CASE t \notin holders[s]
    <3>1. q = <<>>
      BY <1>p, <2>2 DEF TakenAreNext
    <3>2. k = 0
      BY <1>3, <3>1
    <3>3. nextValue[s] = IF n = 0 THEN NoRow ELSE n + 1
      BY <1>p DEF CounterFollows
    <3>4. new = Upserted(nextValue[s])
      BY <1>p, <2>2
    <3>5. new = n + 2
      BY <3>3, <3>4, <1>3, UpsertCommitted
    <3> QED BY <3>2, <3>5, <1>3
  <2> QED BY <2>1, <2>2
<1>40. new \in Nat \ {1} /\ new - 1 \in Nat \ {0} /\ new - 1 = n + Len(q) + 1
  <2>1. \A a, b \in Nat : /\ a + b + 2 \in Nat \ {1} /\ (a + b + 2) - 1 \in Nat \ {0}
                         /\ (a + b + 2) - 1 = a + b + 1
    OBVIOUS
  <2> QED BY <2>1, <1>3, <1>4
<1>5. mine \in [Txn -> [Series -> Nat \ {1}]] /\ taken \in [Txn -> [Series -> Seq(Nat \ {0})]]
  BY DEF NumberingTypeOK
<1>r. PICK r : r = Append(q, new - 1)
  OBVIOUS
<1>6. /\ r \in Seq(Nat \ {0}) /\ r # <<>> /\ Len(r) = k + 1
      /\ \A i \in 1..Len(r) : r[i] = n + i
  <2>x. PICK x : x = new - 1
    OBVIOUS
  <2>1. /\ q \in Seq(Nat \ {0}) /\ n \in Nat /\ x \in Nat \ {0}
        /\ \A i \in 1..Len(q) : q[i] = n + i
        /\ x = n + Len(q) + 1
    BY <1>3, <1>4, <1>40, <2>x
  <2>2. /\ Append(q, x) \in Seq(Nat \ {0}) /\ Append(q, x) # <<>>
        /\ Len(Append(q, x)) = Len(q) + 1
        /\ \A i \in 1..Len(Append(q, x)) : Append(q, x)[i] = n + i
    BY <2>1, RunExtends, Zenon
  <2> QED BY <2>2, <2>x, <1>r, <1>3, Zenon
<1>7. taken' = [taken EXCEPT ![t][s] = r]
  BY <1>2, <1>r, <1>p
<1>8. taken'[t][s] = r /\ mine'[t][s] = new /\ t \in holders'[s]
  BY <1>0, <1>2, <1>5, <1>7 DEF NumberingTypeOK
<1>9. mine' \in [Txn -> [Series -> Nat \ {1}]] /\ taken' \in [Txn -> [Series -> Seq(Nat \ {0})]]
  BY <1>2, <1>40, <1>5, <1>6, <1>7
<1>10. NumberingTypeOK'
  BY <1>1, <1>2, <1>9 DEF NumberingTypeOK
<1>11. CounterFollows'
  BY <1>2 DEF CounterFollows
<1>12. TakenAreNext'
  <2> SUFFICES ASSUME NEW z \in Series, NEW u \in Txn
               PROVE  IF u \in holders'[z]
                      THEN /\ holders'[z] = {u}
                           /\ mine'[u][z] = Len(issued[z]) + Len(taken'[u][z]) + 1
                           /\ taken'[u][z] # <<>>
                           /\ \A i \in 1..Len(taken'[u][z]) : taken'[u][z][i] = Len(issued[z]) + i
                      ELSE taken'[u][z] = <<>>
    BY <1>2 DEF TakenAreNext
  <2>1. CASE z = s /\ u = t
    <3>1. holders'[s] = {t}
      BY <1>0, <1>2, <1>8 DEF NumberingTypeOK
    <3>2. new = n + Len(r) + 1
      BY <1>4, <1>6, <1>3
    <3> QED BY <2>1, <3>1, <3>2, <1>6, <1>8, <1>p
  <2>2. CASE z # s \/ u # t
    <3>1. mine'[u][z] = mine[u][z] /\ taken'[u][z] = taken[u][z]
      BY <2>2, <1>2, <1>5, <1>7
    <3>2. CASE z = s
      <4>1. u # t /\ u \notin holders[s] /\ u \notin holders'[s]
        BY <2>2, <3>2, <1>0, <1>2 DEF NumberingTypeOK
      <4>2. taken[u][s] = <<>>
        BY <4>1 DEF TakenAreNext
      <4> QED BY <3>1, <3>2, <4>1, <4>2
    <3>3. CASE z # s
      <4>1. holders'[z] = holders[z]
        BY <3>3, <1>2 DEF NumberingTypeOK, Row
      <4> QED BY <3>1, <4>1 DEF TakenAreNext
    <3> QED BY <3>2, <3>3
  <2> QED BY <2>1, <2>2
<1> QED BY <1>1, <1>10, <1>11, <1>12

\* A session that ends releases its rows and keeps nothing.
LEMMA EndKeepsOrder ==
    ASSUME NumberingInv, NEW t \in Txn, EndTransaction(t)
    PROVE  /\ OneHolder' /\ OrderedLocks'
           /\ holders' \in [Row -> SUBSET Txn] /\ plan' \in [Txn -> Seq(Row)]
           /\ active' \subseteq Txn
           /\ mine' \in [Txn -> [Series -> Nat \ {1}]]
           /\ taken' \in [Txn -> [Series -> Seq(Nat \ {0})]]
<1> USE DEF NumberingInv
<1>1. OneHolder'
  BY DEF OneHolder, EndTransaction
<1>2. OrderedLocks'
  <2> SUFFICES ASSUME NEW u \in active' PROVE Ascending(Holds(u)', plan'[u])
    BY DEF OrderedLocks
  <2>1. u \in active /\ u # t /\ u \in Txn
    BY DEF EndTransaction, NumberingTypeOK
  <2>2. plan'[u] = plan[u]
    BY <2>1 DEF EndTransaction, NumberingTypeOK
  <2>3. Holds(u)' = Holds(u)
    BY <2>1 DEF EndTransaction, Holds
  <2> QED BY <2>1, <2>2, <2>3 DEF OrderedLocks
<1>3. holders' \in [Row -> SUBSET Txn] /\ plan' \in [Txn -> Seq(Row)] /\ active' \subseteq Txn
  BY DEF EndTransaction, NumberingTypeOK
<1>4. /\ mine' \in [Txn -> [Series -> Nat \ {1}]]
      /\ taken' \in [Txn -> [Series -> Seq(Nat \ {0})]]
  <2>1. /\ [z \in Series |-> NoRow] \in [Series -> Nat \ {1}]
        /\ [z \in Series |-> <<>>] \in [Series -> Seq(Nat \ {0})]
    BY DEF NoRow
  <2> QED BY <2>1 DEF EndTransaction, NumberingTypeOK
<1> QED BY <1>1, <1>2, <1>3, <1>4

\* After a session ends, the others still have the next numbers of the series
\* they hold, if nothing was issued in those.
LEMMA EndKeepsTaken ==
    ASSUME NumberingInv, NEW t \in Txn, EndTransaction(t),
           \A z \in Series : t \notin holders[z] => issued'[z] = issued[z]
    PROVE  TakenAreNext'
<1> USE DEF NumberingInv
<1> SUFFICES ASSUME NEW z \in Series, NEW u \in Txn
             PROVE  IF u \in holders'[z]
                    THEN /\ holders'[z] = {u}
                         /\ mine'[u][z] = Len(issued'[z]) + Len(taken'[u][z]) + 1
                         /\ taken'[u][z] # <<>>
                         /\ \A i \in 1..Len(taken'[u][z]) : taken'[u][z][i] = Len(issued'[z]) + i
                    ELSE taken'[u][z] = <<>>
  BY DEF TakenAreNext
<1>0. z \in Row /\ holders'[z] = holders[z] \ {t}
  BY DEF EndTransaction, Row
<1>1. CASE u = t
  BY <1>0, <1>1 DEF EndTransaction, NumberingTypeOK
<1>2. CASE u # t
  <2>1. mine'[u][z] = mine[u][z] /\ taken'[u][z] = taken[u][z]
    BY <1>2 DEF EndTransaction, NumberingTypeOK
  <2>2. CASE u \in holders[z]
    <3>1. holders[z] = {u} /\ t \notin holders[z]
      BY <1>2, <2>2 DEF TakenAreNext
    <3>2. issued'[z] = issued[z] /\ holders'[z] = {u}
      BY <3>1, <1>0
    <3> QED BY <2>1, <2>2, <3>2 DEF TakenAreNext
  <2>3. CASE u \notin holders[z]
    <3> taken[u][z] = <<>>
      BY <2>3 DEF TakenAreNext
    <3> QED BY <2>1, <2>3, <1>0
  <2> QED BY <2>2, <2>3
<1> QED BY <1>1, <1>2

LEMMA RollbackOK ==
    ASSUME NumberingInv, NEW t \in Txn, Rollback(t)
    PROVE  NumberingInv'
<1> USE DEF NumberingInv
<1>1. EndTransaction(t) /\ nextValue' = nextValue /\ issued' = issued
  BY DEF Rollback
<1>2. NumberingTypeOK' /\ OneHolder' /\ OrderedLocks'
  BY <1>1, EndKeepsOrder DEF NumberingTypeOK
<1>3. TakenAreNext'
  BY <1>1, EndKeepsTaken
<1>4. CounterFollows'
  BY <1>1 DEF CounterFollows
<1> QED BY <1>2, <1>3, <1>4

LEMMA ConcatFacts ==
    ASSUME NEW S, NEW a \in Seq(S), NEW b \in Seq(S)
    PROVE  /\ a \o b \in Seq(S) /\ Len(a \o b) = Len(a) + Len(b)
           /\ \A i \in 1..(Len(a) + Len(b)) :
                 (a \o b)[i] = IF i <= Len(a) THEN a[i] ELSE b[i - Len(a)]
OBVIOUS

\* A gapless series continued by its next numbers is gapless.
LEMMA CountingContinues ==
    ASSUME NEW a \in Seq(Nat \ {0}), NEW b \in Seq(Nat \ {0}),
           a = Gapless!Counting(Len(a)), \A i \in 1..Len(b) : b[i] = Len(a) + i
    PROVE  /\ a \o b = Gapless!Counting(Len(a \o b))
           /\ Len(a \o b) = Len(a) + Len(b)
           /\ a \o b \in Seq(Nat \ {0})
<1> PICK n, k : n = Len(a) /\ k = Len(b)
  OBVIOUS
<1>0. n \in Nat /\ k \in Nat
  OBVIOUS
<1>1. n \in Nat /\ k \in Nat /\ Len(a \o b) = n + k /\ a \o b \in Seq(Nat \ {0})
  BY <1>0, ConcatFacts
<1>2. \A i \in 1..(n + k) : (a \o b)[i] = IF i <= n THEN a[i] ELSE b[i - n]
  BY ConcatFacts
<1>3. \A i \in 1..(n + k) : (a \o b)[i] = i
  <2> SUFFICES ASSUME NEW i \in 1..(n + k) PROVE (a \o b)[i] = i
    OBVIOUS
  <2>1. CASE i <= n
    <3>1. i \in 1..n
      BY <2>1, <1>1
    <3>2. a[i] = i
      BY <3>1 DEF Gapless!Counting
    <3> QED BY <1>2, <2>1, <3>2
  <2>2. CASE ~(i <= n)
    <3>1. i - n \in 1..k /\ n + (i - n) = i
      BY <2>2, <1>1
    <3>2. b[i - n] = i
      BY <3>1
    <3> QED BY <1>2, <2>2, <3>2
  <2> QED BY <2>1, <2>2
<1>4. a \o b = [i \in 1..(n + k) |-> (a \o b)[i]]
  <2>1. \A q \in Seq(Nat \ {0}) : q = [i \in 1..Len(q) |-> q[i]]
    OBVIOUS
  <2> QED BY <1>1, <2>1, Zenon
<1>5. [i \in 1..(n + k) |-> (a \o b)[i]] = [i \in 1..(n + k) |-> i]
  BY <1>3
<1> QED BY <1>1, <1>4, <1>5 DEF Gapless!Counting

LEMMA CommitSeries ==
    ASSUME NumberingInv, NEW t \in Txn, CommitNumbers(t), NEW z \in Series
    PROVE  /\ issued'[z] = Gapless!Counting(Len(issued'[z]))
           /\ nextValue'[z] = IF Len(issued'[z]) = 0 THEN NoRow ELSE Len(issued'[z]) + 1
           /\ issued'[z] \in Seq(Nat \ {0}) /\ nextValue'[z] \in Nat \ {1}
           /\ Len(issued[z]) <= Len(issued'[z])
           /\ t \notin holders[z] => issued'[z] = issued[z]
<1> USE DEF NumberingInv
<1>p. PICK a, b : a = issued[z] /\ b = taken[t][z]
  OBVIOUS
<1>1. /\ a \in Seq(Nat \ {0}) /\ b \in Seq(Nat \ {0}) /\ nextValue[z] \in Nat \ {1}
      /\ a = Gapless!Counting(Len(a))
      /\ nextValue[z] = IF Len(a) = 0 THEN NoRow ELSE Len(a) + 1
  BY <1>p DEF NumberingTypeOK, CounterFollows
<1>2. /\ issued'[z] = a \o b
      /\ nextValue'[z] = IF t \in holders[z] THEN mine[t][z] ELSE nextValue[z]
  BY <1>p DEF CommitNumbers
<1>3. Len(a) \in Nat /\ Len(b) \in Nat
  BY <1>1
<1>4. CASE t \in holders[z]
  <2>1. /\ mine[t][z] = Len(a) + Len(b) + 1 /\ b # <<>>
        /\ \A i \in 1..Len(b) : b[i] = Len(a) + i
    BY <1>4, <1>p DEF TakenAreNext
  <2>2. /\ a \o b = Gapless!Counting(Len(a \o b)) /\ Len(a \o b) = Len(a) + Len(b)
        /\ a \o b \in Seq(Nat \ {0})
    BY <1>1, <2>1, CountingContinues
  <2>3. Len(b) # 0
    BY <1>1, <2>1
  <2>p. PICK n, k, c : n = Len(a) /\ k = Len(b) /\ c = a \o b
    OBVIOUS
  <2>4. /\ n \in Nat /\ k \in Nat \ {0} /\ Len(c) = n + k /\ nextValue'[z] = n + k + 1
        /\ issued'[z] = c
    BY <1>2, <1>3, <1>4, <2>1, <2>2, <2>3, <2>p
  <2>5. /\ nextValue'[z] = IF Len(c) = 0 THEN NoRow ELSE Len(c) + 1
        /\ nextValue'[z] \in Nat \ {1} /\ n <= Len(c)
    BY <2>4
  <2> QED BY <1>4, <1>p, <2>2, <2>4, <2>5, <2>p
<1>5. CASE t \notin holders[z]
  <2>1. b = <<>>
    BY <1>5, <1>p DEF TakenAreNext
  <2>2. a \o b = a
    BY <1>1, <2>1
  <2>3. issued'[z] = a /\ nextValue'[z] = nextValue[z]
    BY <1>2, <1>5, <2>2
  <2> QED BY <1>1, <1>3, <1>p, <2>3
<1> QED BY <1>4, <1>5

LEMMA CommitNumbersOK ==
    ASSUME NumberingInv, NEW t \in Txn, CommitNumbers(t)
    PROVE  NumberingInv'
<1> USE DEF NumberingInv
<1>1. EndTransaction(t)
  BY DEF CommitNumbers
<1>2. \A z \in Series :
        /\ issued'[z] = Gapless!Counting(Len(issued'[z]))
        /\ nextValue'[z] = IF Len(issued'[z]) = 0 THEN NoRow ELSE Len(issued'[z]) + 1
        /\ issued'[z] \in Seq(Nat \ {0}) /\ nextValue'[z] \in Nat \ {1}
        /\ t \notin holders[z] => issued'[z] = issued[z]
  BY CommitSeries
<1>3. issued' \in [Series -> Seq(Nat \ {0})] /\ nextValue' \in [Series -> Nat \ {1}]
  <2>1. issued' = [z \in Series |-> issued'[z]] /\ nextValue' = [z \in Series |-> nextValue'[z]]
    BY DEF CommitNumbers
  <2> QED BY <1>2, <2>1
<1>4. NumberingTypeOK' /\ OneHolder' /\ OrderedLocks'
  BY <1>1, <1>3, EndKeepsOrder DEF NumberingTypeOK
<1>5. TakenAreNext'
  BY <1>1, <1>2, EndKeepsTaken
<1>6. CounterFollows'
  BY <1>2 DEF CounterFollows
<1> QED BY <1>4, <1>5, <1>6

-----------------------------------------------------------------------------
LEMMA NextNumbering == NumberingInv /\ [NumberingNext]_numbering => NumberingInv'
<1> SUFFICES ASSUME NumberingInv, [NumberingNext]_numbering PROVE NumberingInv'
  OBVIOUS
<1>1. ASSUME NEW t \in Txn, NEW p \in Plan, Begin(t, p) PROVE NumberingInv'
  BY <1>1, BeginOK
<1>2. ASSUME NEW t \in Txn, NEW s \in Series, Allocate(t, s) PROVE NumberingInv'
  BY <1>2, AllocateOK
<1>3. ASSUME NEW t \in Txn, NEW r \in OtherRow, LockRow(t, r) PROVE NumberingInv'
  BY <1>3, LockRowOK
<1>4. ASSUME NEW t \in Txn, Rollback(t) PROVE NumberingInv'
  BY <1>4, RollbackOK
<1>5. ASSUME NEW t \in Txn, CommitNumbers(t) PROVE NumberingInv'
  BY <1>5, CommitNumbersOK
<1>6. CASE UNCHANGED numbering
  <2>1. NumberingTypeOK' /\ OneHolder' /\ CounterFollows' /\ TakenAreNext'
    BY <1>6 DEF numbering, NumberingInv, NumberingTypeOK, OneHolder, CounterFollows, TakenAreNext
  <2>2. OrderedLocks'
    <3> \A u : Holds(u)' = Holds(u)
      BY <1>6 DEF numbering, Holds
    <3> QED BY <1>6 DEF numbering, NumberingInv, OrderedLocks
  <2> QED BY <2>1, <2>2 DEF NumberingInv
<1> QED BY <1>1, <1>2, <1>3, <1>4, <1>5, <1>6 DEF NumberingNext

\* The inductive invariant: types, single holders, counters that follow the
\* issued numbers, taken numbers that continue them, locks in rank order.
THEOREM NumberingInvariant == NumberingSpec => []NumberingInv
BY InitNumbering, NextNumbering, PTL DEF NumberingSpec

\* Types: allocated and committed numbers are positive, a counter never below 2.
THEOREM NumberingTypes == NumberingSpec => []NumberingTypeOK
<1>1. NumberingInv => NumberingTypeOK
  BY DEF NumberingInv
<1> QED BY <1>1, NumberingInvariant, PTL

\* A number handed out by allocate is final: the holders of a series has exactly
\* the numbers that follow the committed ones, whatever other sessions do.
THEOREM AllocatedNumbersAreNext == NumberingSpec => []TakenAreNext
<1>1. NumberingInv => TakenAreNext
  BY DEF NumberingInv
<1> QED BY <1>1, NumberingInvariant, PTL

\* A row that blocks a session is the audit lock, or ranks above every row the
\* session holds.
LEMMA BlockedRanks ==
    ASSUME NumberingInv, NEW t \in Txn, NEW u \in Txn, Blocked(t, u)
    PROVE  /\ Head(plan[t]) \in Row /\ u \in holders[Head(plan[t])]
           /\ Head(plan[t]) = AuditLock \/ \A r \in Holds(t) : Rank(r) < Rank(Head(plan[t]))
<1>1. t \in active /\ plan[t] # <<>> /\ u # t /\ u \in holders[Head(plan[t])]
  BY DEF Blocked
<1>2. plan[t] \in Seq(Row)
  BY DEF NumberingInv, NumberingTypeOK
<1>3. 1 \in 1..Len(plan[t]) /\ Head(plan[t]) = plan[t][1] /\ Head(plan[t]) \in Row
  BY <1>1, <1>2
<1>4. Head(plan[t]) \notin Holds(t)
  BY <1>1, <1>3 DEF NumberingInv, OneHolder, Holds
<1>5. Ascending(Holds(t), plan[t])
  BY <1>1 DEF NumberingInv, OrderedLocks
<1>6. ~ \E i \in 1..(1 - 1) : plan[t][i] = plan[t][1]
  OBVIOUS
<1>7. plan[t][1] = AuditLock \/ \A r \in Holds(t) : Rank(r) < Rank(plan[t][1])
  BY <1>3, <1>4, <1>5, <1>6 DEF Ascending
<1> QED BY <1>1, <1>3, <1>7

\* Any number of sessions that number, post, reverse and close periods wait in a
\* circle only if one of them waits for the audit chain's lock.  Along a circle
\* without it the ranks of the awaited rows would rise for ever, and there are
\* three of them.
THEOREM CirclesGoThroughTheAuditLock == NumberingSpec => []CirclesNeedTheAuditLock
<1>1. NumberingInv => CirclesNeedTheAuditLock
  <2> SUFFICES ASSUME NumberingInv, NEW waiting \in SUBSET Txn, Circle(waiting),
                      \A t \in waiting : Head(plan[t]) # AuditLock
               PROVE  FALSE
    BY DEF CirclesNeedTheAuditLock
  <2>1. ASSUME NEW t \in waiting
        PROVE  \E u \in waiting : Rank(Head(plan[t])) < Rank(Head(plan[u]))
    <3>1. PICK u \in waiting : Blocked(t, u)
      BY DEF Circle
    <3>2. PICK v \in waiting : Blocked(u, v)
      BY DEF Circle
    <3>3. Head(plan[t]) \in Holds(u)
      BY <3>1, BlockedRanks DEF Holds
    <3>4. \A r \in Holds(u) : Rank(r) < Rank(Head(plan[u]))
      BY <3>2, BlockedRanks
    <3> QED BY <3>3, <3>4
  <2>2. \A r : Rank(r) \in 0..2
    BY DEF Rank
  <2>3. PICK t0 \in waiting : TRUE
    BY DEF Circle
  <2>4. PICK t1 \in waiting : Rank(Head(plan[t0])) < Rank(Head(plan[t1]))
    BY <2>1
  <2>5. PICK t2 \in waiting : Rank(Head(plan[t1])) < Rank(Head(plan[t2]))
    BY <2>1
  <2>6. PICK t3 \in waiting : Rank(Head(plan[t2])) < Rank(Head(plan[t3]))
    BY <2>1
  <2>7. \A a, b, c, d \in 0..2 : ~(a < b /\ b < c /\ c < d)
    OBVIOUS
  <2> QED BY <2>2, <2>4, <2>5, <2>6, <2>7
<1> QED BY <1>1, NumberingInvariant, PTL

\* Refinement: every behaviour of the allocator inside its transactions, with
\* rollbacks at any point, is a behaviour of GaplessSeries.
THEOREM NumberingImplementsGapless == NumberingSpec => ImplementsGapless
<1>1. NumberingInit => Gapless!Init
  BY DEF NumberingInit, Gapless!Init
<1>2. NumberingInv /\ NumberingInv' /\ [NumberingNext]_numbering => [Gapless!Next]_issued
  <2> SUFFICES ASSUME NumberingInv, NumberingInv', [NumberingNext]_numbering, issued' # issued
               PROVE  Gapless!Next
    OBVIOUS
  <2>1. PICK t \in Txn : CommitNumbers(t)
    BY DEF NumberingNext, numbering, Begin, Allocate, LockRow, Rollback
  <2> SUFFICES ASSUME NEW z \in Series
               PROVE  /\ Len(issued[z]) <= Len(issued'[z])
                      /\ issued'[z] = Gapless!Counting(Len(issued'[z]))
    BY DEF Gapless!Next
  <2> QED BY <2>1, CommitSeries
<1> QED BY <1>1, <1>2, NumberingInvariant, PTL DEF NumberingSpec, ImplementsGapless, Gapless!Spec

-----------------------------------------------------------------------------
(* The outbox *)

\* A row is held by one worker, which is draining; what a worker still has to
\* dispatch it holds.
OneWorkerPerRow ==
    /\ \A e \in Event : \A w, v \in claimedBy[e] : w = v
    /\ \A e \in Event : claimedBy[e] \subseteq draining
    /\ \A w \in Worker : \A e \in batch[w] : w \in claimedBy[e]

\* What a worker holds was due when it was claimed, and still is.
HeldRowsAreDue ==
    \A e \in Event : claimedBy[e] # {} =>
        /\ ~row[e].sent /\ row[e].wait = 0 /\ row[e].attempts < MaxAttempts

\* Until it is dispatched the image is the committed row; then it has one more
\* attempt, and is sent after a delivery or carries an error.
ImagesFollow ==
    \A e \in Event : \A w \in claimedBy[e] :
        IF e \in batch[w] THEN image[e] = row[e]
        ELSE /\ image[e].attempts = row[e].attempts + 1
             /\ image[e].sent => delivered[e] > 0 /\ image[e].wait = 0
             /\ ~image[e].sent => image[e].failed

\* Deliveries that no attempt accounts for were undone by a crash.
DeliveriesCounted ==
    \A e \in Event :
        delivered[e] <= (IF claimedBy[e] = {} THEN row[e].attempts ELSE image[e].attempts) + crashes

\* A sent event waits for nothing.
SentRowsWaitNot == \A e \in Event : row[e].sent => row[e].wait = 0

OutboxInv ==
    /\ OutboxTypeOK /\ OneWorkerPerRow /\ HeldRowsAreDue /\ ImagesFollow /\ DeliveriesCounted
    /\ SentWasDelivered /\ GivenUpKeepsError /\ SentRowsWaitNot

-----------------------------------------------------------------------------
LEMMA RowFields ==
    ASSUME NEW r \in OutboxRow
    PROVE  /\ r.attempts \in Nat /\ r.attempts <= MaxAttempts /\ r.wait \in Nat
           /\ r.sent \in BOOLEAN /\ r.failed \in BOOLEAN
BY SettingsAssumption DEF OutboxRow

LEMMA BackoffIsNat == ASSUME NEW a \in Nat PROVE Backoff(a) \in Nat
<1>1. CASE a \in 1..7
  <2>1. a = 1 \/ a = 2 \/ a = 3 \/ a = 4 \/ a = 5 \/ a = 6 \/ a = 7
    BY <1>1
  <2> QED BY <1>1, <2>1 DEF Backoff
<1>2. CASE a \notin 1..7
  BY <1>2 DEF Backoff
<1> QED BY <1>1, <1>2

\* What a dispatch makes of a row below its limit.
LEMMA DispatchedRows ==
    ASSUME NEW r \in OutboxRow, r.attempts < MaxAttempts
    PROVE  /\ Sent(r) \in OutboxRow /\ Sent(r).attempts = r.attempts + 1 /\ Sent(r).sent
           /\ Sent(r).wait = r.wait
           /\ Failed(r) \in OutboxRow /\ Failed(r).attempts = r.attempts + 1 /\ Failed(r).failed
           /\ Failed(r).sent = r.sent
<1>1. r.attempts \in Nat /\ r.attempts + 1 \in 0..MaxAttempts
  BY RowFields, SettingsAssumption
<1>2. Backoff(r.attempts + 1) \in Nat
  BY <1>1, BackoffIsNat
<1>3. /\ Sent(r) \in OutboxRow /\ Sent(r).attempts = r.attempts + 1 /\ Sent(r).sent
      /\ Sent(r).wait = r.wait
  BY <1>1 DEF Sent, OutboxRow
<1>p. PICK b \in Nat : b = Backoff(r.attempts + 1)
  BY <1>2
<1>4. Failed(r) = [r EXCEPT !.attempts = @ + 1, !.failed = TRUE, !.wait = b]
  BY <1>p DEF Failed
<1>5. /\ Failed(r) \in OutboxRow /\ Failed(r).attempts = r.attempts + 1 /\ Failed(r).failed
      /\ Failed(r).sent = r.sent
  BY <1>1, <1>4 DEF OutboxRow
<1> QED BY <1>3, <1>5

LEMMA InitOutbox == OutboxInit => OutboxInv
<1> SUFFICES ASSUME OutboxInit PROVE OutboxInv
  OBVIOUS
<1>1. NewRow \in OutboxRow /\ NewRow.attempts = 0 /\ ~NewRow.sent
  BY SettingsAssumption DEF NewRow, OutboxRow
<1>2. OutboxTypeOK
  BY <1>1 DEF OutboxInit, OutboxTypeOK
<1>3. OneWorkerPerRow /\ HeldRowsAreDue /\ ImagesFollow
  BY DEF OutboxInit, OneWorkerPerRow, HeldRowsAreDue, ImagesFollow
<1>4. DeliveriesCounted /\ SentWasDelivered /\ GivenUpKeepsError /\ SentRowsWaitNot
  BY <1>1, SettingsAssumption DEF OutboxInit, DeliveriesCounted, SentWasDelivered, GivenUpKeepsError, SentRowsWaitNot
<1> QED BY <1>2, <1>3, <1>4 DEF OutboxInv

LEMMA EnqueueOK ==
    ASSUME OutboxInv, NEW e \in Event, Enqueue(e)
    PROVE  OutboxInv'
<1> USE DEF OutboxInv, Enqueue
<1>1. OutboxTypeOK'
  BY DEF OutboxTypeOK
<1>2. OneWorkerPerRow' /\ HeldRowsAreDue' /\ ImagesFollow'
  BY DEF OneWorkerPerRow, HeldRowsAreDue, ImagesFollow
<1>3. DeliveriesCounted' /\ SentWasDelivered' /\ GivenUpKeepsError' /\ SentRowsWaitNot'
  BY DEF DeliveriesCounted, SentWasDelivered, GivenUpKeepsError, SentRowsWaitNot
<1> QED BY <1>1, <1>2, <1>3

LEMMA ClaimOK ==
    ASSUME OutboxInv, NEW w \in Worker, NEW B \in SUBSET Claimable, Claim(w, B)
    PROVE  OutboxInv'
<1> USE DEF OutboxInv
<1>s. /\ w \notin draining /\ draining' = draining \cup {w}
      /\ batch' = [batch EXCEPT ![w] = B]
      /\ claimedBy' = [e \in Event |-> IF e \in B THEN claimedBy[e] \cup {w} ELSE claimedBy[e]]
      /\ image' = [e \in Event |-> IF e \in B THEN row[e] ELSE image[e]]
      /\ UNCHANGED <<enqueued, row, delivered, crashes>>
  BY DEF Claim
<1>B. B \subseteq Event /\ \A e \in B : Due(e) /\ claimedBy[e] = {}
  BY DEF Claimable
<1>t. /\ \A e \in Event : claimedBy'[e] = IF e \in B THEN {w} ELSE claimedBy[e]
      /\ \A e \in Event : image'[e] = IF e \in B THEN row[e] ELSE image[e]
      /\ \A v \in Worker : batch'[v] = IF v = w THEN B ELSE batch[v]
      /\ \A e \in Event : w \notin claimedBy[e] /\ claimedBy[e] \subseteq Worker
      /\ \A v \in Worker : batch[v] \subseteq Event
  <2>1. \A e \in Event : claimedBy'[e] = IF e \in B THEN {w} ELSE claimedBy[e]
    BY <1>s, <1>B
  <2>2. \A e \in Event : image'[e] = IF e \in B THEN row[e] ELSE image[e]
    BY <1>s
  <2>3. \A v \in Worker : batch'[v] = IF v = w THEN B ELSE batch[v]
    BY <1>s DEF OutboxTypeOK
  <2>4. \A e \in Event : w \notin claimedBy[e] /\ claimedBy[e] \subseteq Worker
    BY <1>s DEF OutboxTypeOK, OneWorkerPerRow
  <2>5. \A v \in Worker : batch[v] \subseteq Event
    BY DEF OutboxTypeOK
  <2> QED BY <2>1, <2>2, <2>3, <2>4, <2>5
<1>1. OutboxTypeOK'
  BY <1>s, <1>B DEF OutboxTypeOK
<1>2. OneWorkerPerRow'
  <2>1. \A v \in Worker : \A e \in batch'[v] : v \in claimedBy'[e]
    <3> SUFFICES ASSUME NEW v \in Worker, NEW e \in batch'[v] PROVE v \in claimedBy'[e]
      OBVIOUS
    <3>1. CASE v = w
      BY <3>1, <1>t, <1>B
    <3>2. CASE v # w
      <4>1. e \in batch[v] /\ e \in Event /\ v \in claimedBy[e]
        BY <3>2, <1>t DEF OneWorkerPerRow
      <4>2. e \notin B
        BY <4>1, <1>B
      <4> QED BY <4>1, <4>2, <1>t
    <3> QED BY <3>1, <3>2
  <2>2. \A e \in Event : \A u, v \in claimedBy'[e] : u = v
    BY <1>t DEF OneWorkerPerRow
  <2>3. \A e \in Event : claimedBy'[e] \subseteq draining'
    BY <1>t, <1>s DEF OneWorkerPerRow
  <2> QED BY <2>1, <2>2, <2>3 DEF OneWorkerPerRow
<1>3. HeldRowsAreDue'
  BY <1>s, <1>t, <1>B DEF HeldRowsAreDue, Due
<1>4. ImagesFollow'
  <2> SUFFICES ASSUME NEW e \in Event, NEW v \in claimedBy'[e]
               PROVE  IF e \in batch'[v] THEN image'[e] = row[e]
                      ELSE /\ image'[e].attempts = row[e].attempts + 1
                           /\ image'[e].sent => delivered[e] > 0 /\ image'[e].wait = 0
                           /\ ~image'[e].sent => image'[e].failed
    BY <1>s DEF ImagesFollow
  <2>1. CASE e \in B
    BY <2>1, <1>t
  <2>2. CASE e \notin B
    <3>1. v \in claimedBy[e] /\ v # w /\ v \in Worker /\ image'[e] = image[e]
      BY <2>2, <1>t
    <3>2. batch'[v] = batch[v]
      BY <3>1, <1>t
    <3> QED BY <3>1, <3>2 DEF ImagesFollow
  <2> QED BY <2>1, <2>2
<1>5. DeliveriesCounted'
  <2> SUFFICES ASSUME NEW e \in Event
               PROVE delivered[e] <= (IF claimedBy'[e] = {} THEN row[e].attempts ELSE image'[e].attempts) + crashes
    BY <1>s DEF DeliveriesCounted
  <2>1. CASE e \in B
    BY <2>1, <1>t, <1>B DEF DeliveriesCounted
  <2>2. CASE e \notin B
    BY <2>2, <1>t DEF DeliveriesCounted
  <2> QED BY <2>1, <2>2
<1>6. SentWasDelivered' /\ GivenUpKeepsError' /\ SentRowsWaitNot'
  BY <1>s DEF SentWasDelivered, GivenUpKeepsError, SentRowsWaitNot
<1> QED BY <1>1, <1>2, <1>3, <1>4, <1>5, <1>6

\* A dispatched row has one attempt more, is sent after a delivery or carries an
\* error, and its worker keeps it.
LEMMA DispatchedOK ==
    ASSUME OutboxInv, NEW w \in Worker, NEW e \in Event, NEW r \in OutboxRow, NEW copies \in {0, 1},
           r.attempts = image[e].attempts + 1, r.sent => copies = 1 /\ r.wait = 0, ~r.sent => r.failed,
           Dispatched(w, e, r, copies)
    PROVE  OutboxInv'
<1> USE DEF OutboxInv
<1>s. /\ e \in batch[w]
      /\ image' = [image EXCEPT ![e] = r]
      /\ batch' = [batch EXCEPT ![w] = @ \ {e}]
      /\ delivered' = [delivered EXCEPT ![e] = @ + copies]
      /\ UNCHANGED <<enqueued, row, claimedBy, draining, crashes>>
  BY DEF Dispatched
<1>h. claimedBy[e] = {w} /\ image[e] = row[e]
  BY <1>s DEF OneWorkerPerRow, ImagesFollow
<1>n. \A f \in Event : delivered[f] \in Nat /\ row[f].attempts \in Nat /\ image[f].attempts \in Nat
  BY RowFields DEF OutboxTypeOK
<1>c. crashes \in Nat
  BY DEF OutboxTypeOK
<1>i. image'[e] = r /\ \A f \in Event : f # e => image'[f] = image[f]
  BY <1>s DEF OutboxTypeOK
<1>d. delivered'[e] = delivered[e] + copies /\ \A f \in Event : f # e => delivered'[f] = delivered[f]
  BY <1>s DEF OutboxTypeOK
<1>b. batch'[w] = batch[w] \ {e} /\ \A v \in Worker : v # w => batch'[v] = batch[v]
  BY <1>s DEF OutboxTypeOK
<1>1. OutboxTypeOK'
  <2>1. image' \in [Event -> OutboxRow]
    BY <1>s DEF OutboxTypeOK
  <2>2. delivered' \in [Event -> Nat]
    BY <1>s, <1>n DEF OutboxTypeOK
  <2>3. batch' \in [Worker -> SUBSET Event]
    BY <1>s DEF OutboxTypeOK
  <2> QED BY <2>1, <2>2, <2>3, <1>s DEF OutboxTypeOK
<1>2. OneWorkerPerRow'
  <2>1. \A v \in Worker : batch'[v] \subseteq batch[v]
    BY <1>b
  <2> QED BY <2>1, <1>s DEF OneWorkerPerRow
<1>3. HeldRowsAreDue'
  BY <1>s DEF HeldRowsAreDue
<1>4. ImagesFollow'
  <2> SUFFICES ASSUME NEW f \in Event, NEW v \in claimedBy[f]
               PROVE  IF f \in batch'[v] THEN image'[f] = row[f]
                      ELSE /\ image'[f].attempts = row[f].attempts + 1
                           /\ image'[f].sent => delivered'[f] > 0 /\ image'[f].wait = 0
                           /\ ~image'[f].sent => image'[f].failed
    BY <1>s DEF ImagesFollow
  <2>1. CASE f = e
    <3>1. v = w /\ f \notin batch'[v]
      BY <2>1, <1>h, <1>b
    <3>2. r.sent => delivered'[e] > 0 /\ r.wait = 0
      BY <1>d, <1>n
    <3> QED BY <2>1, <3>1, <3>2, <1>h, <1>i
  <2>2. CASE f # e
    <3>1. image'[f] = image[f] /\ delivered'[f] = delivered[f]
      BY <2>2, <1>i, <1>d
    <3>2. v \in Worker
      BY DEF OutboxTypeOK
    <3>3. f \in batch'[v] <=> f \in batch[v]
      BY <2>2, <3>2, <1>b
    <3> QED BY <3>1, <3>3 DEF ImagesFollow
  <2> QED BY <2>1, <2>2
<1>5. DeliveriesCounted'
  <2> SUFFICES ASSUME NEW f \in Event
               PROVE delivered'[f] <= (IF claimedBy[f] = {} THEN row[f].attempts ELSE image'[f].attempts) + crashes
    BY <1>s DEF DeliveriesCounted
  <2>1. CASE f = e
    <3>1. delivered[e] <= image[e].attempts + crashes
      BY <1>h DEF DeliveriesCounted
    <3>2. delivered'[e] <= r.attempts + crashes
      BY <3>1, <1>n, <1>c, <1>d
    <3> QED BY <2>1, <3>2, <1>h, <1>i
  <2>2. CASE f # e
    BY <2>2, <1>i, <1>d DEF DeliveriesCounted
  <2> QED BY <2>1, <2>2
<1>6. SentWasDelivered'
  <2> SUFFICES ASSUME NEW f \in Event, row[f].sent PROVE delivered'[f] > 0
    BY <1>s DEF SentWasDelivered
  <2>1. delivered[f] > 0
    BY DEF SentWasDelivered
  <2> QED BY <2>1, <1>d, <1>n
<1>7. GivenUpKeepsError' /\ SentRowsWaitNot'
  BY <1>s DEF GivenUpKeepsError, SentRowsWaitNot
<1> QED BY <1>1, <1>2, <1>3, <1>4, <1>5, <1>6, <1>7

\* Only a row below its limit, unsent, is dispatched.
LEMMA DispatchableRow ==
    ASSUME OutboxInv, NEW w \in Worker, NEW e \in batch[w]
    PROVE  e \in Event /\ image[e] \in OutboxRow /\ image[e].attempts < MaxAttempts /\ ~image[e].sent
           /\ image[e] = row[e] /\ w \in claimedBy[e] /\ image[e].wait = 0
<1> USE DEF OutboxInv
<1>1. e \in Event /\ w \in claimedBy[e]
  BY DEF OutboxTypeOK, OneWorkerPerRow
<1>2. image[e] = row[e] /\ image[e] \in OutboxRow
  BY <1>1 DEF ImagesFollow, OutboxTypeOK
<1>3. ~row[e].sent /\ row[e].attempts < MaxAttempts /\ row[e].wait = 0
  BY <1>1 DEF HeldRowsAreDue
<1> QED BY <1>1, <1>2, <1>3

LEMMA DispatchOK ==
    ASSUME OutboxInv, NEW w \in Worker, NEW e \in Event, Dispatch(w, e)
    PROVE  OutboxInv'
<1>1. e \in batch[w] /\ Dispatched(w, e, Sent(image[e]), 1)
  BY DEF Dispatch, Dispatched
<1>2. image[e] \in OutboxRow /\ image[e].attempts < MaxAttempts /\ image[e].wait = 0
  BY <1>1, DispatchableRow
<1>3. /\ Sent(image[e]) \in OutboxRow /\ Sent(image[e]).attempts = image[e].attempts + 1
      /\ Sent(image[e]).sent /\ Sent(image[e]).wait = 0
  BY <1>2, DispatchedRows
<1> QED BY <1>1, <1>3, DispatchedOK

LEMMA DispatchFailsOK ==
    ASSUME OutboxInv, NEW w \in Worker, NEW e \in Event, DispatchFails(w, e)
    PROVE  OutboxInv'
<1>1. PICK copies \in {0, 1} : Dispatched(w, e, Failed(image[e]), copies)
  BY DEF DispatchFails
<1>2. e \in batch[w]
  BY <1>1 DEF Dispatched
<1>3. image[e] \in OutboxRow /\ image[e].attempts < MaxAttempts /\ ~image[e].sent
  BY <1>2, DispatchableRow
<1>4. /\ Failed(image[e]) \in OutboxRow /\ Failed(image[e]).attempts = image[e].attempts + 1
      /\ Failed(image[e]).failed /\ Failed(image[e]).sent = image[e].sent
  BY <1>3, DispatchedRows
<1> QED BY <1>1, <1>3, <1>4, DispatchedOK

\* The rows a worker gives up, and the ones other workers keep.
LEMMA ReleasedRows ==
    ASSUME OutboxInv, NEW w \in Worker, claimedBy' = Unclaimed(w)
    PROVE  /\ claimedBy' \in [Event -> SUBSET Worker]
           /\ \A e \in Event : w \in claimedBy[e] => claimedBy'[e] = {}
           /\ \A e \in Event : w \notin claimedBy[e] => claimedBy'[e] = claimedBy[e]
           /\ \A e \in Event : w \notin claimedBy'[e]
BY DEF OutboxInv, OutboxTypeOK, OneWorkerPerRow, Unclaimed

\* Releasing a worker's rows keeps what is said of the rows that stay held.
LEMMA OthersKeepTheirRows ==
    ASSUME OutboxInv, NEW w \in Worker, claimedBy' = Unclaimed(w), draining' = draining \ {w},
           batch'[w] = {}, \A v \in Worker : v # w => batch'[v] = batch[v],
           image' = image, delivered' = delivered,
           \A e \in Event : w \notin claimedBy[e] => row'[e] = row[e]
    PROVE  OneWorkerPerRow' /\ HeldRowsAreDue' /\ ImagesFollow'
<1> USE DEF OutboxInv
<1>r. /\ \A e \in Event : w \in claimedBy[e] => claimedBy'[e] = {}
      /\ \A e \in Event : w \notin claimedBy[e] => claimedBy'[e] = claimedBy[e]
      /\ \A e \in Event : w \notin claimedBy'[e]
  BY ReleasedRows
<1>k. \A e \in Event : claimedBy'[e] # {} => w \notin claimedBy[e] /\ claimedBy'[e] = claimedBy[e] /\ row'[e] = row[e]
  BY <1>r
<1>t. \A e \in Event : claimedBy[e] \subseteq Worker
  BY DEF OutboxTypeOK
<1>u. \A v \in Worker : batch[v] \subseteq Event
  BY DEF OutboxTypeOK
<1>1. OneWorkerPerRow'
  <2>1. \A e \in Event : \A v, u \in claimedBy'[e] : v = u
    BY <1>k DEF OneWorkerPerRow
  <2>2. \A e \in Event : claimedBy'[e] \subseteq draining'
    BY <1>k, <1>r DEF OneWorkerPerRow
  <2>3. ASSUME NEW v \in Worker, NEW e \in batch'[v] PROVE v \in claimedBy'[e]
    <3>1. v # w /\ e \in batch[v] /\ e \in Event
      BY <1>u
    <3>2. v \in claimedBy[e]
      BY <3>1 DEF OneWorkerPerRow
    <3>3. w \notin claimedBy[e]
      BY <3>1, <3>2 DEF OneWorkerPerRow
    <3> QED BY <3>1, <3>2, <3>3, <1>r
  <2> QED BY <2>1, <2>2, <2>3 DEF OneWorkerPerRow
<1>2. HeldRowsAreDue'
  BY <1>k DEF HeldRowsAreDue
<1>3. ImagesFollow'
  <2> SUFFICES ASSUME NEW e \in Event, NEW v \in claimedBy'[e]
               PROVE  IF e \in batch'[v] THEN image[e] = row'[e]
                      ELSE /\ image[e].attempts = row'[e].attempts + 1
                           /\ image[e].sent => delivered[e] > 0 /\ image[e].wait = 0
                           /\ ~image[e].sent => image[e].failed
    BY DEF ImagesFollow
  <2>1. v \in claimedBy[e] /\ v # w /\ v \in Worker /\ row'[e] = row[e]
    BY <1>k, <1>r, <1>t
  <2>2. batch'[v] = batch[v]
    BY <2>1
  <2> QED BY <2>1, <2>2 DEF ImagesFollow
<1> QED BY <1>1, <1>2, <1>3

LEMMA CommitDrainOK ==
    ASSUME OutboxInv, NEW w \in Worker, CommitDrain(w)
    PROVE  OutboxInv'
<1> USE DEF OutboxInv
<1>s. /\ batch[w] = {}
      /\ row' = [e \in Event |-> IF w \in claimedBy[e] THEN image[e] ELSE row[e]]
      /\ claimedBy' = Unclaimed(w) /\ draining' = draining \ {w}
      /\ UNCHANGED <<enqueued, image, batch, delivered, crashes>>
  BY DEF CommitDrain
<1>r. /\ claimedBy' \in [Event -> SUBSET Worker]
      /\ \A e \in Event : w \in claimedBy[e] => claimedBy'[e] = {} /\ row'[e] = image[e]
      /\ \A e \in Event : w \notin claimedBy[e] => claimedBy'[e] = claimedBy[e] /\ row'[e] = row[e]
  BY <1>s, ReleasedRows
<1>i. \A e \in Event : w \in claimedBy[e] =>
        /\ claimedBy[e] # {}
        /\ image[e].attempts = row[e].attempts + 1
        /\ image[e].sent => delivered[e] > 0 /\ image[e].wait = 0
        /\ ~image[e].sent => image[e].failed
  BY <1>s DEF ImagesFollow
<1>1. OutboxTypeOK'
  <2>1. row' \in [Event -> OutboxRow]
    BY <1>s DEF OutboxTypeOK
  <2> QED BY <2>1, <1>s, <1>r DEF OutboxTypeOK
<1>2. OneWorkerPerRow' /\ HeldRowsAreDue' /\ ImagesFollow'
  BY <1>s, <1>r, OthersKeepTheirRows
<1>3. DeliveriesCounted'
  BY <1>s, <1>r, <1>i DEF DeliveriesCounted
<1>4. SentWasDelivered' /\ GivenUpKeepsError' /\ SentRowsWaitNot'
  BY <1>s, <1>r, <1>i DEF SentWasDelivered, GivenUpKeepsError, SentRowsWaitNot
<1> QED BY <1>1, <1>2, <1>3, <1>4

LEMMA CrashWorkerOK ==
    ASSUME OutboxInv, NEW w \in Worker, CrashWorker(w)
    PROVE  OutboxInv'
<1> USE DEF OutboxInv
<1>s. /\ crashes' = crashes + 1
      /\ claimedBy' = Unclaimed(w) /\ draining' = draining \ {w}
      /\ batch' = [batch EXCEPT ![w] = {}]
      /\ UNCHANGED <<enqueued, row, image, delivered>>
  BY DEF CrashWorker
<1>b. batch'[w] = {} /\ \A v \in Worker : v # w => batch'[v] = batch[v]
  BY <1>s DEF OutboxTypeOK
<1>r. /\ claimedBy' \in [Event -> SUBSET Worker]
      /\ \A e \in Event : w \in claimedBy[e] => claimedBy'[e] = {}
      /\ \A e \in Event : w \notin claimedBy[e] => claimedBy'[e] = claimedBy[e]
  BY <1>s, ReleasedRows
<1>n. /\ \A e \in Event : delivered[e] \in Nat /\ row[e].attempts \in Nat /\ image[e].attempts \in Nat
      /\ crashes \in Nat
  BY RowFields DEF OutboxTypeOK
<1>1. OutboxTypeOK'
  <2>1. batch' \in [Worker -> SUBSET Event]
    BY <1>s DEF OutboxTypeOK
  <2> QED BY <2>1, <1>s, <1>r DEF OutboxTypeOK
<1>2. OneWorkerPerRow' /\ HeldRowsAreDue' /\ ImagesFollow'
  BY <1>s, <1>b, OthersKeepTheirRows
<1>3. DeliveriesCounted'
  <2> SUFFICES ASSUME NEW e \in Event
               PROVE delivered[e] <= (IF claimedBy'[e] = {} THEN row[e].attempts ELSE image[e].attempts) + (crashes + 1)
    BY <1>s DEF DeliveriesCounted
  <2>1. CASE w \in claimedBy[e]
    <3>1. claimedBy[e] # {} /\ (image[e] = row[e] \/ image[e].attempts = row[e].attempts + 1)
      BY <2>1 DEF ImagesFollow
    <3>2. delivered[e] <= image[e].attempts + crashes
      BY <3>1 DEF DeliveriesCounted
    <3>3. image[e].attempts <= row[e].attempts + 1
      BY <3>1, <1>n
    <3>4. delivered[e] <= row[e].attempts + (crashes + 1)
      BY <3>2, <3>3, <1>n
    <3> QED BY <2>1, <3>4, <1>r
  <2>2. CASE w \notin claimedBy[e]
    <3>1. claimedBy'[e] = claimedBy[e]
      BY <2>2, <1>r
    <3>2. delivered[e] <= (IF claimedBy[e] = {} THEN row[e].attempts ELSE image[e].attempts) + crashes
      BY DEF DeliveriesCounted
    <3> QED BY <3>1, <3>2, <1>n
  <2> QED BY <2>1, <2>2
<1>4. SentWasDelivered' /\ GivenUpKeepsError' /\ SentRowsWaitNot'
  BY <1>s DEF SentWasDelivered, GivenUpKeepsError, SentRowsWaitNot
<1> QED BY <1>1, <1>2, <1>3, <1>4

\* Time changes only the wait of a row, and no row that is held.
LEMMA TickedRow ==
    ASSUME NEW r \in OutboxRow
    PROVE  LET t == [r EXCEPT !.wait = IF @ > 0 THEN @ - 1 ELSE 0]
           IN  /\ t \in OutboxRow
               /\ t.attempts = r.attempts /\ t.sent = r.sent /\ t.failed = r.failed
               /\ r.wait = 0 => t = r
BY DEF OutboxRow

LEMMA TickOK ==
    ASSUME OutboxInv, Tick
    PROVE  OutboxInv'
<1> USE DEF OutboxInv
<1>s. /\ row' = [e \in Event |-> [row[e] EXCEPT !.wait = IF @ > 0 THEN @ - 1 ELSE 0]]
      /\ UNCHANGED <<enqueued, claimedBy, image, batch, draining, delivered, crashes>>
  BY DEF Tick
<1>r. \A e \in Event :
        /\ row'[e] \in OutboxRow
        /\ row'[e].attempts = row[e].attempts /\ row'[e].sent = row[e].sent
        /\ row'[e].failed = row[e].failed
        /\ row[e].wait = 0 => row'[e] = row[e]
  BY <1>s, TickedRow DEF OutboxTypeOK
<1>h. \A e \in Event : claimedBy[e] # {} => row'[e] = row[e]
  BY <1>r DEF HeldRowsAreDue
<1>1. OutboxTypeOK'
  BY <1>s, <1>r DEF OutboxTypeOK
<1>2. OneWorkerPerRow'
  BY <1>s DEF OneWorkerPerRow
<1>3. HeldRowsAreDue'
  BY <1>s, <1>h DEF HeldRowsAreDue
<1>4. ImagesFollow'
  BY <1>s, <1>h DEF ImagesFollow
<1>5. DeliveriesCounted' /\ SentWasDelivered' /\ GivenUpKeepsError' /\ SentRowsWaitNot'
  BY <1>s, <1>r DEF DeliveriesCounted, SentWasDelivered, GivenUpKeepsError, SentRowsWaitNot
<1> QED BY <1>1, <1>2, <1>3, <1>4, <1>5

LEMMA StutterOutbox == OutboxInv /\ UNCHANGED outbox => OutboxInv'
BY DEF OutboxInv, outbox, OutboxTypeOK, OneWorkerPerRow, HeldRowsAreDue, ImagesFollow,
       DeliveriesCounted, SentWasDelivered, GivenUpKeepsError, SentRowsWaitNot

\* Every step of any worker, crash and tick included, preserves the invariant.
THEOREM OutboxInvariant == OutboxSpec => []OutboxInv
<1>1. OutboxInit => OutboxInv
  BY InitOutbox
<1>2. OutboxInv /\ [OutboxNext]_outbox => OutboxInv'
  <2> SUFFICES ASSUME OutboxInv, OutboxNext PROVE OutboxInv'
    BY StutterOutbox
  <2>1. CASE \E e \in Event : Enqueue(e)
    BY <2>1, EnqueueOK
  <2>2. CASE \E w \in Worker, B \in SUBSET Claimable : Claim(w, B)
    BY <2>2, ClaimOK
  <2>3. CASE \E w \in Worker, e \in Event : Dispatch(w, e)
    BY <2>3, DispatchOK
  <2>4. CASE \E w \in Worker, e \in Event : DispatchFails(w, e)
    BY <2>4, DispatchFailsOK
  <2>5. CASE \E w \in Worker : CommitDrain(w)
    BY <2>5, CommitDrainOK
  <2>6. CASE \E w \in Worker : CrashWorker(w)
    BY <2>6, CrashWorkerOK
  <2>7. CASE Tick
    BY <2>7, TickOK
  <2> QED BY <2>1, <2>2, <2>3, <2>4, <2>5, <2>6, <2>7 DEF OutboxNext, Drain
<1> QED BY <1>1, <1>2, PTL DEF OutboxSpec

\* Rows, images and batches keep their shape, and attempts its limit.
THEOREM OutboxTypes == OutboxSpec => []OutboxTypeOK
<1>1. OutboxInv => OutboxTypeOK
  BY DEF OutboxInv
<1> QED BY <1>1, OutboxInvariant, PTL

\* The dispatcher marks a row only after its side effect: whatever dies and
\* whenever, an event marked sent was delivered.
THEOREM NoMessageLost == OutboxSpec => []SentWasDelivered
<1>1. OutboxInv => SentWasDelivered
  BY DEF OutboxInv
<1> QED BY <1>1, OutboxInvariant, PTL

\* SKIP LOCKED keeps two workers off one row: each delivery beyond the recorded
\* attempts is the fault of a crash.
THEOREM RedeliveryNeedsCrash == OutboxSpec => []DuplicatesOnlyByCrash
<1>1. OutboxInv => DuplicatesOnlyByCrash
  BY DEF OutboxInv, DeliveriesCounted, DuplicatesOnlyByCrash
<1> QED BY <1>1, OutboxInvariant, PTL

\* An event that is given up carries the error that made it fail.
THEOREM GivenUpIsVisible == OutboxSpec => []GivenUpKeepsError
<1>1. OutboxInv => GivenUpKeepsError
  BY DEF OutboxInv
<1> QED BY <1>1, OutboxInvariant, PTL

\* No worker that is still draining touches an event another one marked sent.
THEOREM SentEventsStay == OutboxSpec => SentIsFinal
<1>1. OutboxInv /\ [OutboxNext]_outbox
        => [\A e \in Event : row[e].sent => row'[e] = row[e] /\ delivered'[e] = delivered[e]]_outbox
  <2> SUFFICES ASSUME OutboxInv, OutboxNext, NEW e \in Event, row[e].sent
               PROVE  row'[e] = row[e] /\ delivered'[e] = delivered[e]
    OBVIOUS
  <2> USE DEF OutboxInv
  <2>h. claimedBy[e] = {}
    BY DEF HeldRowsAreDue
  <2>1. CASE \E f \in Event : Enqueue(f)
    BY <2>1 DEF Enqueue
  <2>2. CASE \E w \in Worker, B \in SUBSET Claimable : Claim(w, B)
    BY <2>2 DEF Claim
  <2>3. ASSUME NEW w \in Worker, NEW f \in Event, NEW r, NEW c, Dispatched(w, f, r, c)
        PROVE  row'[e] = row[e] /\ delivered'[e] = delivered[e]
    <3>1. f # e
      BY <2>3, <2>h DEF Dispatched, OneWorkerPerRow
    <3> QED BY <2>3, <3>1 DEF Dispatched, OutboxTypeOK
  <2>4. CASE \E w \in Worker, f \in Event : Dispatch(w, f)
    BY <2>3, <2>4 DEF Dispatch
  <2>5. CASE \E w \in Worker, f \in Event : DispatchFails(w, f)
    BY <2>3, <2>5 DEF DispatchFails
  <2>6. CASE \E w \in Worker : CommitDrain(w)
    BY <2>6, <2>h DEF CommitDrain
  <2>7. CASE \E w \in Worker : CrashWorker(w)
    BY <2>7 DEF CrashWorker
  <2>8. CASE Tick
    <3>1. row'[e] = [row[e] EXCEPT !.wait = IF @ > 0 THEN @ - 1 ELSE 0]
      BY <2>8 DEF Tick
    <3>2. row[e] \in OutboxRow /\ row[e].wait = 0
      BY DEF OutboxTypeOK, SentRowsWaitNot
    <3> QED BY <2>8, <3>1, <3>2, TickedRow DEF Tick
  <2> QED BY <2>1, <2>2, <2>4, <2>5, <2>6, <2>7, <2>8 DEF OutboxNext, Drain
<1> QED BY <1>1, OutboxInvariant, PTL DEF OutboxSpec, SentIsFinal

-----------------------------------------------------------------------------
(* Documents and the search index *)

\* Chunk rows belong to a document that exists and that passed the scanner.
ChunksAreSound == \A d \in chunks : Exists(d) /\ ~Infected(d)

IndexedHasChunks == \A d \in Doc : status[d] = "INDEXED" => d \in chunks

\* The row a worker holds is there, and what it is about to commit passed the scanner.
WorkFits(w) ==
    /\ worker[w].pc \in Indexing /\ worker[w].connected => Exists(worker[w].task.doc)
    /\ worker[w].pc \in {"erased", "written", "stored"} => ~Infected(worker[w].task.doc)

DocumentsInv ==
    /\ DocumentsTypeOK /\ ChunksAreSound /\ IndexedHasChunks
    /\ \A w \in Indexer : WorkFits(w)

-----------------------------------------------------------------------------
\* A worker with a task.
AtWork == [pc : Indexing \cup Waiting \cup Cleaning, task : Task, connected : BOOLEAN]

\* The record of a worker.
LEMMA WorkerType ==
  ASSUME DocumentsTypeOK, NEW w \in Indexer
  PROVE  /\ Working(w) => /\ worker[w] \in AtWork /\ worker[w].task \in Task /\ worker[w].task.doc \in Doc
                          /\ worker[w].connected \in BOOLEAN
         /\ Working(w) <=> worker[w] # Idle
         /\ worker[w].pc \in Indexing \cup Waiting \cup Cleaning \cup {"idle"}
         /\ DOMAIN worker = Indexer
<1>1. worker[w] \in {Idle} \cup AtWork /\ DOMAIN worker = Indexer
  BY DEF DocumentsTypeOK, AtWork
<1>2. CASE worker[w] = Idle
  BY <1>1, <1>2 DEF Idle, Working
<1>3. CASE worker[w] \in AtWork
  BY <1>1, <1>3 DEF AtWork, Idle, Working, Indexing, Waiting, Cleaning, Task
<1>4. QED
  BY <1>1, <1>2, <1>3

\* Tasks stay tasks.
LEMMA TaskType ==
  /\ \A d \in Doc : \A kind \in {"index", "cleanup"} : [kind |-> kind, doc |-> d, retries |-> 0] \in Task
  /\ \A t \in Task : t.retries < MaxRetries \/ t.retries < MaxCleanupRetries =>
        /\ Another(t) \in Task /\ Another(t).kind = t.kind /\ Another(t).doc = t.doc
<1>1. MaxRetries \in Nat /\ MaxCleanupRetries \in Nat
  BY DocumentAssumption
<1>2. QED
  BY <1>1 DEF Task, Another

\* How a step moves a worker.
Moved(w) ==
    \/ worker'[w] = worker[w]
    \/ worker'[w].pc \notin Indexing
    \/ /\ worker[w].pc = "index" /\ worker'[w] = [worker[w] EXCEPT !.pc = "locked"]
       /\ Exists(worker[w].task.doc) /\ UNCHANGED status
    \/ /\ worker[w].pc \in Indexing
       /\ \E pc \in Indexing :
            /\ worker'[w] = [worker[w] EXCEPT !.pc = pc]
            /\ pc \in {"erased", "written", "stored"} =>
                  ~Infected(worker[w].task.doc) \/ worker[w].pc \in {"erased", "written", "stored"}
       /\ UNCHANGED status
    \/ worker[w].pc \in Indexing /\ worker'[w] = [worker[w] EXCEPT !.connected = FALSE]

\* What a step does to the row of a document and to its chunks.
RowMoved(d) ==
    /\ Exists(d) /\ ~RowFree(d) => Exists(d)'
    /\ d \in chunks' => Exists(d)'
    /\ d \in chunks' \ chunks => ~Infected(d)
    /\ status'[d] = "INDEXED" => d \in chunks'

\* What every step does at most.
StepEffects ==
    /\ \A w \in Indexer : Moved(w)
    /\ \A d \in Doc : RowMoved(d)
    /\ UNCHANGED content

\* With these effects the invariant holds after the step.
LEMMA EffectsSuffice ==
  ASSUME DocumentsInv, DocumentsTypeOK', StepEffects
  PROVE  DocumentsInv'
<1>0. DocumentsTypeOK /\ UNCHANGED content /\ chunks' \subseteq Doc
  BY DEF DocumentsInv, StepEffects, DocumentsTypeOK
<1>1. ChunksAreSound'
  <2>1. SUFFICES ASSUME NEW d \in Doc, d \in chunks' PROVE Exists(d)' /\ ~Infected(d)'
    BY <1>0 DEF ChunksAreSound
  <2>2. Infected(d)' = Infected(d)
    BY <1>0 DEF Infected
  <2>3. QED
    BY <2>1, <2>2 DEF StepEffects, RowMoved, DocumentsInv, ChunksAreSound
<1>2. IndexedHasChunks'
  BY DEF IndexedHasChunks, StepEffects, RowMoved
<1>3. ASSUME NEW w \in Indexer PROVE WorkFits(w)'
  <2>0. WorkFits(w) /\ Moved(w)
    BY DEF DocumentsInv, StepEffects
  <2>1. worker[w].pc \in Indexing \cup {"index"} =>
           /\ worker[w] \in AtWork /\ worker[w].task.doc \in Doc /\ RowMoved(worker[w].task.doc)
    BY <1>0, WorkerType DEF StepEffects, Working, Indexing
  <2>2. PICK me : me = worker[w]
    OBVIOUS
  <2>3. PICK now : now = worker'[w]
    OBVIOUS
  <2>4. SUFFICES /\ now.pc \in Indexing /\ now.connected => Exists(now.task.doc)'
                 /\ now.pc \in {"erased", "written", "stored"} => ~Infected(now.task.doc)
    BY <1>0, <2>3 DEF WorkFits, Exists, Infected
  <2>5. CASE now = me
    <3>1. ASSUME me.pc \in Indexing, me.connected PROVE Exists(me.task.doc)'
      <4>1. PICK d \in Doc : d = me.task.doc /\ RowMoved(d)
        BY <2>1, <2>2, <3>1
      <4>2. Exists(d) /\ ~RowFree(d)
        BY <2>0, <2>2, <3>1, <4>1 DEF WorkFits, RowFree, HoldsRow
      <4>3. QED
        BY <4>1, <4>2 DEF RowMoved, Exists
    <3>2. QED
      BY <2>0, <2>2, <2>5, <3>1 DEF WorkFits
  <2>6. CASE now.pc \notin Indexing
    BY <2>6 DEF Indexing
  <2>7. CASE /\ me.pc = "index" /\ now = [me EXCEPT !.pc = "locked"]
             /\ Exists(me.task.doc) /\ UNCHANGED status
    <3>1. now.pc = "locked" /\ now.task = me.task
      BY <2>1, <2>2, <2>7 DEF AtWork
    <3>2. Exists(me.task.doc)'
      BY <2>7 DEF Exists
    <3>3. QED
      BY <3>1, <3>2 DEF Exists
  <2>8. CASE /\ me.pc \in Indexing
             /\ \E pc \in Indexing :
                  /\ now = [me EXCEPT !.pc = pc]
                  /\ pc \in {"erased", "written", "stored"} =>
                        ~Infected(me.task.doc) \/ me.pc \in {"erased", "written", "stored"}
             /\ UNCHANGED status
    <3>1. /\ now.task = me.task /\ now.connected = me.connected
          /\ now.pc \in {"erased", "written", "stored"} =>
                ~Infected(me.task.doc) \/ me.pc \in {"erased", "written", "stored"}
      BY <2>1, <2>2, <2>8 DEF AtWork
    <3>2. me.connected => Exists(me.task.doc)'
      BY <2>0, <2>2, <2>8 DEF WorkFits, Exists
    <3>3. me.pc \in {"erased", "written", "stored"} => ~Infected(me.task.doc)
      BY <2>0, <2>2 DEF WorkFits
    <3>4. QED
      BY <3>1, <3>2, <3>3 DEF Exists
  <2>9. CASE me.pc \in Indexing /\ now = [me EXCEPT !.connected = FALSE]
    <3>1. now.pc = me.pc /\ now.task = me.task /\ now.connected = FALSE
      BY <2>1, <2>2, <2>9 DEF AtWork
    <3>2. QED
      BY <2>0, <2>2, <3>1 DEF WorkFits
  <2>10. QED
    BY <2>0, <2>2, <2>3, <2>5, <2>6, <2>7, <2>8, <2>9 DEF Moved
<1>4. QED
  BY <1>1, <1>2, <1>3 DEF DocumentsInv

\* Rows and chunks that a step leaves alone.
LEMMA QuietRows ==
  ASSUME DocumentsInv, UNCHANGED <<status, chunks>>
  PROVE  \A d \in Doc : RowMoved(d)
BY DEF RowMoved, Exists, DocumentsInv, ChunksAreSound, IndexedHasChunks

\* A row that a step leaves alone, when the step works on another one.
LEMMA QuietRow ==
  ASSUME DocumentsInv, NEW d \in Doc, status'[d] = status[d], d \in chunks' <=> d \in chunks
  PROVE  RowMoved(d)
BY DEF RowMoved, Exists, DocumentsInv, ChunksAreSound, IndexedHasChunks

\* A worker moves, the others do not.
LEMMA OneMoves ==
  ASSUME DocumentsTypeOK, NEW w \in Indexer, NEW x, worker' = [worker EXCEPT ![w] = x]
  PROVE  worker'[w] = x /\ \A v \in Indexer : v # w => worker'[v] = worker[v]
BY WorkerType

\* A worker at its next step is the same worker at another one.
LEMMA OneGoes ==
  ASSUME DocumentsTypeOK, NEW w \in Indexer, NEW pc, Goto(w, pc)
  PROVE  worker' = [worker EXCEPT ![w] = [worker[w] EXCEPT !.pc = pc]]
BY WorkerType DEF Goto

\* It is enough to look at the worker that moves.
LEMMA WorkerEffects ==
  ASSUME DocumentsTypeOK, NEW w \in Indexer, NEW x, worker' = [worker EXCEPT ![w] = x],
         worker'[w] = x => Moved(w), \A d \in Doc : RowMoved(d), UNCHANGED content
  PROVE  StepEffects
<1>1. worker'[w] = x /\ \A v \in Indexer : v # w => worker'[v] = worker[v]
  BY OneMoves
<1>2. \A v \in Indexer : Moved(v)
  BY <1>1 DEF Moved
<1>3. QED
  BY <1>2 DEF StepEffects

-----------------------------------------------------------------------------
(* Requests *)

\* A task more on the queue.
LEMMA Delivered ==
  ASSUME DocumentsTypeOK, NEW t \in Task, Deliver(t)
  PROVE  queue' \in [Task -> Nat]
BY DEF DocumentsTypeOK, Deliver

\* An upload, a re-index and a deletion move no worker, and a deletion waits for the
\* worker that holds the row.
LEMMA RequestEffects ==
  ASSUME DocumentsInv, NEW d \in Doc,
         \/ UploadPut(d) \/ UploadCommit(d) \/ UploadRollback(d) \/ mark_pending_for_reindex(d) \/ delete(d)
  PROVE  StepEffects
<1>0. /\ status \in [Doc -> DocumentStatus \cup {"none", "uploading", "gone"}]
      /\ \A e \in chunks : Exists(e) /\ ~Infected(e)
  BY DEF DocumentsInv, DocumentsTypeOK, ChunksAreSound
<1>1. UNCHANGED <<content, worker>>
  BY DEF UploadPut, UploadCommit, UploadRollback, mark_pending_for_reindex, delete
<1>2. PICK s : status' = [status EXCEPT ![d] = s] /\ s # "INDEXED"
  BY DEF UploadPut, UploadCommit, UploadRollback, mark_pending_for_reindex, delete
<1>3. status'[d] = s /\ \A e \in Doc : e # d => status'[e] = status[e]
  BY <1>0, <1>2
<1>4. \A e \in Doc : e # d => (e \in chunks' <=> e \in chunks)
  BY DEF UploadPut, UploadCommit, UploadRollback, mark_pending_for_reindex, delete, Cascade
<1>5. RowMoved(d)
  <2>1. CASE delete(d)
    BY <1>2, <1>3, <2>1 DEF delete, Deletable, Cascade, RowMoved
  <2>2. CASE mark_pending_for_reindex(d)
    <3>1. s = "PENDING" /\ UNCHANGED chunks
      BY <1>0, <1>3, <2>2 DEF mark_pending_for_reindex
    <3>2. QED
      BY <1>3, <3>1 DEF RowMoved, Exists, DocumentStatus
  <2>3. CASE UploadPut(d) \/ UploadCommit(d) \/ UploadRollback(d)
    <3>1. status[d] \in {"none", "uploading"} /\ UNCHANGED chunks
      BY <2>3 DEF UploadPut, UploadCommit, UploadRollback
    <3>2. ~Exists(d) /\ d \notin chunks
      BY <1>0, <3>1 DEF Exists, DocumentStatus
    <3>3. QED
      BY <1>2, <1>3, <3>1, <3>2 DEF RowMoved
  <2>4. QED
    BY <2>1, <2>2, <2>3
<1>6. \A e \in Doc : RowMoved(e)
  BY <1>3, <1>4, <1>5, QuietRow
<1>7. QED
  BY <1>1, <1>6 DEF StepEffects, Moved

(* Workers *)

\* A run that goes on: no row changes for others to see.
LEMMA RunEffects ==
  ASSUME DocumentsInv, NEW w \in Indexer,
         Lock(w) \/ Condemn(w) \/ Extract(w) \/ WriteChunks(w) \/ Upsert(w) \/ Erase(w)
  PROVE  StepEffects
<1>0. DocumentsTypeOK
  BY DEF DocumentsInv
<1>1. UNCHANGED <<status, chunks, content>>
  BY DEF Lock, Condemn, Extract, WriteChunks, Upsert, Erase
<1>2. \A d \in Doc : RowMoved(d)
  BY <1>1, QuietRows
<1>3. PICK pc : /\ Goto(w, pc)
                /\ \/ worker[w].pc = "index" /\ pc = "locked" /\ Exists(worker[w].task.doc)
                   \/ /\ worker[w].pc \in Indexing /\ pc \in Indexing
                      /\ pc \in {"erased", "written", "stored"} =>
                            \/ ~Infected(worker[w].task.doc)
                            \/ worker[w].pc \in {"erased", "written", "stored"}
  BY DEF Lock, Condemn, Extract, WriteChunks, Upsert, Erase, At, Indexing
<1>4. worker' = [worker EXCEPT ![w] = [worker[w] EXCEPT !.pc = pc]]
  BY <1>0, <1>3, OneGoes
<1>5. worker'[w] = [worker[w] EXCEPT !.pc = pc] => Moved(w)
  BY <1>1, <1>3 DEF Moved
<1>6. QED
  BY <1>0, <1>1, <1>2, <1>4, <1>5, WorkerEffects

\* The end of a run: what it commits passed the scanner, and its row is there.
LEMMA CompleteEffects ==
  ASSUME DocumentsInv, NEW w \in Indexer, CommitIndexed(w) \/ CommitFailed(w) \/ MarkWrite(w)
  PROVE  StepEffects
<1>0. DocumentsTypeOK /\ WorkFits(w)
  BY DEF DocumentsInv
<1>1. PICK d : d = worker[w].task.doc
  OBVIOUS
<1>2. /\ worker' = [worker EXCEPT ![w] = Idle] /\ UNCHANGED content
      /\ worker[w].pc \in Indexing \cup Waiting
  BY DEF CommitIndexed, CommitFailed, MarkWrite, Done, At, Indexing, Waiting
<1>3. d \in Doc
  BY <1>0, <1>1, <1>2, WorkerType DEF Working, Indexing, Waiting
<1>4. status \in [Doc -> DocumentStatus \cup {"none", "uploading", "gone"}]
  BY <1>0 DEF DocumentsTypeOK
<1>5. ASSUME NEW e \in Doc PROVE RowMoved(e)
  <2>1. CASE CommitIndexed(w)
    <3>1. /\ status' = [status EXCEPT ![d] = "INDEXED"] /\ chunks' = chunks \cup {d}
          /\ ~Infected(d)
      BY <1>0, <1>1, <2>1 DEF CommitIndexed, At, WorkFits
    <3>2. CASE e = d
      BY <1>3, <1>4, <3>1, <3>2 DEF RowMoved, Exists, DocumentStatus
    <3>3. CASE e # d
      BY <1>4, <3>1, <3>3, QuietRow
    <3>4. QED
      BY <3>2, <3>3
  <2>2. CASE CommitFailed(w) \/ (MarkWrite(w) /\ Exists(d))
    <3>1. status' = [status EXCEPT ![d] = "FAILED"] /\ chunks' = chunks
      BY <1>1, <2>2 DEF CommitFailed, MarkWrite
    <3>2. CASE e = d
      BY <1>3, <1>4, <3>1, <3>2 DEF RowMoved, Exists, DocumentStatus
    <3>3. CASE e # d
      BY <1>4, <3>1, <3>3, QuietRow
    <3>4. QED
      BY <3>2, <3>3
  <2>3. CASE MarkWrite(w) /\ ~Exists(d)
    <3>1. UNCHANGED <<status, chunks>>
      BY <1>1, <2>3 DEF MarkWrite
    <3>2. QED
      BY <3>1, QuietRows
  <2>4. QED
    BY <2>1, <2>2, <2>3
<1>6. worker'[w] = Idle => Moved(w)
  BY DEF Moved, Idle, Indexing
<1>7. QED
  BY <1>0, <1>2, <1>5, <1>6, WorkerEffects

\* A worker that takes a task, cleans up, fails or gives up holds no row afterwards.
LEMMA LetGoEffects ==
  ASSUME DocumentsInv, NEW w \in Indexer,
         \/ Take(w) \/ MarkRead(w) \/ CleanVectors(w) \/ CleanObject(w)
         \/ FailIndex(w) \/ FailMark(w) \/ FailCleanup(w) \/ WorkerLost(w)
  PROVE  StepEffects
<1>0. DocumentsTypeOK
  BY DEF DocumentsInv
<1>1. UNCHANGED <<status, chunks, content>>
  BY DEF Take, MarkRead, CleanVectors, CleanObject, FailIndex, FailMark, FailCleanup, WorkerLost
<1>2. \A d \in Doc : RowMoved(d)
  BY <1>1, QuietRows
<1>3. CASE Take(w)
  <2>1. PICK t \in Queued : worker' = [worker EXCEPT ![w] = [pc |-> t.kind, task |-> t, connected |-> TRUE]]
    BY <1>3 DEF Take
  <2>2. t.kind \in {"index", "cleanup"}
    BY DEF Queued, Task
  <2>3. worker'[w] = [pc |-> t.kind, task |-> t, connected |-> TRUE] => Moved(w)
    BY <2>2 DEF Moved, Indexing
  <2>4. QED
    BY <1>0, <1>1, <1>2, <2>1, <2>3, WorkerEffects
<1>4. CASE Done(w)
  <2>1. worker'[w] = Idle => Moved(w)
    BY DEF Moved, Idle, Indexing
  <2>2. QED
    BY <1>0, <1>1, <1>2, <1>4, <2>1, WorkerEffects DEF Done
<1>5. ASSUME NEW pc, Goto(w, pc), pc \in {"exhausted", "marking", "cleaned"}, Working(w)
      PROVE  StepEffects
  <2>1. worker' = [worker EXCEPT ![w] = [worker[w] EXCEPT !.pc = pc]]
    BY <1>0, <1>5, OneGoes
  <2>2. worker[w] \in AtWork
    BY <1>0, <1>5, WorkerType
  <2>3. worker'[w] = [worker[w] EXCEPT !.pc = pc] => worker'[w].pc = pc
    BY <2>2 DEF AtWork
  <2>4. worker'[w] = [worker[w] EXCEPT !.pc = pc] => Moved(w)
    BY <1>5, <2>3 DEF Moved, Indexing
  <2>5. QED
    BY <1>0, <1>1, <1>2, <2>1, <2>4, WorkerEffects
<1>6. QED
  BY <1>3, <1>4, <1>5 DEF Take, MarkRead, CleanVectors, CleanObject, FailIndex, FailMark, FailCleanup,
        WorkerLost, Retry, GiveUp, At, Working, Indexing

\* A connection is lost.
LEMMA LoseEffects ==
  ASSUME DocumentsInv, NEW w \in Indexer, LoseConnection(w)
  PROVE  StepEffects
<1>0. DocumentsTypeOK
  BY DEF DocumentsInv
<1>1. UNCHANGED <<status, chunks, content>> /\ worker[w].pc \in Indexing
  BY DEF LoseConnection
<1>2. PICK x : x = [worker[w] EXCEPT !.connected = FALSE]
  OBVIOUS
<1>3. worker' = [worker EXCEPT ![w] = x]
  BY <1>0, <1>2, WorkerType DEF LoseConnection
<1>4. \A d \in Doc : RowMoved(d)
  BY <1>1, QuietRows
<1>5. worker'[w] = x => Moved(w)
  BY <1>1, <1>2 DEF Moved
<1>6. QED
  BY <1>0, <1>1, <1>3, <1>4, <1>5, WorkerEffects

\* A second delivery, and the reconciliation, touch no row and no worker.
LEMMA OtherEffects ==
  ASSUME DocumentsInv, (\E t \in Queued : DeliverTwice(t)) \/ Sweep
  PROVE  StepEffects
<1>1. UNCHANGED <<status, chunks, worker, content>>
  BY DEF DeliverTwice, Sweep, SweepKeys, SweepRows, SweepDelete
<1>2. QED
  BY <1>1, QuietRows DEF StepEffects, Moved

\* The types after a step of a worker, from what it does to its own record.
LEMMA WorkerStaysTyped ==
  ASSUME DocumentsTypeOK, NEW w \in Indexer, NEW x \in {Idle} \cup AtWork, worker' = [worker EXCEPT ![w] = x]
  PROVE  worker' \in [Indexer -> {Idle} \cup AtWork]
BY DEF DocumentsTypeOK, AtWork

\* A worker that goes on.
LEMMA GoesTyped ==
  ASSUME DocumentsTypeOK, NEW w \in Indexer, Working(w),
         NEW pc \in Indexing \cup Waiting \cup Cleaning, Goto(w, pc)
  PROVE  worker' \in [Indexer -> {Idle} \cup AtWork]
<1>1. [worker[w] EXCEPT !.pc = pc] \in AtWork
  BY WorkerType DEF AtWork
<1>2. QED
  BY <1>1, OneGoes, WorkerStaysTyped

\* A worker that is done.
LEMMA DoneTyped ==
  ASSUME DocumentsTypeOK, NEW w \in Indexer, Done(w)
  PROVE  worker' \in [Indexer -> {Idle} \cup AtWork]
BY WorkerStaysTyped DEF Done

\* The parts of the types.
Stores ==
    /\ content \in [Doc -> {"text", "malware", "nothing"}]
    /\ chunks \subseteq Doc /\ objects \subseteq Doc /\ vectors \subseteq Doc
    /\ sweep \in [pc : {"idle", "keys", "rows"}, found : SUBSET Doc]
    /\ reindexes \in 0..MaxReindexes /\ faults \in 0..MaxFaults

\* The types, part by part.
LEMMA TypeParts ==
  DocumentsTypeOK <=>
    /\ Stores /\ status \in [Doc -> DocumentStatus \cup {"none", "uploading", "gone"}]
    /\ queue \in [Task -> Nat] /\ worker \in [Indexer -> {Idle} \cup AtWork]
BY DEF DocumentsTypeOK, Stores, AtWork

\* The same after a step.
LEMMA TypePartsNext ==
  ASSUME Stores', status' \in [Doc -> DocumentStatus \cup {"none", "uploading", "gone"}],
         queue' \in [Task -> Nat], worker' \in [Indexer -> {Idle} \cup AtWork]
  PROVE  DocumentsTypeOK'
BY DEF DocumentsTypeOK, Stores, AtWork

\* A fault more, or an index more.
LEMMA CountersTyped ==
  ASSUME Stores
  PROVE  /\ faults < MaxFaults => faults + 1 \in 0..MaxFaults
         /\ reindexes < MaxReindexes => reindexes + 1 \in 0..MaxReindexes
BY DocumentAssumption DEF Stores

\* Every step keeps the types.
LEMMA DocumentsTypeStep ==
  ASSUME DocumentsTypeOK, [DocumentsNext]_documents
  PROVE  DocumentsTypeOK'
<1>0. /\ Stores /\ status \in [Doc -> DocumentStatus \cup {"none", "uploading", "gone"}]
      /\ queue \in [Task -> Nat] /\ worker \in [Indexer -> {Idle} \cup AtWork]
  BY TypeParts
<1>1. ASSUME NEW d \in Doc,
             \/ UploadPut(d) \/ UploadCommit(d) \/ UploadRollback(d) \/ mark_pending_for_reindex(d) \/ delete(d)
      PROVE  DocumentsTypeOK'
  <2>1. Stores'
    BY <1>0, <1>1, CountersTyped DEF Stores, UploadPut, UploadCommit, UploadRollback, mark_pending_for_reindex,
          delete, put, Cascade, Cleanup, EnqueueTask
  <2>2. status' \in [Doc -> DocumentStatus \cup {"none", "uploading", "gone"}] /\ UNCHANGED worker
    BY <1>0, <1>1 DEF DocumentStatus, UploadPut, UploadCommit, UploadRollback, mark_pending_for_reindex, delete
  <2>3. UNCHANGED queue \/ \E t \in Task : Deliver(t)
    BY <1>1, TaskType DEF UploadPut, UploadCommit, UploadRollback, mark_pending_for_reindex, delete, Cleanup,
          EnqueueTask
  <2>4. queue' \in [Task -> Nat]
    BY <1>0, <2>3, Delivered
  <2>5. QED
    BY <1>0, <2>1, <2>2, <2>4, TypePartsNext
<1>2. ASSUME NEW w \in Indexer, Take(w) PROVE DocumentsTypeOK'
  <2>1. PICK t \in Queued : /\ queue' = [queue EXCEPT ![t] = queue[t] - 1]
                            /\ worker' = [worker EXCEPT ![w] = [pc |-> t.kind, task |-> t, connected |-> TRUE]]
    BY <1>2 DEF Take
  <2>2. t \in Task /\ queue[t] \in Nat \ {0} /\ t.kind \in {"index", "cleanup"}
    <3>1. t \in Task /\ queue[t] > 0
      BY DEF Queued
    <3>2. queue[t] \in Nat
      BY <1>0, <3>1
    <3>3. t.kind \in {"index", "cleanup"}
      BY <3>1 DEF Task
    <3>4. QED
      BY <3>1, <3>2, <3>3
  <2>3. [pc |-> t.kind, task |-> t, connected |-> TRUE] \in AtWork
    BY <2>2 DEF AtWork, Waiting, Cleaning
  <2>4. queue' \in [Task -> Nat] /\ worker' \in [Indexer -> {Idle} \cup AtWork]
    BY <1>0, <2>1, <2>2, <2>3, WorkerStaysTyped
  <2>5. Stores' /\ UNCHANGED status
    BY <1>0, <1>2 DEF Take, Stores
  <2>6. QED
    BY <1>0, <2>4, <2>5, TypePartsNext
<1>3. ASSUME NEW w \in Indexer, Run(w) PROVE DocumentsTypeOK'
  <2>1. Working(w)
    BY <1>3 DEF Run, Lock, Condemn, Extract, Erase, WriteChunks, Upsert, CommitIndexed, CommitFailed, MarkRead,
          MarkWrite, CleanVectors, CleanObject, At, Working
  <2>2. worker[w].task.doc \in Doc
    BY <2>1, WorkerType
  <2>3. Stores'
    BY <1>0, <1>3, <2>2 DEF Stores, Run, Lock, Condemn, Extract, Erase, WriteChunks, Upsert, Stored,
          CommitIndexed, CommitFailed, MarkRead, MarkWrite, CleanVectors, CleanObject
  <2>4. status' \in [Doc -> DocumentStatus \cup {"none", "uploading", "gone"}] /\ UNCHANGED queue
    BY <1>0, <1>3 DEF DocumentStatus, Run, Lock, Condemn, Extract, Erase, WriteChunks, Upsert, CommitIndexed,
          CommitFailed, MarkRead, MarkWrite, CleanVectors, CleanObject
  <2>5. Done(w) \/ \E pc \in Indexing \cup Waiting \cup Cleaning : Goto(w, pc)
    BY <1>3 DEF Indexing, Waiting, Cleaning, Run, Lock, Condemn, Extract, Erase, WriteChunks, Upsert,
          CommitIndexed, CommitFailed, MarkRead, MarkWrite, CleanVectors, CleanObject
  <2>6. worker' \in [Indexer -> {Idle} \cup AtWork]
    BY <2>1, <2>5, GoesTyped, DoneTyped
  <2>7. QED
    BY <1>0, <2>3, <2>4, <2>6, TypePartsNext
<1>4. ASSUME NEW w \in Indexer, FailIndex(w) \/ FailMark(w) \/ FailCleanup(w) \/ WorkerLost(w) PROVE DocumentsTypeOK'
  <2>1. Working(w)
    BY <1>4 DEF FailIndex, FailMark, FailCleanup, WorkerLost, Working, Indexing, Cleaning
  <2>2. worker[w].task.doc \in Doc /\ worker[w].task \in Task
    BY <2>1, WorkerType
  <2>3. Stores' /\ UNCHANGED status
    BY <1>0, <1>4, <2>2, CountersTyped DEF Stores, FailIndex, FailMark, FailCleanup, WorkerLost
  <2>4. UNCHANGED queue \/ \E t \in Task : Deliver(t)
    BY <1>4, <2>2, TaskType DEF FailIndex, FailMark, FailCleanup, WorkerLost, Retry, GiveUp
  <2>5. queue' \in [Task -> Nat]
    BY <1>0, <2>4, Delivered
  <2>6. Done(w) \/ Goto(w, "exhausted")
    BY <1>4 DEF FailIndex, FailMark, FailCleanup, WorkerLost, Retry, GiveUp
  <2>7. worker' \in [Indexer -> {Idle} \cup AtWork]
    BY <2>1, <2>6, GoesTyped, DoneTyped DEF Waiting
  <2>8. QED
    BY <1>0, <2>3, <2>5, <2>7, TypePartsNext
<1>5. ASSUME NEW w \in Indexer, LoseConnection(w) PROVE DocumentsTypeOK'
  <2>1. worker[w] \in AtWork
    BY <1>5, WorkerType DEF LoseConnection, Working, Indexing
  <2>2. [worker[w] EXCEPT !.connected = FALSE] \in AtWork
    BY <2>1 DEF AtWork
  <2>3. worker' = [worker EXCEPT ![w] = [worker[w] EXCEPT !.connected = FALSE]]
    BY <1>5, WorkerType DEF LoseConnection
  <2>4. worker' \in [Indexer -> {Idle} \cup AtWork]
    BY <2>2, <2>3, WorkerStaysTyped
  <2>5. Stores' /\ UNCHANGED <<status, queue>>
    BY <1>0, <1>5, CountersTyped DEF Stores, LoseConnection
  <2>6. QED
    BY <1>0, <2>4, <2>5, TypePartsNext
<1>6. ASSUME NEW t \in Queued, DeliverTwice(t) PROVE DocumentsTypeOK'
  <2>1. Stores' /\ UNCHANGED <<status, worker>>
    BY <1>0, <1>6, CountersTyped DEF Stores, DeliverTwice
  <2>2. queue' \in [Task -> Nat]
    BY <1>6, Delivered DEF DeliverTwice, Queued
  <2>3. QED
    BY <1>0, <2>1, <2>2, TypePartsNext
<1>7. CASE Sweep
  <2>1. Stores' /\ UNCHANGED <<status, queue, worker>>
    BY <1>0, <1>7 DEF Stores, Sweep, SweepKeys, SweepRows, SweepDelete, Orphans
  <2>2. QED
    BY <1>0, <2>1, TypePartsNext
<1>8. CASE UNCHANGED documents
  BY <1>0, <1>8, TypePartsNext DEF documents, Stores
<1>9. QED
  BY <1>1, <1>2, <1>3, <1>4, <1>5, <1>6, <1>7, <1>8 DEF DocumentsNext, Fault

\* At the start there is nothing to do.
LEMMA DocumentsStart ==
  ASSUME DocumentsInit
  PROVE  DocumentsInv
<1>1. Stores
  BY DocumentAssumption DEF DocumentsInit, Stores
<1>2. DocumentsTypeOK
  BY <1>1, TypeParts DEF DocumentsInit
<1>3. ChunksAreSound /\ IndexedHasChunks
  BY DEF DocumentsInit, ChunksAreSound, IndexedHasChunks
<1>4. \A w \in Indexer : WorkFits(w)
  BY DEF DocumentsInit, WorkFits, Idle, Indexing
<1>5. QED
  BY <1>2, <1>3, <1>4 DEF DocumentsInv

\* Every step keeps the invariant.
LEMMA DocumentsStep ==
  ASSUME DocumentsInv, [DocumentsNext]_documents
  PROVE  DocumentsInv'
<1>0. DocumentsTypeOK /\ DocumentsTypeOK'
  BY DocumentsTypeStep DEF DocumentsInv
<1>1. ASSUME NEW w \in Indexer, Run(w) PROVE StepEffects
  BY <1>1, RunEffects, CompleteEffects, LetGoEffects DEF Run
<1>2. ASSUME NEW w \in Indexer, Take(w) \/ FailIndex(w) \/ Fault(w) PROVE StepEffects
  BY <1>2, LetGoEffects, LoseEffects DEF Fault
<1>3. CASE DocumentsNext
  <2>1. StepEffects
    BY <1>1, <1>2, <1>3, RequestEffects, OtherEffects DEF DocumentsNext
  <2>2. QED
    BY <1>0, <2>1, EffectsSuffice
<1>4. CASE UNCHANGED documents
  <2>1. UNCHANGED <<status, chunks, content, worker>>
    BY <1>4 DEF documents
  <2>2. StepEffects
    BY <2>1, QuietRows DEF StepEffects, Moved
  <2>3. QED
    BY <1>0, <2>2, EffectsSuffice
<1>5. QED
  BY <1>3, <1>4

(* The records of documents, tasks and workers keep their types *)
THEOREM DocumentsTyped == DocumentsSpec => []DocumentsTypeOK
<1>1. DocumentsInit => DocumentsInv
  BY DocumentsStart
<1>2. DocumentsInv /\ [DocumentsNext]_documents => DocumentsInv'
  BY DocumentsStep
<1>3. DocumentsInv => DocumentsTypeOK
  BY DEF DocumentsInv
<1>4. QED
  BY <1>1, <1>2, <1>3, PTL DEF DocumentsSpec

(* A search returns only what belongs to a document that exists and passed *)
(* the scanner, and what is marked INDEXED has its chunk rows, with any    *)
(* number of documents, workers, deaths, lost connections, retries,        *)
(* duplicates, deletions and sweeps.                                       *)
THEOREM SearchStaysSound == DocumentsSpec => []SearchIsSound
<1>1. DocumentsInit => DocumentsInv
  BY DocumentsStart
<1>2. DocumentsInv /\ [DocumentsNext]_documents => DocumentsInv'
  BY DocumentsStep
<1>3. DocumentsInv => SearchIsSound
  BY DEF DocumentsInv, ChunksAreSound, IndexedHasChunks, SearchIsSound, search
<1>4. QED
  BY <1>1, <1>2, <1>3, PTL DEF DocumentsSpec
=============================================================================
