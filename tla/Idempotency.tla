----------------------------- MODULE Idempotency -----------------------------
(***************************************************************************)
(* Idempotent operations: IdempotencyService.claim and complete inside the *)
(* transactions of issue_invoice, record_payment, checkout and refund, and *)
(* the clients that repeat a request whose answer they did not get.        *)
(*                                                                         *)
(* A client has an intent (pay this invoice), sends a request for it with  *)
(* a key, and may send another before it has an answer.  A request that is *)
(* lost is one no session accepts; an answer that is lost is one its       *)
(* client never reads.  The body of a request stands for its request_hash. *)
(* One endpoint is modelled: keys of different endpoints never meet.       *)
(***************************************************************************)
EXTENDS Naturals, Sequences, FiniteSets

CONSTANTS
    Intent,         \* what clients want done, each once
    Key,            \* Idempotency-Key values
    BodyOf,         \* the request body of each intent
    Session,        \* server sessions (workers with a database transaction)
    MaxTries,       \* bound: requests a client sends for each intent
    MaxChanges      \* bound: later changes to one document

Body == {BodyOf[i] : i \in Intent}

ASSUME BodyAssumption == BodyOf \in [Intent -> Body]
ASSUME BoundAssumption == MaxTries \in [Intent -> Nat] /\ MaxChanges \in Nat

VARIABLES
    keyRow,     \* committed idempotency_keys rows
    docs,       \* committed documents, in commit order; a document's id is its place
    holder,     \* sessions with an uncommitted row of each key
    session,    \* what each session is doing
    sent,       \* requests a client has sent for an intent
    requests,   \* requests on their way to a session
    answers,    \* answers the sessions have sent
    got         \* intents whose client has read a final answer

vars == <<keyRow, docs, holder, session, sent, requests, answers, got>>

NoKeyRow == [status |-> "NONE"]
IdleSession == [at |-> "idle"]
Serving(stage, r) == [at |-> stage, intent |-> r.intent, key |-> r.key]

KeyRow == {NoKeyRow} \cup
    [status : {"IN_PROGRESS", "COMPLETED"}, body : Body, doc : Nat \ {0}]
DocRow == [intent : Intent, key : Key, body : Body, changes : Nat]
Request == [intent : Intent, key : Key, attempt : Nat]
Answer == [intent : Intent, key : Key, code : {"DONE", "REPLAYED", "REUSE", "IN_PROGRESS", "REJECTED"},
           doc : Nat, changes : Nat]

-----------------------------------------------------------------------------
\* A retry repeats its key or draws another, as a second press of the frontend's
\* buttons does: what is promised is promised per key, not per intent.
Send(i, k) ==
    /\ i \notin got
    /\ sent[i] < MaxTries[i]
    /\ sent' = [sent EXCEPT ![i] = @ + 1]
    /\ requests' = requests \cup {[intent |-> i, key |-> k, attempt |-> sent[i] + 1]}
    /\ UNCHANGED <<keyRow, docs, holder, session, answers, got>>

\* The client reads an answer; a refusal for business reasons ends nothing.
Read(a) ==
    /\ a.intent \notin got
    /\ a.code \in {"DONE", "REPLAYED", "REUSE"}
    /\ got' = got \cup {a.intent}
    /\ UNCHANGED <<keyRow, docs, holder, session, sent, requests, answers>>

Accept(w, r) ==
    /\ session[w] = IdleSession
    /\ session' = [session EXCEPT ![w] = Serving("claim", r)]
    /\ requests' = requests \ {r}
    /\ UNCHANGED <<keyRow, docs, holder, sent, answers, got>>

\* Mistake: the claim looks the key up and inserts it without the unique index.
MayClaimUnguarded(w) == session[w].at = "claim"

\* INSERT ... ON CONFLICT DO NOTHING waits while another transaction has inserted
\* the same (tenant, endpoint, key) and not ended.
MayClaim(w) == session[w].at = "claim" /\ holder[session[w].key] \subseteq {w}

\* The insert wins when there is no committed row.
ClaimWon(w) ==
    /\ MayClaim(w)
    /\ keyRow[session[w].key] = NoKeyRow
    /\ holder' = [holder EXCEPT ![session[w].key] = @ \cup {w}]
    /\ session' = [session EXCEPT ![w] = Serving("work", session[w])]
    /\ UNCHANGED <<keyRow, docs, sent, requests, answers, got>>

Answered(w, code, doc) ==
    [intent |-> session[w].intent, key |-> session[w].key, code |-> code, doc |-> doc,
     changes |-> IF doc \in DOMAIN docs THEN docs[doc].changes ELSE 0]

\* Mistake: the hash of the request body is not compared.
VerdictWithoutHash(found, body) == IF found.status = "IN_PROGRESS" THEN "IN_PROGRESS" ELSE "REPLAYED"

\* What claim makes of the row it lost to.  The body is compared before the status.
Verdict(found, body) ==
    CASE found.body # body -> "REUSE"
      [] found.body = body /\ found.status = "IN_PROGRESS" -> "IN_PROGRESS"
      [] OTHER -> "REPLAYED"

\* The insert loses to a committed row.  A replay reads the document by the stored
\* id, as it is now; documents are never deleted, so it is always found.
ClaimLost(w) ==
    LET found == keyRow[session[w].key]
        verdict == Verdict(found, BodyOf[session[w].intent])
    IN  /\ MayClaim(w)
        /\ found # NoKeyRow
        /\ answers' = answers \cup
             {Answered(w, verdict, IF verdict = "REPLAYED" THEN found.doc ELSE 0)}
        /\ session' = [session EXCEPT ![w] = IdleSession]
        /\ UNCHANGED <<keyRow, docs, holder, sent, requests, got>>

\* Mistake: a request that ends keeps its key.
ReleasedNever(w) == holder

Released(w) == [k \in Key |-> holder[k] \ {w}]

\* complete: the snapshot holds the id of the document.
Completed(w, doc) ==
    [status |-> "COMPLETED", body |-> BodyOf[session[w].intent], doc |-> doc]

NewDoc(w) ==
    [intent |-> session[w].intent, key |-> session[w].key,
     body |-> BodyOf[session[w].intent], changes |-> 0]

\* The business rows, the key row and its response commit together; the answer
\* is sent after the commit.
Commit(w) ==
    /\ session[w].at = "work"
    /\ docs' = Append(docs, NewDoc(w))
    /\ keyRow' = [keyRow EXCEPT ![session[w].key] = Completed(w, Len(docs) + 1)]
    /\ holder' = Released(w)
    /\ answers' = answers \cup {Answered(w, "DONE", Len(docs) + 1)}
    /\ session' = [session EXCEPT ![w] = IdleSession]
    /\ UNCHANGED <<sent, requests, got>>

\* The operation is refused (a closed session, an over-allocation, ...): the
\* rollback takes the key row with it and nothing is stored.
Reject(w) ==
    /\ session[w].at = "work"
    /\ holder' = Released(w)
    /\ answers' = answers \cup {Answered(w, "REJECTED", 0)}
    /\ session' = [session EXCEPT ![w] = IdleSession]
    /\ UNCHANGED <<keyRow, docs, sent, requests, got>>

\* The process dies, at any point of the request: a rollback and no answer.
Crash(w) ==
    /\ session[w] # IdleSession
    /\ holder' = Released(w)
    /\ session' = [session EXCEPT ![w] = IdleSession]
    /\ UNCHANGED <<keyRow, docs, sent, requests, answers, got>>

\* Another operation changes a document: an invoice is paid, a sale is refunded.
Change(d) ==
    /\ docs[d].changes < MaxChanges
    /\ docs' = [docs EXCEPT ![d].changes = @ + 1]
    /\ UNCHANGED <<keyRow, holder, session, sent, requests, answers, got>>

Init ==
    /\ keyRow = [k \in Key |-> NoKeyRow]
    /\ docs = <<>>
    /\ holder = [k \in Key |-> {}]
    /\ session = [w \in Session |-> IdleSession]
    /\ sent = [i \in Intent |-> 0]
    /\ requests = {}
    /\ answers = {}
    /\ got = {}

Step(w) == ClaimWon(w) \/ ClaimLost(w) \/ Commit(w)

Next ==
    \/ \E i \in Intent, k \in Key : Send(i, k)
    \/ \E a \in answers : Read(a)
    \/ \E w \in Session, r \in requests : Accept(w, r)
    \/ \E w \in Session : Step(w) \/ Reject(w) \/ Crash(w)
    \/ \E d \in DOMAIN docs : Change(d)

Spec == Init /\ [][Next]_vars

\* A session that has a request goes on with it; a claim that becomes possible
\* again and again is granted.
FairSpec == Spec /\ \A w \in Session : SF_vars(Step(w))

-----------------------------------------------------------------------------
\* Every variable holds a value of its table's, session's or message's shape; a
\* committed key row names a document.
TypeOK ==
    /\ keyRow \in [Key -> KeyRow]
    /\ docs \in Seq(DocRow)
    /\ holder \in [Key -> SUBSET Session]
    /\ session \in [Session -> {IdleSession} \cup [at : {"claim", "work"}, intent : Intent, key : Key]]
    /\ sent \in [Intent -> Nat]
    /\ requests \subseteq Request
    /\ answers \subseteq Answer
    /\ got \subseteq Intent

\* The documents committed under a key.
Effects == [k \in Key |-> {d \in 1..Len(docs) : docs[d].key = k}]

Once == INSTANCE ExactlyOnce WITH effects <- Effects

\* Whatever requests race, crash and repeat, a key performs one operation, once.
ImplementsExactlyOnce == Once!Spec

\* A recorded key and its document exist together: the row names the one
\* document of its key, and that document was made from the recorded body.
KeyIffDocument ==
    \A k \in Key :
        IF keyRow[k] = NoKeyRow THEN Effects[k] = {}
        ELSE /\ Effects[k] = {keyRow[k].doc}
             /\ docs[keyRow[k].doc].body = keyRow[k].body

\* All successful answers for a key, first or replayed, name the same committed
\* document, and it was made from the body of the request they answer.
AnswersAgree ==
    \A a \in answers : a.code \in {"DONE", "REPLAYED"} =>
        /\ Effects[a.key] = {a.doc}
        /\ docs[a.doc].body = BodyOf[a.intent]

\* A client that repeats its key is never told to come back later for good: an
\* identical request that loses is given the document.
NeverStuckInProgress == \A a \in answers : a.code # "IN_PROGRESS"

\* Every request a session accepts comes to an end.
EveryRequestEnds == \A w \in Session : session[w] # IdleSession ~> session[w] = IdleSession
=============================================================================
