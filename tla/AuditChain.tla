----------------------------- MODULE AuditChain -----------------------------
(***************************************************************************)
(* The tamper-evident audit trail (ADR-0016).  A BEFORE INSERT trigger     *)
(* (migration 0024) numbers each row and hashes it with the hash of its    *)
(* predecessor while it holds an advisory lock of the tenant until the     *)
(* transaction ends; verify_chain (modules/audit/chain.py) recomputes the  *)
(* chain.  security_events has a twin of the trigger and of the query.     *)
(* The digest is taken to be injective: hash is the pair it digests.       *)
(***************************************************************************)
EXTENDS Integers, FiniteSets

CONSTANT Genesis    \* the NULL hash before the first row of a tenant

VARIABLES
    audit_events,   \* committed rows of the tenant
    chain_seq,      \* the sequence: last value drawn, never given back
    inserted        \* rows of open transactions, with the transaction that inserted each

chainVars == <<audit_events, chain_seq, inserted>>

nexora_chain_hash(prev, event) == <<prev, event>>
NextSeq == chain_seq + 1
AuditEvent(seq, prev, event) ==
    [seq |-> seq, prev |-> prev, event |-> event, hash |-> nexora_chain_hash(prev, event)]

\* The hash of the latest row with a sequence number below n, as LAG(hash) sees it.  Rows older
\* than migration 0024 have no number and no hash; ORDER BY chain_seq DESC puts them first, so a
\* tenant that has any gives every new row a NULL predecessor.  Tenants here have none.
LatestHash(rows) ==
    IF rows = {} THEN Genesis
    ELSE (CHOOSE row \in rows : \A other \in rows : other.seq <= row.seq).hash
HashBefore(rows, n) == LatestHash({row \in rows : row.seq < n})

\* pg_advisory_xact_lock(hashtext('audit_events:' || tenant)): one inserting transaction at a time.
ChainFreeUnlocked(t) == TRUE
ChainFree(t) == \A p \in inserted : p.by = t

\* The query of the trigger reads what is committed now and the transaction's own rows.
nexora_chain_audit_events(t, event) ==
    LET visible == audit_events \cup {p.row : p \in {q \in inserted : q.by = t}}
        prev == HashBefore(visible, NextSeq)
    IN  /\ ChainFree(t)
        /\ chain_seq' = NextSeq
        /\ inserted' = inserted \cup {[by |-> t, row |-> AuditEvent(NextSeq, prev, event)]}
        /\ UNCHANGED audit_events

\* The rows of transaction t become visible at its commit, or vanish with their numbers.
ChainCommit(t) ==
    /\ audit_events' = audit_events \cup {p.row : p \in {q \in inserted : q.by = t}}
    /\ inserted' = {p \in inserted : p.by # t}
    /\ UNCHANGED chain_seq
ChainRollback(t) ==
    /\ inserted' = {p \in inserted : p.by # t}
    /\ UNCHANGED <<audit_events, chain_seq>>

\* The rows the verifier reports: a link or a hash that does not follow from the predecessor.
verify_chain ==
    {row \in audit_events :
        LET prev == HashBefore(audit_events, row.seq)
        IN  row.prev # prev \/ row.hash # nexora_chain_hash(prev, row.event)}

ChainInit == audit_events = {} /\ chain_seq = 0 /\ inserted = {}

\* Concurrent transactions, waiting and rolled back ones included, never leave a trail that
\* verify_chain would report as tampered with (0024_phase_11_audit_chain.py:93).
ChainVerifies == verify_chain = {}
=============================================================================
