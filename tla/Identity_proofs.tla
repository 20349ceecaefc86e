-------------------------- MODULE Identity_proofs --------------------------
(***************************************************************************)
(* Who is asking and what they may do: access control and the audit trail, *)
(* for any number of accounts, roles, invitations, branches and concurrent *)
(* requests, and the refresh of a browser session, for any number of its   *)
(* requests and any bounds that satisfy the inequality asserted in         *)
(* bff-session.ts.  The two specifications share no state.                 *)
(*                                                                         *)
(* The audit trail has an invariant of its own, ChainInv.  For the rest,   *)
(* RowInv says what each request may rely on while its transaction is      *)
(* open, PairInv that two requests never hold conflicting locks or write   *)
(* the same row, TablesInv and CacheInv what is committed and cached.  A   *)
(* step that writes no table is covered by one lemma, RequestStep, and an  *)
(* operation only has to show that it is Sound; the argument about other   *)
(* transactions is made once, for Commit: the rows they rely on are locked *)
(* against the one that commits (CommitOthers).                            *)
(***************************************************************************)
EXTENDS Access, SessionRefresh, FiniteSetTheorems, TLAPS

(* The audit trail.                                                        *)

InsertedRows == {p.row : p \in inserted}

\* A row that follows from the rows before it.
Follows(row, rows) ==
    /\ row.prev = HashBefore(rows, row.seq)
    /\ row.hash = nexora_chain_hash(row.prev, row.event)

\* What the lock of the trigger keeps: the rows not yet committed are all of one transaction, they
\* are numbered after every committed row, and every row follows from those before it.
ChainInv ==
    /\ chain_seq \in Nat
    /\ \A row \in audit_events : row.seq \in Nat /\ row.seq <= chain_seq
    /\ \A row \in audit_events : Follows(row, audit_events)
    /\ \A p, other \in inserted : p.by = other.by
    /\ \A p \in inserted : p.row.seq \in Nat /\ p.row.seq <= chain_seq
    /\ \A p \in inserted : \A row \in audit_events : row.seq < p.row.seq
    /\ \A p \in inserted : Follows(p.row, audit_events \cup InsertedRows)

\* A row with a number of n or more does not change what the rows before n say.
LEMMA HashBeforeKept ==
  ASSUME NEW rows, NEW more, NEW n, \A row \in more : ~(row.seq < n)
  PROVE  HashBefore(rows \cup more, n) = HashBefore(rows, n)
<1>1. {row \in rows \cup more : row.seq < n} = {row \in rows : row.seq < n}
  OBVIOUS
<1>2. QED
  BY <1>1 DEF HashBefore

\* The columns of an audit row.
LEMMA AuditEventRow ==
  ASSUME NEW seq, NEW prev, NEW event
  PROVE  LET row == AuditEvent(seq, prev, event)
         IN  /\ row.seq = seq /\ row.prev = prev /\ row.event = event
             /\ row.hash = nexora_chain_hash(prev, event)
BY DEF AuditEvent

\* The trigger keeps it: the new row follows from what the transaction sees, which is every row.
LEMMA ChainInsert ==
  ASSUME ChainInv, NEW t, NEW event, nexora_chain_audit_events(t, event)
  PROVE  ChainInv'
<1> DEFINE old == audit_events \cup InsertedRows
           prev == HashBefore(old, NextSeq)
           new == AuditEvent(NextSeq, prev, event)
<1>1. \A p \in inserted : p.by = t
  BY DEF nexora_chain_audit_events, ChainFree
<1>2. {q \in inserted : q.by = t} = inserted
  BY <1>1
<1>3. /\ chain_seq' = NextSeq /\ audit_events' = audit_events
      /\ inserted' = inserted \cup {[by |-> t, row |-> new]}
  <2>1. audit_events \cup {p.row : p \in {q \in inserted : q.by = t}} = old
    BY <1>2 DEF InsertedRows
  <2>2. QED
    BY <2>1 DEF nexora_chain_audit_events
<1>4. /\ new.seq = NextSeq /\ new.prev = prev /\ new.event = event
      /\ new.hash = nexora_chain_hash(prev, event)
  BY AuditEventRow
<1> HIDE DEF new, prev
<1>5. audit_events' \cup InsertedRows' = old \cup {new}
  <2> DEFINE entry == [by |-> t, row |-> new]
  <2>1. inserted' = inserted \cup {entry} /\ entry.row = new
    BY <1>3
  <2> HIDE DEF entry
  <2>2. {p.row : p \in inserted \cup {entry}} = {p.row : p \in inserted} \cup {new}
    BY <2>1
  <2>3. QED
    BY <2>1, <2>2, <1>3 DEF InsertedRows
<1>6. NextSeq \in Nat /\ NextSeq > chain_seq /\ chain_seq \in Nat
  BY DEF ChainInv, NextSeq
<1>7. \A row \in old : row.seq \in Nat /\ row.seq <= chain_seq
  BY DEF ChainInv, InsertedRows
<1>8. \A row \in old : HashBefore(old \cup {new}, row.seq) = HashBefore(old, row.seq)
  <2>1. SUFFICES ASSUME NEW row \in old PROVE HashBefore(old \cup {new}, row.seq) = HashBefore(old, row.seq)
    OBVIOUS
  <2>2. \A x \in {new} : ~(x.seq < row.seq)
    BY <1>4, <1>6, <1>7
  <2>3. QED
    BY <2>2, HashBeforeKept
<1>9. HashBefore(old \cup {new}, NextSeq) = prev
  <2>1. \A x \in {new} : ~(x.seq < NextSeq)
    BY <1>4, <1>6
  <2>2. QED
    BY <2>1, HashBeforeKept DEF prev
<1>10. (chain_seq \in Nat)'
  BY <1>3, <1>6
<1>11. (\A row \in audit_events : row.seq \in Nat /\ row.seq <= chain_seq)'
  BY <1>3, <1>6, <1>7
<1>12. (\A row \in audit_events : Follows(row, audit_events))'
  BY <1>3 DEF ChainInv, Follows
<1>13. (\A p, other \in inserted : p.by = other.by)'
  BY <1>1, <1>3
<1>14. (\A p \in inserted : p.row.seq \in Nat /\ p.row.seq <= chain_seq)'
  BY <1>3, <1>4, <1>6 DEF ChainInv
<1>15. (\A p \in inserted : \A row \in audit_events : row.seq < p.row.seq)'
  BY <1>3, <1>4, <1>6, <1>7 DEF ChainInv
<1>16. (\A p \in inserted : Follows(p.row, audit_events \cup InsertedRows))'
  <2>1. SUFFICES ASSUME NEW p \in inserted' PROVE Follows(p.row, old \cup {new})
    BY <1>5 DEF Follows
  <2>2. CASE p \in inserted
    <3>1. p.row \in old
      BY <2>2 DEF InsertedRows
    <3>2. QED
      BY <2>2, <3>1, <1>8 DEF ChainInv, Follows
  <2>3. CASE p.row = new
    BY <2>3, <1>4, <1>9 DEF Follows
  <2>4. QED
    BY <1>3, <2>2, <2>3
<1>17. QED
  BY <1>10, <1>11, <1>12, <1>13, <1>14, <1>15, <1>16 DEF ChainInv

\* Without a row to insert the trail stays as it is.
LEMMA ChainUnchanged ==
  ASSUME ChainInv, UNCHANGED chainVars
  PROVE  ChainInv'
BY DEF ChainInv, chainVars, InsertedRows, Follows

\* A commit shows all the rows that are not yet committed, or none.
LEMMA ChainCommits ==
  ASSUME ChainInv, NEW t, ChainCommit(t)
  PROVE  ChainInv'
<1>1. CASE \A p \in inserted : p.by = t
  <2>1. {q \in inserted : q.by = t} = inserted /\ {p \in inserted : p.by # t} = {}
    BY <1>1
  <2>2. audit_events' = audit_events \cup InsertedRows /\ inserted' = {} /\ chain_seq' = chain_seq
    BY <2>1 DEF ChainCommit, InsertedRows
  <2>3. \A row \in audit_events \cup InsertedRows : row.seq \in Nat /\ row.seq <= chain_seq
    BY DEF ChainInv, InsertedRows
  <2>4. \A row \in InsertedRows : Follows(row, audit_events \cup InsertedRows)
    BY DEF ChainInv, InsertedRows
  <2>5. \A row \in audit_events : Follows(row, audit_events \cup InsertedRows)
    <3>1. SUFFICES ASSUME NEW row \in audit_events
                   PROVE  Follows(row, audit_events \cup InsertedRows)
      OBVIOUS
    <3>2. \A x \in InsertedRows : ~(x.seq < row.seq)
      <4>1. SUFFICES ASSUME NEW p \in inserted PROVE ~(p.row.seq < row.seq)
        BY DEF InsertedRows
      <4>2. row.seq < p.row.seq /\ row.seq \in Nat /\ p.row.seq \in Nat
        BY DEF ChainInv
      <4>3. QED
        BY <4>2
    <3>3. HashBefore(audit_events \cup InsertedRows, row.seq) = HashBefore(audit_events, row.seq)
      BY <3>2, HashBeforeKept
    <3>4. QED
      BY <3>3 DEF ChainInv, Follows
  <2>6. QED
    BY <2>2, <2>3, <2>4, <2>5 DEF ChainInv, Follows
<1>2. CASE ~(\A p \in inserted : p.by = t)
  <2>1. \A p \in inserted : p.by # t
    BY <1>2 DEF ChainInv
  <2>2. {q \in inserted : q.by = t} = {} /\ {p \in inserted : p.by # t} = inserted
    BY <2>1
  <2>3. UNCHANGED chainVars
    BY <2>2 DEF ChainCommit, chainVars
  <2>4. QED
    BY <2>3, ChainUnchanged
<1>3. QED
  BY <1>1, <1>2

\* A rollback drops all the rows that are not yet committed, or none.
LEMMA ChainRollsBack ==
  ASSUME ChainInv, NEW t, ChainRollback(t)
  PROVE  ChainInv'
<1>1. CASE \A p \in inserted : p.by = t
  <2>1. inserted' = {} /\ audit_events' = audit_events /\ chain_seq' = chain_seq
    BY <1>1 DEF ChainRollback
  <2>2. QED
    BY <2>1 DEF ChainInv, Follows
<1>2. CASE ~(\A p \in inserted : p.by = t)
  <2>1. \A p \in inserted : p.by # t
    BY <1>2 DEF ChainInv
  <2>2. {p \in inserted : p.by # t} = inserted
    BY <2>1
  <2>3. UNCHANGED chainVars
    BY <2>2 DEF ChainRollback, chainVars
  <2>4. QED
    BY <2>3, ChainUnchanged
<1>3. QED
  BY <1>1, <1>2

\* Every step keeps the trail sound: only flush, commit and rollback touch it.
LEMMA ChainStep ==
  ASSUME ChainInv, [Next]_vars
  PROVE  ChainInv'
<1> USE ChainUnchanged
<1>1. CASE UNCHANGED vars
  BY <1>1 DEF vars
<1>2. ASSUME NEW q \in Request, ~(UNCHANGED chainVars), Next, 
             Flush(q) \/ Commit(q) \/ Rollback(q)
      PROVE  ChainInv'
  <2>1. CASE Flush(q)
    BY <2>1, <1>2, ChainInsert DEF Flush, record
  <2>2. CASE Commit(q)
    BY <2>2, ChainCommits DEF Commit
  <2>3. CASE Rollback(q)
    BY <2>3, ChainRollsBack DEF Rollback
  <2>4. QED
    BY <1>2, <2>1, <2>2, <2>3
<1>3. CASE Next
  <2>1. PICK q \in Request : Next!(q)
    BY <1>3 DEF Next
  <2>2. (Flush(q) \/ Commit(q) \/ Rollback(q)) \/ UNCHANGED chainVars
    BY <2>1 DEF get_active_membership, CacheHit, CacheMiss, CachePermissions, update_roles,
       update_branches, update_status, create_role, update_role, rename_role, delete_role, invite,
       revoke_invitation, resend, accept, create_branch, update_branch, deactivate_branch,
       update_current, bump_assigned_memberships, Prepare
  <2>3. QED
    BY <1>2, <1>3, <2>2
<1>4. QED
  BY <1>1, <1>3

\* A trail whose rows follow from those before them verifies.
LEMMA ChainSound == ChainInv => ChainVerifies
BY DEF ChainInv, ChainVerifies, verify_chain, Follows

\* The trail of committed audit rows always verifies, for any number of concurrent requests,
\* committed or rolled back, that insert audit rows under the lock of the tenant
\* (0024_phase_11_audit_chain.py:93).
THEOREM TrailVerifies == Spec => []ChainVerifies
<1>1. Init => ChainInv
  BY DEF Init, ChainInit, ChainInv
<1>2. ChainInv /\ [Next]_vars => ChainInv'
  BY ChainStep
<1>3. QED
  BY <1>1, <1>2, ChainSound, PTL DEF Spec

----------------------------------------------------------------------------
(* What a request relies on.  x and y stand for rows of request.           *)

\* Only a request past its checks has locks and rows to write; members of a role are bumped
\* before anything is flushed.
Idle(x) ==
    /\ x.step \notin {"checked", "flushed"} => x.locks = {} /\ x.write = NoWrite
    /\ x.write.bumps # {} => x.step # "flushed" /\ DOMAIN x.write.memberships = {}

\* A membership is written by the holder of its lock, or by the one who holds the pending
\* invitation it comes from.
MembershipsGuarded(x) ==
    \A u \in DOMAIN x.write.memberships :
        \/ existing_membership(u) /\ (<<u, "update">> \in x.locks \/ <<u, "nokey">> \in x.locks)
        \/ /\ ~existing_membership(u)
           /\ \E i \in Invitation : /\ invitations[i].status = "PENDING" /\ invitations[i].email = u
                                    /\ <<i, "update">> \in x.locks

\* It gains only roles that the transaction names, and gets a new version unless it is new or
\* keeps its roles.
MembershipsStep(x) ==
    \A u \in DOMAIN x.write.memberships :
        LET new == x.write.memberships[u]
        IN  /\ new.status # "none"
            /\ new.roles \subseteq memberships[u].roles \cup x.write.names
            /\ \/ new.version = memberships[u].version + 1
               \/ new.version = memberships[u].version /\ new.roles = memberships[u].roles
               \/ ~existing_membership(u)

\* A role is written by the holder of its lock, or is new; its members are still to be bumped, or
\* are bumped by the same transaction; and a role is deleted that nobody has.
RolesGuarded(x) ==
    \A r \in DOMAIN x.write.roles :
        /\ roles[r].life = "absent" \/ (roles[r].life = "live" /\ <<r, "update">> \in x.locks)
        /\ \A u \in Assigned(r) :
               \/ r \in x.write.bumps
               \/ /\ u \in DOMAIN x.write.memberships
                  /\ x.write.memberships[u].version = memberships[u].version + 1
        /\ x.write.roles[r].life # "live" => Assigned(r) = {}
        /\ x.write.names = {}

\* An invitation is new, or pending and written by the holder of its lock.
InvitationsGuarded(x) ==
    /\ \A i \in DOMAIN x.write.invitations :
           /\ x.write.invitations[i].status = "PENDING" => x.write.invitations[i].email \in User
           /\ \/ invitations[i].status = "none"
              \/ /\ invitations[i].status = "PENDING" /\ <<i, "update">> \in x.locks
                 /\ x.write.invitations[i].email = invitations[i].email
    /\ \A i, j \in DOMAIN x.write.invitations : i = j

\* Once its rows are written, the roles they name stay live and locked, and its new invitations
\* are the only ones for their addresses.
Inserts(x) == {i \in DOMAIN x.write.invitations : invitations[i].status = "none"}
FlushedHolds(x) ==
    x.step = "flushed" =>
        /\ \A r \in x.write.names \cap Role : r \in Live /\ <<r, "keyshare">> \in x.locks
        /\ \A i \in Inserts(x), j \in Invitation :
               invitations[j].status = "PENDING" =>
                   invitations[j].email # x.write.invitations[i].email

\* What a request read before its operation is not newer than the row, and is current under the
\* current version.
ContextInv(x) ==
    x.step \in {"known", "read"} =>
        /\ x.actor \in User /\ existing_membership(x.actor)
        /\ x.version <= memberships[x.actor].version
        /\ x.step = "read" /\ x.version = memberships[x.actor].version
               => x.codes = get_permissions(x.actor)

RowInv(x) ==
    /\ Idle(x) /\ MembershipsGuarded(x) /\ MembershipsStep(x) /\ RolesGuarded(x)
    /\ InvitationsGuarded(x) /\ FlushedHolds(x) /\ ContextInv(x)

\* Two requests hold no locks that conflict, write different rows, and do not both insert an
\* invitation for one address.
Compatible(x, y) ==
    \A a \in x.locks, b \in y.locks : a[1] = b[1] => ~Conflicts(a[2], b[2])
Apart(x, y) ==
    /\ DOMAIN x.write.memberships \cap DOMAIN y.write.memberships = {}
    /\ DOMAIN x.write.roles \cap DOMAIN y.write.roles = {}
    /\ DOMAIN x.write.invitations \cap DOMAIN y.write.invitations = {}
InsertsApart(x, y) ==
    x.step = "flushed" /\ y.step = "flushed" =>
        \A i \in Inserts(x), j \in Inserts(y) :
            x.write.invitations[i].email # y.write.invitations[j].email
PairInv(x, y) == Compatible(x, y) /\ Apart(x, y) /\ InsertsApart(x, y)

\* An address has one pending invitation.
PendingApart ==
    /\ \A i \in Invitation : invitations[i].status = "PENDING" => invitations[i].email \in User
    /\ \A i, j \in Invitation :
           i # j /\ invitations[i].status = "PENDING" /\ invitations[j].status = "PENDING"
               => invitations[i].email # invitations[j].email
TablesInv == HeldRolesLive /\ PendingApart

\* Nothing is cached for a version that is not there yet.
CacheInv ==
    /\ \A entry \in cache : /\ existing_membership(entry[1])
                            /\ entry[2] <= memberships[entry[1]].version
    /\ CacheIsCurrent

AccessInv ==
    /\ TypeOK
    /\ \A q \in Request : RowInv(request[q])
    /\ \A p, q \in Request : p # q => PairInv(request[p], request[q])
    /\ TablesInv /\ CacheInv

\* Some of the rows of a table.
LEMMA PartialRow ==
  ASSUME NEW K, NEW V, NEW f
  PROVE  /\ f \in PartialRows(K, V) => DOMAIN f \subseteq K /\ \A k \in DOMAIN f : f[k] \in V
         /\ \A D \in SUBSET K : f \in [D -> V] => f \in PartialRows(K, V)
BY DEF PartialRows

\* Tables that stay as they are leave every request as sound as it was.
LEMMA RowInvKept ==
  ASSUME NEW x, UNCHANGED tables, RowInv(x)
  PROVE  RowInv(x)'
<1> USE DEF tables
<1>1. Idle(x)'
  BY DEF RowInv, Idle
<1>2. MembershipsGuarded(x)' /\ MembershipsStep(x)'
  BY DEF RowInv, MembershipsGuarded, MembershipsStep, existing_membership
<1>3. RolesGuarded(x)'
  BY DEF RowInv, RolesGuarded, Assigned
<1>4. InvitationsGuarded(x)'
  BY DEF RowInv, InvitationsGuarded
<1>6. FlushedHolds(x)'
  BY DEF RowInv, FlushedHolds, Inserts, Live
<1>7. ContextInv(x)'
  BY DEF RowInv, ContextInv, existing_membership, get_permissions, role_permissions
<1>8. QED
  BY <1>1, <1>2, <1>3, <1>4, <1>6, <1>7 DEF RowInv

\* Two requests, when the tables stay as they are.
LEMMA PairInvKept ==
  ASSUME NEW x, NEW y, UNCHANGED tables, PairInv(x, y)
  PROVE  PairInv(x, y)'
BY DEF tables, PairInv, Compatible, Apart, InsertsApart, Inserts

\* Tables that stay as they are.
LEMMA TablesInvKept ==
  ASSUME TablesInv, UNCHANGED tables
  PROVE  TablesInv'
BY DEF tables, TablesInv, HeldRolesLive, PendingApart, existing_membership, Live

\* A cache that stays as it is, with the tables.
LEMMA CacheInvKept ==
  ASSUME CacheInv, UNCHANGED <<tables, cache>>
  PROVE  CacheInv'
BY DEF tables, CacheInv, CacheIsCurrent, smembers, existing_membership, get_permissions,
       role_permissions

\* Which of two requests is named first does not matter.
LEMMA PairSymmetric ==
  ASSUME NEW x, NEW y, PairInv(x, y)
  PROVE  PairInv(y, x)
BY DEF PairInv, Compatible, Conflicts, Apart, InsertsApart

\* A step of one request that writes no table.
LEMMA RequestStep ==
  ASSUME AccessInv, NEW q \in Request, NEW x \in RequestRow,
         UNCHANGED tables,
         request' = [request EXCEPT ![q] = x],
         RowInv(x), \A p \in Request \ {q} : PairInv(x, request[p]),
         cache' \subseteq User \X Nat \X Permission, CacheInv'
  PROVE  AccessInv'
<1>1. \A p \in Request : request'[p] = IF p = q THEN x ELSE request[p]
  BY DEF AccessInv, TypeOK
<1>2. TypeOK'
  BY DEF AccessInv, TypeOK, tables
<1>3. ASSUME NEW p \in Request PROVE RowInv(request[p])'
  <2>1. PICK y : y = request'[p]
    OBVIOUS
  <2>2. RowInv(y)
    BY <1>1, <2>1 DEF AccessInv
  <2>3. RowInv(y)'
    BY <2>2, RowInvKept
  <2>4. QED
    BY <2>1, <2>3
<1>4. ASSUME NEW p \in Request, NEW o \in Request, p # o PROVE PairInv(request[p], request[o])'
  <2>1. PICK y, z : y = request'[p] /\ z = request'[o]
    OBVIOUS
  <2>2. PairInv(y, z)
    BY <1>1, <1>4, <2>1, PairSymmetric DEF AccessInv
  <2>3. PairInv(y, z)'
    BY <2>2, PairInvKept
  <2>4. QED
    BY <2>1, <2>3
<1>5. QED
  BY <1>2, <1>3, <1>4, TablesInvKept DEF AccessInv

\* A transaction that writes nothing.
LEMMA NoWriteRow ==
  /\ NoWrite \in WriteRow
  /\ DOMAIN NoWrite.memberships = {} /\ DOMAIN NoWrite.roles = {}
  /\ DOMAIN NoWrite.invitations = {} /\ DOMAIN NoWrite.branches = {}
  /\ NoWrite.names = {} /\ NoWrite.bumps = {} /\ NoWrite.audited = TRUE
<1>1. DOMAIN NoRows = {} /\ \A V : NoRows \in [{} -> V]
  BY DEF NoRows
<1>2. \A K, V : NoRows \in PartialRows(K, V)
  BY <1>1, PartialRow
<1> HIDE DEF NoRows
<1>3. QED
  BY <1>1, <1>2 DEF NoWrite, WriteRow

\* A request that holds and writes nothing.
LEMMA EmptyRow ==
  ASSUME NEW x, x.step \notin {"checked", "flushed"}, x.locks = {}, x.write = NoWrite, ContextInv(x)
  PROVE  RowInv(x) /\ \A y : PairInv(x, y)
<1>1. RowInv(x)
  BY NoWriteRow DEF RowInv, Idle, MembershipsGuarded, MembershipsStep, RolesGuarded,
     InvitationsGuarded, FlushedHolds
<1>2. \A y : PairInv(x, y)
  BY NoWriteRow DEF PairInv, Compatible, Apart, InsertsApart
<1>3. QED
  BY <1>1, <1>2

\* The row of a request.
LEMMA RequestType ==
  ASSUME TypeOK, NEW q \in Request
  PROVE  /\ request[q] \in RequestRow
         /\ request[q].write \in WriteRow
         /\ request[q].locks \subseteq Lock
BY DEF TypeOK, RequestRow

\* What the invariant says of one request.
LEMMA RequestSound ==
  ASSUME AccessInv, NEW q \in Request
  PROVE  RowInv(request[q]) /\ \A p \in Request \ {q} : PairInv(request[q], request[p])
BY DEF AccessInv

\* A request learns the version of an active membership.
LEMMA MembershipRead ==
  ASSUME AccessInv, NEW q \in Request, NEW u \in User, get_active_membership(q, u)
  PROVE  AccessInv'
<1> DEFINE x == [request[q] EXCEPT !.step = "known", !.actor = u, !.version = memberships[u].version]
<1>1. request[q] \in RequestRow
  BY RequestType DEF AccessInv
<1>2. memberships[u] \in MembershipRow
  BY DEF AccessInv, TypeOK
<1>3. x \in RequestRow
  BY <1>1, <1>2 DEF RequestRow, MembershipRow, Step
<1>4. request' = [request EXCEPT ![q] = x]
  BY <1>1 DEF get_active_membership
<1>5. /\ x.step = "known" /\ x.actor = u /\ x.version = memberships[u].version
      /\ x.locks = request[q].locks /\ x.write = request[q].write
  BY <1>1 DEF RequestRow
<1> HIDE DEF x
<1>6. ContextInv(x)
  BY <1>2, <1>5 DEF ContextInv, get_active_membership, existing_membership, MembershipRow
<1>7. x.locks = {} /\ x.write = NoWrite
  BY <1>5, RequestSound DEF RowInv, Idle, get_active_membership
<1>8. UNCHANGED <<tables, cache>>
  BY DEF get_active_membership
<1>9. CacheInv' /\ cache' \subseteq User \X Nat \X Permission
  BY <1>8, CacheInvKept DEF AccessInv, TypeOK
<1>10. RowInv(x) /\ \A y : PairInv(x, y)
  BY <1>5, <1>6, <1>7, EmptyRow
<1>11. QED
  BY <1>3, <1>4, <1>8, <1>9, <1>10, RequestStep

\* The end of a context: nothing read before counts any more.
LEMMA ContextStep ==
  ASSUME AccessInv, NEW q \in Request, NEW codes \in SUBSET Permission,
         request[q].step \in {"known", "read"},
         request' = WithContext(q, codes),
         UNCHANGED tables,
         cache' \subseteq User \X Nat \X Permission, CacheInv'
  PROVE  AccessInv'
<1> DEFINE actor == request[q].actor
           scope == get_branch_scope(actor)
           x == [request[q] EXCEPT !.step = "ready", !.codes = codes,
                                   !.role_ids = memberships[actor].roles, !.branch_ids = scope]
<1>1. request[q] \in RequestRow
  BY RequestType DEF AccessInv
<1>2. actor \in User
  BY RequestSound DEF RowInv, ContextInv
<1>3. memberships[actor].roles \subseteq Role
  BY <1>2 DEF AccessInv, TypeOK, MembershipRow
<1>4. scope \subseteq Branch \cup {Everything}
  BY DEF get_branch_scope, active_branch_ids, ActiveBranches
<1>5. request' = [request EXCEPT ![q] = x]
  BY <1>1 DEF WithContext
<1> HIDE DEF scope
<1>6. x \in RequestRow
  BY <1>1, <1>3, <1>4 DEF RequestRow, Step
<1>7. x.step = "ready" /\ x.locks = request[q].locks /\ x.write = request[q].write
  BY <1>1 DEF RequestRow
<1> HIDE DEF x
<1>8. x.locks = {} /\ x.write = NoWrite
  BY <1>7, RequestSound DEF RowInv, Idle
<1>9. ContextInv(x)
  BY <1>7 DEF ContextInv
<1>10. RowInv(x) /\ \A y : PairInv(x, y)
  BY <1>7, <1>8, <1>9, EmptyRow
<1>11. QED
  BY <1>5, <1>6, <1>10, RequestStep

\* A cached key is used.
LEMMA CacheHitStep ==
  ASSUME AccessInv, NEW q \in Request, CacheHit(q)
  PROVE  AccessInv'
<1>1. UNCHANGED <<tables, cache>>
  BY DEF CacheHit
<1>2. CacheInv' /\ cache' \subseteq User \X Nat \X Permission
  BY <1>1, CacheInvKept DEF AccessInv, TypeOK
<1>3. smembers(request[q].actor, request[q].version) \in SUBSET Permission
  BY DEF smembers
<1>4. QED
  BY <1>1, <1>2, <1>3, ContextStep DEF CacheHit

\* The permissions of a member are permission codes.
LEMMA PermissionCodes ==
  ASSUME TypeOK, NEW u \in User
  PROVE  get_permissions(u) \in SUBSET Permission
<1>1. \A r \in memberships[u].roles : roles[r].codes \subseteq Permission
  BY DEF TypeOK, MembershipRow, RoleRow
<1>2. QED
  BY <1>1 DEF get_permissions, role_permissions

\* A key that is missing or has expired: what is left of the cache is still current, and the
\* permissions read belong to a version that is at least the one read before.
LEMMA CacheMissStep ==
  ASSUME AccessInv, NEW q \in Request, CacheMiss(q)
  PROVE  AccessInv'
<1> DEFINE codes == get_permissions(request[q].actor)
<1>1. request[q] \in RequestRow
  BY RequestType DEF AccessInv
<1>2. ContextInv(request[q]) /\ request[q].step = "known"
  BY RequestSound DEF RowInv, CacheMiss
<1>3. codes \in SUBSET Permission
  BY <1>2, PermissionCodes DEF AccessInv, ContextInv
<1>4. UNCHANGED tables /\ cache' \subseteq cache
  BY DEF CacheMiss
<1>5. \A u, v : \/ smembers(u, v)' = smembers(u, v)
                \/ smembers(u, v)' = {}
  <2>1. ASSUME NEW u, NEW v PROVE smembers(u, v)' = smembers(u, v) \/ smembers(u, v)' = {}
    <3>1. CASE u = request[q].actor /\ v = request[q].version
      BY <3>1 DEF smembers, CacheMiss, CacheKey
    <3>2. CASE ~(u = request[q].actor /\ v = request[q].version)
      <4>1. \A c : <<u, v, c>> \notin CacheKey(request[q].actor, request[q].version)
        BY <3>2 DEF CacheKey
      <4>2. QED
        BY <4>1 DEF smembers, CacheMiss
    <3>3. QED
      BY <3>1, <3>2
  <2>2. QED
    BY <2>1
<1>6. CacheInv' /\ cache' \subseteq User \X Nat \X Permission
  <2>1. \A u : get_permissions(u)' = get_permissions(u) /\ existing_membership(u)' = existing_membership(u)
    BY <1>4 DEF get_permissions, role_permissions, existing_membership, tables
  <2>2. CacheIsCurrent'
    <3>1. SUFFICES ASSUME NEW u \in User 
                   PROVE smembers(u, memberships[u].version)' \in {{}, get_permissions(u)}
      BY <2>1 DEF CacheIsCurrent
    <3>2. PICK v : v = memberships[u].version
      OBVIOUS
    <3>3. smembers(u, v) \in {{}, get_permissions(u)}
      BY <3>2 DEF AccessInv, CacheInv, CacheIsCurrent
    <3>4. memberships' = memberships
      BY <1>4 DEF tables
    <3>5. smembers(u, memberships[u].version)' = smembers(u, v)'
      BY <3>2, <3>4
    <3>6. QED
      BY <3>3, <3>5, <1>5
  <2>3. QED
    BY <1>4, <2>1, <2>2 DEF CacheInv, AccessInv, TypeOK, tables
<1>7. CASE codes = {}
  BY <1>2, <1>4, <1>6, <1>7, ContextStep DEF CacheMiss
<1>8. CASE codes # {}
  <2> DEFINE x == [request[q] EXCEPT !.step = "read", !.codes = codes]
  <2>1. request' = [request EXCEPT ![q] = x]
    BY <1>1, <1>8 DEF CacheMiss
  <2> HIDE DEF codes
  <2>2. x \in RequestRow
    BY <1>1, <1>3 DEF RequestRow, Step
  <2>3. /\ x.step = "read" /\ x.locks = request[q].locks /\ x.write = request[q].write
        /\ x.codes = codes /\ x.actor = request[q].actor /\ x.version = request[q].version
    BY <1>1 DEF RequestRow
  <2> HIDE DEF x
  <2>4. x.locks = {} /\ x.write = NoWrite
    BY <1>2, <2>3, RequestSound DEF RowInv, Idle
  <2>5. ContextInv(x)
    BY <1>2, <2>3 DEF ContextInv, codes
  <2>6. RowInv(x) /\ \A y : PairInv(x, y)
    BY <2>3, <2>4, <2>5, EmptyRow
  <2>7. QED
    BY <1>4, <1>6, <2>1, <2>2, <2>6, RequestStep
<1>9. QED
  BY <1>7, <1>8

\* The permissions read are cached: under the current version they are the current ones,
\* and under an older one no request will look.
LEMMA CachePermissionsStep ==
  ASSUME AccessInv, NEW q \in Request, CachePermissions(q)
  PROVE  AccessInv'
<1>1. PICK a, n, codes : a = request[q].actor /\ n = request[q].version /\ codes = request[q].codes
  OBVIOUS
<1>2. n \in Nat /\ codes \in SUBSET Permission
  BY <1>1, RequestType DEF AccessInv, RequestRow
<1>3. ContextInv(request[q]) /\ request[q].step = "read"
  BY RequestSound DEF RowInv, CachePermissions
<1>4. /\ a \in User /\ existing_membership(a) /\ n <= memberships[a].version
      /\ n = memberships[a].version => codes = get_permissions(a)
  BY <1>1, <1>3 DEF ContextInv
<1>5. cache' = cache \cup ({a} \X {n} \X codes)
  BY <1>1 DEF CachePermissions
<1>6. UNCHANGED tables
  BY DEF CachePermissions
<1>7. cache' \subseteq User \X Nat \X Permission
  BY <1>2, <1>4, <1>5 DEF AccessInv, TypeOK
<1>8. CacheInv'
  <2>1. \A u : get_permissions(u)' = get_permissions(u) /\ existing_membership(u)' = existing_membership(u)
    BY <1>6 DEF get_permissions, role_permissions, existing_membership, tables
  <2>2. ASSUME NEW entry \in cache'
        PROVE  existing_membership(entry[1])' /\ entry[2] <= memberships'[entry[1]].version
    BY <1>4, <1>5, <1>6, <2>1 DEF AccessInv, CacheInv, tables
  <2>3. ASSUME NEW u \in User
        PROVE  smembers(u, memberships[u].version)' \in {{}, get_permissions(u)}
    <3>1. PICK v : v = memberships[u].version
      OBVIOUS
    <3>2. smembers(u, v) \in {{}, get_permissions(u)}
      BY <3>1 DEF AccessInv, CacheInv, CacheIsCurrent
    <3>3. memberships' = memberships
      BY <1>6 DEF tables
    <3>4. CASE u = a /\ v = n
      <4>1. codes = get_permissions(u)
        BY <1>4, <3>1, <3>4
      <4>2. smembers(u, v)' = smembers(u, v) \cup codes
        BY <1>2, <1>5, <3>4 DEF smembers
      <4>3. QED
        BY <3>1, <3>2, <3>3, <4>1, <4>2
    <3>5. CASE ~(u = a /\ v = n)
      <4>1. smembers(u, v)' = smembers(u, v)
        BY <1>5, <3>5 DEF smembers
      <4>2. QED
        BY <3>1, <3>2, <3>3, <4>1
    <3>6. QED
      BY <3>4, <3>5
  <2>4. QED
    BY <2>1, <2>2, <2>3 DEF CacheInv, CacheIsCurrent
<1>9. QED
  BY <1>1, <1>2, <1>3, <1>6, <1>7, <1>8, ContextStep DEF CachePermissions

\* A transaction that ends without a trace.
LEMMA RollbackStep ==
  ASSUME AccessInv, NEW q \in Request, Rollback(q)
  PROVE  AccessInv'
<1>1. UNCHANGED <<tables, cache>> /\ request' = [request EXCEPT ![q] = Ended]
  BY DEF Rollback
<1>2. CacheInv' /\ cache' \subseteq User \X Nat \X Permission
  BY <1>1, CacheInvKept DEF AccessInv, TypeOK
<1>3. Ended.step = "done" /\ Ended.locks = {} /\ Ended.write = NoWrite
  BY DEF Ended, Arrived
<1>4. Ended \in RequestRow
  BY NoWriteRow DEF Ended, Arrived, RequestRow, Step
<1>5. ContextInv(Ended)
  BY <1>3 DEF ContextInv
<1> HIDE DEF Ended
<1>6. RowInv(Ended) /\ \A y : PairInv(Ended, y)
  BY <1>3, <1>5, EmptyRow
<1>7. QED
  BY <1>1, <1>2, <1>4, <1>6, RequestStep

\* What an operation that has passed its checks leaves to its transaction.
Sound(q, x) ==
    /\ MembershipsGuarded(x) /\ MembershipsStep(x) /\ RolesGuarded(x)
    /\ InvitationsGuarded(x)
    /\ x.write.bumps # {} => DOMAIN x.write.memberships = {}
    /\ \A p \in Request \ {q} :
           /\ \A r \in DOMAIN x.write.roles \cap DOMAIN request[p].write.roles :
                  roles[r].life # "absent"
           /\ \A i \in DOMAIN x.write.invitations \cap DOMAIN request[p].write.invitations :
                  invitations[i].status # "none"

\* The locks keep what two transactions write apart.
LEMMA GuardedApart ==
  ASSUME PendingApart, NEW x, NEW y, Compatible(x, y),
         MembershipsGuarded(x), RolesGuarded(x), InvitationsGuarded(x),
         MembershipsGuarded(y), RolesGuarded(y), InvitationsGuarded(y),
         \A r \in DOMAIN x.write.roles \cap DOMAIN y.write.roles : roles[r].life # "absent",
         \A i \in DOMAIN x.write.invitations \cap DOMAIN y.write.invitations :
             invitations[i].status # "none"
  PROVE  Apart(x, y)
<1>1. \A row : <<row, "update">> \in x.locks =>
          <<row, "update">> \notin y.locks /\ <<row, "nokey">> \notin y.locks
  <2>1. SUFFICES ASSUME NEW row, NEW mode \in {"update", "nokey"},
                        <<row, "update">> \in x.locks, <<row, mode>> \in y.locks
                 PROVE  FALSE
    OBVIOUS
  <2>2. ~Conflicts(<<row, "update">>[2], <<row, mode>>[2])
    BY <2>1 DEF Compatible
  <2>3. QED
    BY <2>2 DEF Conflicts
<1>2. \A row : <<row, "nokey">> \in x.locks =>
          <<row, "update">> \notin y.locks /\ <<row, "nokey">> \notin y.locks
  <2>1. SUFFICES ASSUME NEW row, NEW mode \in {"update", "nokey"},
                        <<row, "nokey">> \in x.locks, <<row, mode>> \in y.locks
                 PROVE  FALSE
    OBVIOUS
  <2>2. ~Conflicts(<<row, "nokey">>[2], <<row, mode>>[2])
    BY <2>1 DEF Compatible
  <2>3. QED
    BY <2>2 DEF Conflicts
<1>3. ASSUME NEW u \in DOMAIN x.write.memberships, u \in DOMAIN y.write.memberships PROVE FALSE
  <2>1. CASE existing_membership(u)
    BY <1>1, <1>2, <1>3, <2>1 DEF MembershipsGuarded
  <2>2. CASE ~existing_membership(u)
    <3>1. PICK i \in Invitation : /\ invitations[i].status = "PENDING" /\ invitations[i].email = u
                                  /\ <<i, "update">> \in x.locks
      BY <1>3, <2>2 DEF MembershipsGuarded
    <3>2. PICK j \in Invitation : /\ invitations[j].status = "PENDING" /\ invitations[j].email = u
                                  /\ <<j, "update">> \in y.locks
      BY <1>3, <2>2 DEF MembershipsGuarded
    <3>3. i = j
      BY <3>1, <3>2 DEF PendingApart
    <3>4. QED
      BY <1>1, <3>1, <3>2, <3>3
  <2>3. QED
    BY <2>1, <2>2
<1>4. ASSUME NEW r \in DOMAIN x.write.roles, r \in DOMAIN y.write.roles PROVE FALSE
  BY <1>1, <1>4 DEF RolesGuarded
<1>5. ASSUME NEW i \in DOMAIN x.write.invitations, i \in DOMAIN y.write.invitations PROVE FALSE
  BY <1>1, <1>5 DEF InvitationsGuarded
<1>6. QED
  BY <1>3, <1>4, <1>5 DEF Apart

\* An operation starts with a request that holds nothing.
LEMMA PrepareStep ==
  ASSUME AccessInv, NEW q \in Request, request[q].step \in {"new", "ready"},
         NEW locks \in SUBSET Lock, NEW write \in WriteRow, Prepare(q, locks, write),
         \A x : x.locks = locks /\ x.write = write => Sound(q, x)
  PROVE  AccessInv'
<1> DEFINE x == [request[q] EXCEPT !.step = "checked", !.locks = locks, !.write = write]
<1>1. request[q] \in RequestRow
  BY RequestType DEF AccessInv
<1>2. x \in RequestRow
  BY <1>1 DEF RequestRow, Step
<1>3. request' = [request EXCEPT ![q] = x]
  BY <1>1 DEF Prepare
<1>4. x.step = "checked" /\ x.locks = locks /\ x.write = write
  BY <1>1 DEF RequestRow
<1> HIDE DEF x
<1>5. Sound(q, x)
  BY <1>4
<1>6. RowInv(x)
  BY <1>4, <1>5 DEF RowInv, Idle, FlushedHolds, ContextInv, Sound
<1>7. ASSUME NEW p \in Request \ {q} PROVE PairInv(x, request[p])
  <2>1. Compatible(x, request[p])
    BY <1>4 DEF Prepare, CanLock, Compatible
  <2>2. RowInv(request[p])
    BY RequestSound
  <2>3. PendingApart
    BY DEF AccessInv, TablesInv
  <2>4. Apart(x, request[p])
    BY <1>5, <2>1, <2>2, <2>3, GuardedApart DEF RowInv, Sound
  <2>5. QED
    BY <1>4, <2>1, <2>4 DEF PairInv, InsertsApart
<1>8. UNCHANGED <<tables, cache>>
  BY DEF Prepare
<1>9. CacheInv' /\ cache' \subseteq User \X Nat \X Permission
  BY <1>8, CacheInvKept DEF AccessInv, TypeOK
<1>10. QED
  BY <1>2, <1>3, <1>6, <1>7, <1>8, <1>9, RequestStep

----------------------------------------------------------------------------
(* The operations.                                                         *)

\* A table of one row.
LEMMA RowOf ==
  ASSUME NEW key, NEW row
  PROVE  DOMAIN Row(key, row) = {key} /\ Row(key, row)[key] = row
BY DEF Row

\* The type of a table of one row.
LEMMA RowType ==
  ASSUME NEW K, NEW V, NEW key \in K, NEW row \in V
  PROVE  Row(key, row) \in PartialRows(K, V)
<1>1. Row(key, row) \in [{key} -> V] /\ {key} \in SUBSET K
  BY DEF Row
<1>2. QED
  BY <1>1, PartialRow

\* A lock of one row.
LEMMA ForUpdateLock ==
  ASSUME NEW row \in User \cup Role \cup Invitation \cup Branch \cup {Tenant}
  PROVE  ForUpdate(row) \in SUBSET Lock
BY DEF ForUpdate, Lock

\* A change of a membership under its lock.
LEMMA MembershipSound ==
  ASSUME NEW q \in Request, NEW x, NEW u \in User, existing_membership(u),
         x.locks = ForUpdate(u), DOMAIN x.write.memberships = {u},
         DOMAIN x.write.roles = {}, DOMAIN x.write.invitations = {}, DOMAIN x.write.branches = {},
         x.write.bumps = {}, 
         LET m == x.write.memberships[u]
         IN  /\ m.status # "none"
             /\ m.roles \subseteq memberships[u].roles \cup x.write.names
             /\ \/ m.version = memberships[u].version + 1
                \/ m.version = memberships[u].version /\ m.roles = memberships[u].roles
  PROVE  Sound(q, x)
<1>1. MembershipsGuarded(x)
  BY DEF MembershipsGuarded, ForUpdate
<1>2. MembershipsStep(x)
  BY DEF MembershipsStep
<1>3. QED
  BY <1>1, <1>2 DEF Sound, RolesGuarded, InvitationsGuarded

\* The rows the operations on members make of the one they read.
LEMMA MembershipRowOf ==
  ASSUME NEW row \in MembershipRow
  PROVE  /\ \A rs \in SUBSET Role :
                LET m == [row EXCEPT !.roles = rs, !.version = @ + 1]
                IN  /\ m \in MembershipRow /\ m.status = row.status /\ m.roles = rs
                    /\ m.version = row.version + 1
         /\ \A bs \in SUBSET Branch :
                LET m == [row EXCEPT !.branches = bs]
                IN  /\ m \in MembershipRow /\ m.status = row.status /\ m.roles = row.roles
                    /\ m.version = row.version
         /\ \A status \in MembershipStatus :
                LET m == [row EXCEPT !.status = status, !.version = @ + 1]
                IN  /\ m \in MembershipRow /\ m.status = status /\ m.roles = row.roles
                    /\ m.version = row.version + 1
         /\ LET m == [row EXCEPT !.version = @ + 1]
            IN  /\ m \in MembershipRow /\ m.status = row.status /\ m.roles = row.roles
                /\ m.version = row.version + 1
<1>1. row.version + 1 \in Nat
  BY DEF MembershipRow
<1>2. ASSUME NEW rs \in SUBSET Role
      PROVE  LET m == [row EXCEPT !.roles = rs, !.version = row.version + 1]
             IN  /\ m \in MembershipRow /\ m.status = row.status /\ m.roles = rs
                 /\ m.version = row.version + 1
  BY <1>1 DEF MembershipRow
<1>3. ASSUME NEW bs \in SUBSET Branch
      PROVE  LET m == [row EXCEPT !.branches = bs]
             IN  /\ m \in MembershipRow /\ m.status = row.status /\ m.roles = row.roles
                 /\ m.version = row.version
  BY DEF MembershipRow
<1>4. ASSUME NEW status \in MembershipStatus
      PROVE  LET m == [row EXCEPT !.status = status, !.version = row.version + 1]
             IN  /\ m \in MembershipRow /\ m.status = status /\ m.roles = row.roles
                 /\ m.version = row.version + 1
  BY <1>1 DEF MembershipRow
<1>5. LET m == [row EXCEPT !.version = row.version + 1]
      IN  /\ m \in MembershipRow /\ m.status = row.status /\ m.roles = row.roles
          /\ m.version = row.version + 1
  BY <1>1 DEF MembershipRow
<1>6. QED
  BY <1>2, <1>3, <1>4, <1>5

\* New roles of a member.
LEMMA UpdateRoles ==
  ASSUME AccessInv, NEW q \in Request, NEW u \in User, NEW rs \in SUBSET Role, update_roles(q, u, rs)
  PROVE  AccessInv'
<1> DEFINE m == replace_roles(u, rs)
           write == [NoWrite EXCEPT !.memberships = Row(u, m), !.names = rs]
<1>1. memberships[u] \in MembershipRow
  BY DEF AccessInv, TypeOK
<1>2. /\ m \in MembershipRow /\ m.status = memberships[u].status /\ m.roles = rs
      /\ m.version = memberships[u].version + 1
  BY <1>1, MembershipRowOf DEF replace_roles
<1>4. request[q].step \in {"new", "ready"} /\ existing_membership(u)
  BY DEF update_roles, RequirePermission
<1>5. Prepare(q, ForUpdate(u), write)
  BY DEF update_roles
<1> HIDE DEF m
<1>7. Row(u, m) \in PartialRows(User, MembershipRow)
  BY <1>2, RowType
<1>8. /\ write \in WriteRow /\ write.memberships = Row(u, m) /\ write.names = rs
      /\ write.roles = NoWrite.roles /\ write.bumps = NoWrite.bumps
      /\ write.invitations = NoWrite.invitations /\ write.branches = NoWrite.branches
  BY <1>7, NoWriteRow DEF WriteRow
<1> HIDE DEF write
<1>9. ASSUME NEW x, x.locks = ForUpdate(u), x.write = write PROVE Sound(q, x)
  <2>0. x.write.memberships = Row(u, m)
    BY <1>8, <1>9
  <2>1. DOMAIN x.write.memberships = {u} /\ x.write.memberships[u] = m
    BY <2>0, RowOf
  <2>2. /\ DOMAIN x.write.roles = {} /\ DOMAIN x.write.invitations = {}
        /\ DOMAIN x.write.branches = {} /\ x.write.bumps = {}
    BY <1>8, <1>9, NoWriteRow
  <2>3. x.write.names = rs
    BY <1>8, <1>9
  <2>4. m.status # "none"
    BY <1>2, <1>4 DEF existing_membership
  <2>5. QED
    BY <1>2, <1>4, <1>9, <2>1, <2>2, <2>3, <2>4, MembershipSound
<1>10. QED
  BY <1>4, <1>5, <1>8, <1>9, ForUpdateLock, PrepareStep

\* New branches of a member.
LEMMA UpdateBranches ==
  ASSUME AccessInv, NEW q \in Request, NEW u \in User, NEW bs \in SUBSET Branch,
         update_branches(q, u, bs)
  PROVE  AccessInv'
<1> DEFINE m == replace_branches(u, bs)
           write == [NoWrite EXCEPT !.memberships = Row(u, m), !.names = bs]
<1>1. memberships[u] \in MembershipRow
  BY DEF AccessInv, TypeOK
<1>2. /\ m \in MembershipRow /\ m.status = memberships[u].status
      /\ m.roles = memberships[u].roles /\ m.version = memberships[u].version
  BY <1>1, MembershipRowOf DEF replace_branches
<1>3. request[q].step \in {"new", "ready"} /\ existing_membership(u)
  BY DEF update_branches, RequirePermission
<1>4. Prepare(q, ForUpdate(u), write)
  BY DEF update_branches
<1> HIDE DEF m
<1>5. Row(u, m) \in PartialRows(User, MembershipRow)
  BY <1>2, RowType
<1>6. /\ write \in WriteRow /\ write.memberships = Row(u, m)
      /\ write.roles = NoWrite.roles /\ write.bumps = NoWrite.bumps
      /\ write.invitations = NoWrite.invitations /\ write.branches = NoWrite.branches
  BY <1>5, NoWriteRow DEF WriteRow
<1> HIDE DEF write
<1>7. ASSUME NEW x, x.locks = ForUpdate(u), x.write = write PROVE Sound(q, x)
  <2>1. x.write.memberships = Row(u, m)
    BY <1>6, <1>7
  <2>2. DOMAIN x.write.memberships = {u} /\ x.write.memberships[u] = m
    BY <2>1, RowOf
  <2>3. /\ DOMAIN x.write.roles = {} /\ DOMAIN x.write.invitations = {}
        /\ DOMAIN x.write.branches = {} /\ x.write.bumps = {}
    BY <1>6, <1>7, NoWriteRow
  <2>4. m.status # "none"
    BY <1>2, <1>3 DEF existing_membership
  <2>5. QED
    BY <1>2, <1>3, <1>7, <2>2, <2>3, <2>4, MembershipSound
<1>8. QED
  BY <1>3, <1>4, <1>6, <1>7, ForUpdateLock, PrepareStep

\* A new status of a member, or its removal.
LEMMA UpdateStatus ==
  ASSUME AccessInv, NEW q \in Request, NEW u \in User,
         NEW status \in {"ACTIVE", "SUSPENDED", "REVOKED"}, update_status(q, u, status)
  PROVE  AccessInv'
<1> DEFINE m == [memberships[u] EXCEPT !.status = status, !.version = @ + 1]
           write == [NoWrite EXCEPT !.memberships = Row(u, m)]
<1>1. memberships[u] \in MembershipRow /\ status \in MembershipStatus
  BY DEF AccessInv, TypeOK, MembershipStatus
<1>2. /\ m \in MembershipRow /\ m.status = status /\ m.roles = memberships[u].roles
      /\ m.version = memberships[u].version + 1
  BY <1>1, MembershipRowOf
<1>4. request[q].step \in {"new", "ready"} /\ existing_membership(u)
  BY DEF update_status, RequirePermission, existing_membership
<1>5. Prepare(q, ForUpdate(u), write)
  BY DEF update_status
<1> HIDE DEF m
<1>7. Row(u, m) \in PartialRows(User, MembershipRow)
  BY <1>2, RowType
<1>8. /\ write \in WriteRow /\ write.memberships = Row(u, m)
      /\ write.roles = NoWrite.roles /\ write.bumps = NoWrite.bumps
      /\ write.invitations = NoWrite.invitations /\ write.branches = NoWrite.branches
  BY <1>7, NoWriteRow DEF WriteRow
<1> HIDE DEF write
<1>9. ASSUME NEW x, x.locks = ForUpdate(u), x.write = write PROVE Sound(q, x)
  <2>1. x.write.memberships = Row(u, m)
    BY <1>8, <1>9
  <2>2. DOMAIN x.write.memberships = {u} /\ x.write.memberships[u] = m
    BY <2>1, RowOf
  <2>3. /\ DOMAIN x.write.roles = {} /\ DOMAIN x.write.invitations = {}
        /\ DOMAIN x.write.branches = {} /\ x.write.bumps = {}
    BY <1>8, <1>9, NoWriteRow
  <2>4. m.status # "none"
    BY <1>2
  <2>5. QED
    BY <1>2, <1>4, <1>9, <2>2, <2>3, <2>4, MembershipSound
<1>10. QED
  BY <1>4, <1>5, <1>8, <1>9, ForUpdateLock, PrepareStep

\* A change of one role: a new one, or one whose lock is held.
LEMMA RoleSound ==
  ASSUME AccessInv, NEW q \in Request, NEW x, NEW r \in Role, DOMAIN x.write.roles = {r},
         DOMAIN x.write.memberships = {}, DOMAIN x.write.invitations = {},
         DOMAIN x.write.branches = {}, x.write.names = {},
         \/ roles[r].life = "absent" /\ Fresh(q, r, "roles")
         \/ roles[r].life = "live" /\ x.locks = ForUpdate(r),
         r \in x.write.bumps \/ Assigned(r) = {},
         x.write.roles[r].life # "live" => Assigned(r) = {}
  PROVE  Sound(q, x)
<1>1. RolesGuarded(x)
  BY DEF RolesGuarded, ForUpdate
<1>2. MembershipsGuarded(x) /\ MembershipsStep(x) /\ InvitationsGuarded(x)
  BY DEF MembershipsGuarded, MembershipsStep, InvitationsGuarded
<1>3. \A p \in Request \ {q} : \A o \in DOMAIN x.write.roles \cap DOMAIN request[p].write.roles :
          roles[o].life # "absent"
  BY DEF Fresh
<1>4. QED
  BY <1>1, <1>2, <1>3 DEF Sound

\* An operation on one role, its members still to be bumped or without any.
LEMMA RoleWrite ==
  ASSUME AccessInv, NEW q \in Request, request[q].step \in {"new", "ready"},
         NEW r \in Role, NEW row \in RoleRow, NEW locks \in SUBSET Lock, NEW write,
         Prepare(q, locks, write),
         \/ roles[r].life = "absent" /\ Fresh(q, r, "roles")
         \/ roles[r].life = "live" /\ locks = ForUpdate(r),
         \/ write = [NoWrite EXCEPT !.roles = Row(r, row)] /\ Assigned(r) = {}
         \/ /\ write = [NoWrite EXCEPT !.roles = Row(r, row), !.bumps = {r}]
            /\ row.life = "live"
  PROVE  AccessInv'
<1>1. Row(r, row) \in PartialRows(Role, RoleRow)
  BY RowType
<1>2. /\ write \in WriteRow /\ write.roles = Row(r, row)
      /\ (r \in write.bumps /\ row.life = "live") \/ Assigned(r) = {}
      /\ write.memberships = NoWrite.memberships /\ write.names = NoWrite.names
      /\ write.invitations = NoWrite.invitations /\ write.branches = NoWrite.branches
  <2>1. CASE write = [NoWrite EXCEPT !.roles = Row(r, row)] /\ Assigned(r) = {}
    BY <1>1, <2>1, NoWriteRow DEF WriteRow
  <2>2. CASE write = [NoWrite EXCEPT !.roles = Row(r, row), !.bumps = {r}] /\ row.life = "live"
    BY <1>1, <2>2, NoWriteRow DEF WriteRow
  <2>3. QED
    BY <2>1, <2>2
<1>4. ASSUME NEW x, x.locks = locks, x.write = write PROVE Sound(q, x)
  <2>1. x.write.roles = Row(r, row)
    BY <1>2, <1>4
  <2>2. DOMAIN x.write.roles = {r} /\ x.write.roles[r] = row
    BY <2>1 DEF Row
  <2>3. /\ DOMAIN x.write.memberships = {} /\ DOMAIN x.write.invitations = {}
        /\ DOMAIN x.write.branches = {} /\ x.write.names = {}
    BY <1>2, <1>4, NoWriteRow
  <2>4. /\ r \in x.write.bumps \/ Assigned(r) = {}
        /\ x.write.roles[r].life # "live" => Assigned(r) = {}
    BY <1>2, <1>4, <2>2
  <2>5. QED
    BY <1>4, <2>2, <2>3, <2>4, RoleSound
<1>5. QED
  BY <1>2, <1>4, PrepareStep

\* A role created, changed or deleted.
LEMMA RolesChange ==
  ASSUME AccessInv, NEW q \in Request, NEW r \in Custom, NEW codes \in SUBSET Permission,
         create_role(q, r, codes) \/ update_role(q, r, codes) \/ delete_role(q, r)
  PROVE  AccessInv'
<1>1. r \in Role /\ request[q].step \in {"new", "ready"}
  BY DEF Role, create_role, update_role, delete_role, RequirePermission
<1>2. /\ [life |-> "live", codes |-> codes] \in RoleRow
      /\ [life |-> "deleted", codes |-> {}] \in RoleRow
  BY DEF RoleRow
<1>3. {} \in SUBSET Lock /\ ForUpdate(r) \in SUBSET Lock
  BY <1>1, ForUpdateLock
<1>6. CASE create_role(q, r, codes)
  <2>1. Assigned(r) = {}
    BY <1>1, <1>6 DEF create_role, Assigned, AccessInv, TablesInv, HeldRolesLive, Live
  <2>2. Prepare(q, {}, [NoWrite EXCEPT !.roles = Row(r, [life |-> "live", codes |-> codes])])
    BY <1>6 DEF create_role, replace_permissions
  <2>3. roles[r].life = "absent" /\ Fresh(q, r, "roles")
    BY <1>6 DEF create_role
  <2>4. QED
    BY <1>1, <1>2, <1>3, <2>1, <2>2, <2>3, RoleWrite
<1>7. CASE update_role(q, r, codes)
  <2>1. Prepare(q, ForUpdate(r), [NoWrite EXCEPT !.roles = Row(r, [life |-> "live", codes |-> codes]), !.bumps = {r}])
    BY <1>7 DEF update_role, replace_permissions
  <2>2. roles[r].life = "live"
    BY <1>7 DEF update_role, Live
  <2>3. [life |-> "live", codes |-> codes].life = "live"
    OBVIOUS
  <2>4. QED
    BY <1>1, <1>2, <1>3, <2>1, <2>2, <2>3, RoleWrite
<1>8. CASE delete_role(q, r)
  <2>1. Prepare(q, ForUpdate(r), [NoWrite EXCEPT !.roles = Row(r, [life |-> "deleted", codes |-> {}])])
    BY <1>8 DEF delete_role
  <2>2. roles[r].life = "live" /\ Assigned(r) = {}
    BY <1>8 DEF delete_role, Live
  <2>3. QED
    BY <1>1, <1>2, <1>3, <2>1, <2>2, RoleWrite
<1>9. QED
  BY <1>6, <1>7, <1>8

\* An operation on a row that no property looks into: it holds the lock and writes nothing here.
LEMMA PlainChange ==
  ASSUME AccessInv, NEW q \in Request, request[q].step \in {"new", "ready"},
         NEW row \in User \cup Role \cup Invitation \cup Branch \cup {Tenant},
         Prepare(q, ForUpdate(row), NoWrite)
  PROVE  AccessInv'
<1>1. ASSUME NEW x, x.write = NoWrite PROVE Sound(q, x)
  BY <1>1, NoWriteRow DEF Sound, MembershipsGuarded, MembershipsStep, RolesGuarded,
     InvitationsGuarded
<1>2. QED
  BY <1>1, NoWriteRow, ForUpdateLock, PrepareStep

\* An invitation: a new one, or a pending one whose lock is held; with the membership of the
\* one who accepts it.
LEMMA InvitationSound ==
  ASSUME AccessInv, NEW q \in Request, NEW x, NEW i \in Invitation, DOMAIN x.write.invitations = {i},
         DOMAIN x.write.roles = {}, DOMAIN x.write.branches = {}, x.write.bumps = {},
         x.write.invitations[i].status = "PENDING" => x.write.invitations[i].email \in User,
         \/ /\ invitations[i].status = "none" /\ Fresh(q, i, "invitations")
            /\ DOMAIN x.write.memberships = {}
         \/ /\ invitations[i].status = "PENDING" /\ x.locks = ForUpdate(i)
            /\ x.write.invitations[i].email = invitations[i].email
            /\ \/ DOMAIN x.write.memberships = {}
               \/ /\ DOMAIN x.write.memberships = {invitations[i].email}
                  /\ ~existing_membership(invitations[i].email)
                  /\ x.write.memberships[invitations[i].email].status # "none"
                  /\ x.write.memberships[invitations[i].email].roles \subseteq x.write.names
  PROVE  Sound(q, x)
<1>1. InvitationsGuarded(x)
  BY DEF InvitationsGuarded, ForUpdate
<1>2. MembershipsGuarded(x)
  BY DEF MembershipsGuarded, ForUpdate
<1>3. MembershipsStep(x)
  BY DEF MembershipsStep
<1>4. RolesGuarded(x)
  BY DEF RolesGuarded
<1>5. \A p \in Request \ {q} :
          \A j \in DOMAIN x.write.invitations \cap DOMAIN request[p].write.invitations :
              invitations[j].status # "none"
  BY DEF Fresh
<1>6. QED
  BY <1>1, <1>2, <1>3, <1>4, <1>5 DEF Sound

\* A new invitation.
LEMMA Invite ==
  ASSUME AccessInv, NEW q \in Request, NEW i \in Invitation, NEW u \in User, NEW r \in Role,
         invite(q, i, u, r)
  PROVE  AccessInv'
<1> DEFINE row == [status |-> "PENDING", email |-> u, role |-> r, token |-> 1]
           write == [NoWrite EXCEPT !.invitations = Row(i, row), !.names = {r}]
<1>1. row \in InvitationRow /\ row.email = u
  BY DEF InvitationRow, InvitationStatus
<1>2. Prepare(q, {}, write) /\ request[q].step \in {"new", "ready"}
  BY DEF invite, RequirePermission
<1> HIDE DEF row
<1>3. Row(i, row) \in PartialRows(Invitation, InvitationRow)
  BY <1>1, RowType
<1>4. /\ write \in WriteRow /\ write.invitations = Row(i, row) /\ write.bumps = NoWrite.bumps
      /\ write.memberships = NoWrite.memberships /\ write.roles = NoWrite.roles
      /\ write.branches = NoWrite.branches
  BY <1>3, NoWriteRow DEF WriteRow
<1> HIDE DEF write
<1>5. ASSUME NEW x, x.locks = {}, x.write = write PROVE Sound(q, x)
  <2>1. x.write.invitations = Row(i, row)
    BY <1>4, <1>5
  <2>2. DOMAIN x.write.invitations = {i} /\ x.write.invitations[i] = row
    BY <2>1 DEF Row
  <2>3. /\ DOMAIN x.write.memberships = {} /\ DOMAIN x.write.roles = {}
        /\ DOMAIN x.write.branches = {} /\ x.write.bumps = {}
    BY <1>4, <1>5, NoWriteRow
  <2>4. invitations[i].status = "none" /\ Fresh(q, i, "invitations")
    BY DEF invite
  <2>5. QED
    BY <1>1, <2>2, <2>3, <2>4, InvitationSound
<1>6. QED
  BY <1>2, <1>4, <1>5, PrepareStep

\* What revoke and resend write.
LEMMA InvitationChange ==
  ASSUME AccessInv, NEW q \in Request, NEW i \in Invitation,
         revoke_invitation(q, i) \/ resend(q, i)
  PROVE  AccessInv'
<1>1. invitations[i].status = "PENDING" /\ request[q].step \in {"new", "ready"}
  BY DEF revoke_invitation, resend, RequirePermission
<1>2. invitations[i] \in InvitationRow /\ invitations[i].email \in User
  BY <1>1 DEF AccessInv, TypeOK, TablesInv, PendingApart
<1>3. PICK row \in InvitationRow, write \in WriteRow :
          /\ row.email = invitations[i].email
          /\ Prepare(q, ForUpdate(i), write)
          /\ write.invitations = Row(i, row) /\ write.bumps = NoWrite.bumps
          /\ write.memberships = NoWrite.memberships /\ write.roles = NoWrite.roles
          /\ write.branches = NoWrite.branches
  <2>1. CASE revoke_invitation(q, i)
    <3> DEFINE row == [invitations[i] EXCEPT !.status = "REVOKED"]
               write == [NoWrite EXCEPT !.invitations = Row(i, row)]
    <3>1. row \in InvitationRow /\ row.email = invitations[i].email
      BY <1>2 DEF InvitationRow, InvitationStatus
    <3>2. Prepare(q, ForUpdate(i), write)
      BY <2>1 DEF revoke_invitation
    <3> HIDE DEF row
    <3>3. Row(i, row) \in PartialRows(Invitation, InvitationRow)
      BY <3>1, RowType
    <3>4. /\ write \in WriteRow /\ write.invitations = Row(i, row) /\ write.bumps = NoWrite.bumps
          /\ write.memberships = NoWrite.memberships /\ write.roles = NoWrite.roles
          /\ write.branches = NoWrite.branches
      BY <3>3, NoWriteRow DEF WriteRow
    <3> HIDE DEF write
    <3>5. QED
      BY <3>1, <3>2, <3>4
  <2>2. CASE resend(q, i)
    <3> DEFINE row == [invitations[i] EXCEPT !.token = @ + 1]
               write == [NoWrite EXCEPT !.invitations = Row(i, row), !.audited = FALSE]
    <3>1. row \in InvitationRow /\ row.email = invitations[i].email
      BY <1>2 DEF InvitationRow
    <3>2. Prepare(q, ForUpdate(i), write)
      BY <2>2 DEF resend
    <3> HIDE DEF row
    <3>3. Row(i, row) \in PartialRows(Invitation, InvitationRow)
      BY <3>1, RowType
    <3>4. /\ write \in WriteRow /\ write.invitations = Row(i, row) /\ write.bumps = NoWrite.bumps
          /\ write.memberships = NoWrite.memberships /\ write.roles = NoWrite.roles
          /\ write.branches = NoWrite.branches
      BY <3>3, NoWriteRow DEF WriteRow
    <3> HIDE DEF write
    <3>5. QED
      BY <3>1, <3>2, <3>4
  <2>3. QED
    BY <2>1, <2>2
<1>4. ASSUME NEW x, x.locks = ForUpdate(i), x.write = write PROVE Sound(q, x)
  <2>1. x.write.invitations = Row(i, row)
    BY <1>3, <1>4
  <2>2. DOMAIN x.write.invitations = {i} /\ x.write.invitations[i] = row
    BY <2>1 DEF Row
  <2>3. /\ DOMAIN x.write.memberships = {} /\ DOMAIN x.write.roles = {}
        /\ DOMAIN x.write.branches = {} /\ x.write.bumps = {}
    BY <1>3, <1>4, NoWriteRow
  <2>4. QED
    BY <1>1, <1>2, <1>3, <1>4, <2>2, <2>3, InvitationSound
<1>5. QED
  BY <1>1, <1>3, <1>4, ForUpdateLock, PrepareStep

\* An accepted invitation, with the membership it makes.
LEMMA Accept ==
  ASSUME AccessInv, NEW q \in Request, NEW i \in Invitation, NEW token, accept(q, i, token)
  PROVE  AccessInv'
<1> DEFINE u == invitations[i].email
           role == invitations[i].role
           row == [invitations[i] EXCEPT !.status = "ACCEPTED"]
           m == [status |-> "ACTIVE", roles |-> {role}, branches |-> {}, version |-> 0]
           write == [NoWrite EXCEPT !.invitations = Row(i, row), !.memberships = Row(u, m),
                                    !.names = {role}]
<1>1. invitations[i].status = "PENDING" /\ request[q].step \in {"new", "ready"}
  BY DEF accept
<1>2. invitations[i] \in InvitationRow /\ u \in User /\ role \in Role
  BY <1>1 DEF AccessInv, TypeOK, TablesInv, PendingApart, InvitationRow
<1>3. row \in InvitationRow /\ row.email = u /\ row.status = "ACCEPTED"
  BY <1>2 DEF InvitationRow, InvitationStatus
<1>4. m \in MembershipRow /\ m.status = "ACTIVE" /\ m.roles = {role}
  BY <1>2 DEF MembershipRow, MembershipStatus
<1>5. Prepare(q, ForUpdate(i), write) /\ ~existing_membership(u)
  BY DEF accept
<1> HIDE DEF row, m
<1>6. /\ Row(i, row) \in PartialRows(Invitation, InvitationRow)
      /\ Row(u, m) \in PartialRows(User, MembershipRow)
  BY <1>2, <1>3, <1>4, RowType
<1>7. /\ write \in WriteRow /\ write.invitations = Row(i, row) /\ write.bumps = NoWrite.bumps
      /\ write.memberships = Row(u, m) /\ write.roles = NoWrite.roles
      /\ write.branches = NoWrite.branches /\ write.names = {role}
  BY <1>2, <1>6, NoWriteRow DEF WriteRow
<1> HIDE DEF write
<1>8. ASSUME NEW x, x.locks = ForUpdate(i), x.write = write PROVE Sound(q, x)
  <2>1. x.write.invitations = Row(i, row) /\ x.write.memberships = Row(u, m)
    BY <1>7, <1>8
  <2>2. DOMAIN x.write.invitations = {i} /\ x.write.invitations[i] = row
    BY <2>1 DEF Row
  <2>3. DOMAIN x.write.memberships = {u} /\ x.write.memberships[u] = m
    BY <2>1 DEF Row
  <2>4. /\ DOMAIN x.write.roles = {} /\ DOMAIN x.write.branches = {} /\ x.write.bumps = {}
        /\ x.write.names = {role}
    BY <1>7, <1>8, NoWriteRow
  <2>5. QED
    BY <1>1, <1>2, <1>3, <1>4, <1>5, <1>8, <2>2, <2>3, <2>4, InvitationSound
<1>9. QED
  BY <1>1, <1>5, <1>7, <1>8, ForUpdateLock, PrepareStep

\* A new branch, or one made inactive.
LEMMA BranchChange ==
  ASSUME AccessInv, NEW q \in Request, NEW b \in Branch,
         create_branch(q, b) \/ deactivate_branch(q, b)
  PROVE  AccessInv'
<1>1. request[q].step \in {"new", "ready"}
  BY DEF create_branch, deactivate_branch, RequirePermission
<1>2. PICK row \in BranchRow, write \in WriteRow, locks \in SUBSET Lock :
          /\ Prepare(q, locks, write)
          /\ write.branches = Row(b, row) /\ write.bumps = NoWrite.bumps
          /\ write.memberships = NoWrite.memberships /\ write.roles = NoWrite.roles
          /\ write.invitations = NoWrite.invitations
  <2>1. CASE create_branch(q, b)
    <3> DEFINE write == [NoWrite EXCEPT !.branches = Row(b, "active")]
    <3>1. Prepare(q, {}, write)
      BY <2>1 DEF create_branch
    <3>2. Row(b, "active") \in PartialRows(Branch, BranchRow) /\ "active" \in BranchRow
      BY RowType DEF BranchRow
    <3>3. /\ write \in WriteRow /\ write.branches = Row(b, "active") /\ write.bumps = NoWrite.bumps
          /\ write.memberships = NoWrite.memberships /\ write.roles = NoWrite.roles
          /\ write.invitations = NoWrite.invitations
      BY <3>2, NoWriteRow DEF WriteRow
    <3> HIDE DEF write
    <3>4. QED
      BY <3>1, <3>2, <3>3
  <2>2. CASE deactivate_branch(q, b)
    <3> DEFINE write == [NoWrite EXCEPT !.branches = Row(b, "inactive")]
    <3>1. Prepare(q, ForUpdate(b), write) /\ ForUpdate(b) \in SUBSET Lock
      BY <2>2, ForUpdateLock DEF deactivate_branch
    <3>2. Row(b, "inactive") \in PartialRows(Branch, BranchRow) /\ "inactive" \in BranchRow
      BY RowType DEF BranchRow
    <3>3. /\ write \in WriteRow /\ write.branches = Row(b, "inactive") /\ write.bumps = NoWrite.bumps
          /\ write.memberships = NoWrite.memberships /\ write.roles = NoWrite.roles
          /\ write.invitations = NoWrite.invitations
      BY <3>2, NoWriteRow DEF WriteRow
    <3> HIDE DEF write
    <3>4. QED
      BY <3>1, <3>2, <3>3
  <2>3. QED
    BY <2>1, <2>2
<1>3. ASSUME NEW x, x.locks = locks, x.write = write PROVE Sound(q, x)
  <2>1. /\ DOMAIN x.write.memberships = {} /\ DOMAIN x.write.roles = {}
        /\ DOMAIN x.write.invitations = {} /\ x.write.bumps = {}
    BY <1>2, <1>3, NoWriteRow
  <2>2. QED
    BY <2>1 DEF Sound, MembershipsGuarded, MembershipsStep, RolesGuarded, InvitationsGuarded
<1>4. QED
  BY <1>1, <1>2, <1>3, PrepareStep

\* The members of a changed role get a new version, under locks no other transaction holds.
LEMMA BumpStep ==
  ASSUME AccessInv, NEW q \in Request, bump_assigned_memberships(q)
  PROVE  AccessInv'
<1> DEFINE members == UNION {Assigned(r) : r \in request[q].write.bumps}
           rows == [u \in members |-> [memberships[u] EXCEPT !.version = @ + 1]]
           write == [request[q].write EXCEPT !.memberships = rows, !.bumps = {}]
           taken == {<<u, "nokey">> : u \in members}
           x == [request[q] EXCEPT !.locks = @ \cup taken, !.write = write]
<1>1. request[q] \in RequestRow /\ request[q].write \in WriteRow /\ request[q].locks \subseteq Lock
  BY RequestType DEF AccessInv
<1>2. members \subseteq User /\ \A u \in members : \E r \in request[q].write.bumps : u \in Assigned(r)
  BY DEF Assigned
<1>3. \A r \in request[q].write.bumps : Assigned(r) \subseteq members
  OBVIOUS
<1>4. \A u \in members : CanLock(q, u, "nokey")
  BY DEF bump_assigned_memberships
<1>5. request' = [request EXCEPT ![q] = x]
  BY <1>1 DEF bump_assigned_memberships, RequestRow, WriteRow
<1>6. request[q].step = "checked" /\ request[q].write.bumps # {}
  BY DEF bump_assigned_memberships
<1> HIDE DEF members
<1>7. ASSUME NEW u \in members
      PROVE  /\ u \in User /\ existing_membership(u)
             /\ rows[u] \in MembershipRow /\ rows[u].status = memberships[u].status
             /\ rows[u].roles = memberships[u].roles
             /\ rows[u].version = memberships[u].version + 1
  <2>1. u \in User /\ memberships[u] \in MembershipRow
    BY <1>2 DEF AccessInv, TypeOK
  <2>2. memberships[u].roles # {}
    BY <1>2 DEF Assigned
  <2>3. existing_membership(u)
    BY <2>1, <2>2 DEF AccessInv, TablesInv, HeldRolesLive
  <2>4. rows[u] = [memberships[u] EXCEPT !.version = @ + 1]
    OBVIOUS
  <2> HIDE DEF rows
  <2>5. QED
    BY <2>1, <2>3, <2>4, MembershipRowOf
<1>8. rows \in [members -> MembershipRow]
  BY <1>7
<1>9. DOMAIN rows = members
  OBVIOUS
<1> HIDE DEF rows
<1>10. rows \in PartialRows(User, MembershipRow)
  BY <1>2, <1>8, PartialRow
<1>11. /\ write \in WriteRow /\ write.memberships = rows /\ write.bumps = {}
       /\ write.roles = request[q].write.roles /\ write.invitations = request[q].write.invitations
       /\ write.branches = request[q].write.branches /\ write.names = request[q].write.names
  BY <1>1, <1>10 DEF WriteRow
<1> HIDE DEF write
<1>12. taken \subseteq Lock /\ \A u \in members : <<u, "nokey">> \in taken
  BY <1>2 DEF Lock
<1>13. \A l \in taken : \E u \in members : l = <<u, "nokey">>
  OBVIOUS
<1> HIDE DEF taken
<1>14. x \in RequestRow
  BY <1>1, <1>11, <1>12 DEF RequestRow
<1>15. x.step = "checked" /\ x.locks = request[q].locks \cup taken /\ x.write = write
  BY <1>1, <1>6 DEF RequestRow
<1> HIDE DEF x
<1>16. RowInv(request[q]) /\ \A p \in Request \ {q} : PairInv(request[q], request[p])
  BY RequestSound
<1>17. DOMAIN request[q].write.memberships = {}
  BY <1>6, <1>16 DEF RowInv, Idle
<1>18. MembershipsGuarded(x)
  BY <1>7, <1>9, <1>11, <1>12, <1>15 DEF MembershipsGuarded
<1>19. MembershipsStep(x)
  BY <1>7, <1>9, <1>11, <1>15 DEF MembershipsStep, existing_membership
<1>20. RolesGuarded(x)
  <2>1. SUFFICES ASSUME NEW r \in DOMAIN x.write.roles
        PROVE  /\ roles[r].life = "absent" \/ (roles[r].life = "live" /\ <<r, "update">> \in x.locks)
               /\ \A u \in Assigned(r) : /\ u \in DOMAIN x.write.memberships
                                         /\ x.write.memberships[u].version = memberships[u].version + 1
               /\ x.write.roles[r].life # "live" => Assigned(r) = {}
               /\ x.write.names = {}
    BY DEF RolesGuarded
  <2>2. /\ roles[r].life = "absent" \/ (roles[r].life = "live" /\ <<r, "update">> \in request[q].locks)
        /\ \A u \in Assigned(r) : r \in request[q].write.bumps
        /\ request[q].write.roles[r].life # "live" => Assigned(r) = {}
        /\ request[q].write.names = {}
    BY <1>11, <1>15, <1>16, <1>17 DEF RowInv, RolesGuarded
  <2>3. \A u \in Assigned(r) : u \in members
    BY <1>3, <2>2
  <2>4. QED
    BY <1>7, <1>9, <1>11, <1>15, <2>2, <2>3
<1>21. InvitationsGuarded(x)
  BY <1>11, <1>15, <1>16 DEF RowInv, InvitationsGuarded
<1>23. RowInv(x)
  BY <1>11, <1>15, <1>18, <1>19, <1>20, <1>21 DEF RowInv, Idle, FlushedHolds, ContextInv
<1>24. ASSUME NEW p \in Request \ {q} PROVE PairInv(x, request[p])
  <2>1. Compatible(x, request[p])
    <3>1. ASSUME NEW a \in x.locks, NEW b \in request[p].locks, a[1] = b[1]
          PROVE  ~Conflicts(a[2], b[2])
      <4>1. CASE a \in request[q].locks
        BY <1>16, <3>1, <4>1 DEF PairInv, Compatible
      <4>2. CASE a \in taken
        <5>1. PICK u \in members : a = <<u, "nokey">>
          BY <1>13, <4>2
        <5>2. QED
          BY <1>4, <3>1, <5>1 DEF CanLock
      <4>3. QED
        BY <1>15, <4>1, <4>2
    <3>2. QED
      BY <3>1 DEF Compatible
  <2>2. Apart(request[q], request[p]) /\ RowInv(request[p]) /\ PendingApart
    BY <1>16, RequestSound DEF PairInv, AccessInv, TablesInv
  <2>3. /\ DOMAIN x.write.roles \cap DOMAIN request[p].write.roles = {}
        /\ DOMAIN x.write.invitations \cap DOMAIN request[p].write.invitations = {}
    BY <1>11, <1>15, <2>2 DEF Apart
  <2>4. Apart(x, request[p])
    BY <1>18, <1>20, <1>21, <2>1, <2>2, <2>3, GuardedApart DEF RowInv
  <2>5. QED
    BY <1>15, <2>1, <2>4 DEF PairInv, InsertsApart
<1>25. UNCHANGED <<tables, cache>>
  BY DEF bump_assigned_memberships
<1>26. CacheInv' /\ cache' \subseteq User \X Nat \X Permission
  BY <1>25, CacheInvKept DEF AccessInv, TypeOK
<1>27. QED
  BY <1>5, <1>14, <1>23, <1>24, <1>25, <1>26, RequestStep

\* The foreign keys lock the rows they name; new invitations pass the unique index.
LEMMA FlushStep ==
  ASSUME AccessInv, NEW q \in Request, Flush(q)
  PROVE  AccessInv'
<1> DEFINE write == request[q].write
           named == write.names \cup {Tenant}
                     \cup (IF write.audited THEN {request[q].actor} \ {Nobody} ELSE {})
           taken == {<<row, "keyshare">> : row \in named}
           x == [request[q] EXCEPT !.step = "flushed", !.locks = @ \cup taken]
<1>1. request[q] \in RequestRow /\ write \in WriteRow /\ request[q].locks \subseteq Lock
  BY RequestType DEF AccessInv
<1>2. request' = [request EXCEPT ![q] = x]
  BY <1>1 DEF Flush
<1>3. named \subseteq User \cup Role \cup Invitation \cup Branch \cup {Tenant}
  BY <1>1 DEF RequestRow, WriteRow
<1>4. \A row \in named : CanLock(q, row, "keyshare")
  BY DEF Flush
<1>5. write.names \subseteq named
  OBVIOUS
<1>6. /\ request[q].step = "checked" /\ write.bumps = {}
      /\ write.names \cap Role \subseteq Live /\ UniquePending(q)
  BY DEF Flush
<1> HIDE DEF named
<1>7. taken \subseteq Lock /\ \A row \in named : <<row, "keyshare">> \in taken
  BY <1>3 DEF Lock
<1>8. \A l \in taken : \E row \in named : l = <<row, "keyshare">>
  OBVIOUS
<1> HIDE DEF taken
<1>9. x \in RequestRow
  BY <1>1, <1>7 DEF RequestRow, Step
<1>10. x.step = "flushed" /\ x.locks = request[q].locks \cup taken /\ x.write = write
  BY <1>1 DEF RequestRow
<1> HIDE DEF x
<1>11. RowInv(request[q]) /\ \A p \in Request \ {q} : PairInv(request[q], request[p])
  BY RequestSound
<1>12. RowInv(x)
  <2>1. Idle(x) /\ ContextInv(x)
    BY <1>6, <1>10 DEF Idle, ContextInv
  <2>2. MembershipsGuarded(x) /\ MembershipsStep(x)
    BY <1>10, <1>11 DEF RowInv, MembershipsGuarded, MembershipsStep
  <2>3. RolesGuarded(x)
    BY <1>10, <1>11 DEF RowInv, RolesGuarded
  <2>4. InvitationsGuarded(x)
    BY <1>10, <1>11 DEF RowInv, InvitationsGuarded
  <2>5. FlushedHolds(x)
    BY <1>5, <1>6, <1>7, <1>10 DEF FlushedHolds, UniquePending, Inserts
  <2>6. QED
    BY <2>1, <2>2, <2>3, <2>4, <2>5 DEF RowInv
<1>13. ASSUME NEW p \in Request \ {q} PROVE PairInv(x, request[p])
  <2>1. Compatible(x, request[p])
    <3>1. ASSUME NEW a \in x.locks, NEW b \in request[p].locks, a[1] = b[1]
          PROVE  ~Conflicts(a[2], b[2])
      <4>1. CASE a \in request[q].locks
        BY <1>11, <3>1, <4>1 DEF PairInv, Compatible
      <4>2. CASE a \in taken
        <5>1. PICK row \in named : a = <<row, "keyshare">>
          BY <1>8, <4>2
        <5>2. QED
          BY <1>4, <3>1, <5>1 DEF CanLock
      <4>3. QED
        BY <1>10, <4>1, <4>2
    <3>2. QED
      BY <3>1 DEF Compatible
  <2>2. Apart(x, request[p])
    BY <1>10, <1>11 DEF PairInv, Apart
  <2>3. InsertsApart(x, request[p])
    BY <1>6, <1>10 DEF InsertsApart, UniquePending, Inserts
  <2>4. QED
    BY <2>1, <2>2, <2>3 DEF PairInv
<1>14. UNCHANGED <<tables, cache>>
  BY DEF Flush
<1>15. CacheInv' /\ cache' \subseteq User \X Nat \X Permission
  BY <1>14, CacheInvKept DEF AccessInv, TypeOK
<1>16. QED
  BY <1>2, <1>9, <1>12, <1>13, <1>14, <1>15, RequestStep

(* The commit of one transaction, under the eyes of the others.            *)

\* A table after a commit.
LEMMA WrittenRow ==
  ASSUME NEW K, NEW V, NEW new \in PartialRows(K, V), NEW table \in [K -> V]
  PROVE  /\ Written(new, table) \in [K -> V]
         /\ \A k \in K : Written(new, table)[k] = IF k \in DOMAIN new THEN new[k] ELSE table[k]
<1>1. \A k \in DOMAIN new : new[k] \in V
  BY PartialRow
<1>2. QED
  BY <1>1 DEF Written

\* The four tables after a commit.
LEMMA CommitTables ==
  ASSUME AccessInv, NEW q \in Request, Commit(q)
  PROVE  LET write == request[q].write
         IN  /\ memberships' \in [User -> MembershipRow]
             /\ \A u \in User : memberships'[u] = IF u \in DOMAIN write.memberships
                                                  THEN write.memberships[u] ELSE memberships[u]
             /\ roles' \in [Role -> RoleRow]
             /\ \A r \in Role : roles'[r] = IF r \in DOMAIN write.roles
                                            THEN write.roles[r] ELSE roles[r]
             /\ invitations' \in [Invitation -> InvitationRow]
             /\ \A i \in Invitation : invitations'[i] = IF i \in DOMAIN write.invitations
                                                        THEN write.invitations[i] ELSE invitations[i]
             /\ branches' \in [Branch -> BranchRow]
             /\ \A b \in Branch : branches'[b] = IF b \in DOMAIN write.branches
                                                 THEN write.branches[b] ELSE branches[b]
<1> DEFINE write == request[q].write
<1>1. /\ write.memberships \in PartialRows(User, MembershipRow)
      /\ write.roles \in PartialRows(Role, RoleRow)
      /\ write.invitations \in PartialRows(Invitation, InvitationRow)
      /\ write.branches \in PartialRows(Branch, BranchRow)
  BY RequestType DEF AccessInv, WriteRow
<1>2. /\ memberships \in [User -> MembershipRow] /\ roles \in [Role -> RoleRow]
      /\ invitations \in [Invitation -> InvitationRow] /\ branches \in [Branch -> BranchRow]
  BY DEF AccessInv, TypeOK
<1>3. /\ memberships' = Written(write.memberships, memberships)
      /\ roles' = Written(write.roles, roles)
      /\ invitations' = Written(write.invitations, invitations)
      /\ branches' = Written(write.branches, branches)
  BY DEF Commit
<1> HIDE DEF write
<1>4. /\ memberships' \in [User -> MembershipRow]
      /\ \A u \in User : memberships'[u] = IF u \in DOMAIN write.memberships
                                           THEN write.memberships[u] ELSE memberships[u]
  BY <1>1, <1>2, <1>3, WrittenRow
<1>5. /\ roles' \in [Role -> RoleRow]
      /\ \A r \in Role : roles'[r] = IF r \in DOMAIN write.roles THEN write.roles[r] ELSE roles[r]
  BY <1>1, <1>2, <1>3, WrittenRow
<1>6. /\ invitations' \in [Invitation -> InvitationRow]
      /\ \A i \in Invitation : invitations'[i] = IF i \in DOMAIN write.invitations
                                                 THEN write.invitations[i] ELSE invitations[i]
  BY <1>1, <1>2, <1>3, WrittenRow
<1>7. /\ branches' \in [Branch -> BranchRow]
      /\ \A b \in Branch : branches'[b] = IF b \in DOMAIN write.branches
                                          THEN write.branches[b] ELSE branches[b]
  BY <1>1, <1>2, <1>3, WrittenRow
<1>8. QED
  BY <1>4, <1>5, <1>6, <1>7 DEF write

\* What a commit does to a membership: it stays one, gains only live roles, and its version does
\* not fall.
LEMMA CommitMembers ==
  ASSUME AccessInv, NEW q \in Request, Commit(q), NEW u \in User
  PROVE  /\ existing_membership(u) => /\ existing_membership(u)'
                                      /\ \/ memberships'[u].version = memberships[u].version
                                         \/ memberships'[u].version = memberships[u].version + 1
         /\ \A r \in memberships'[u].roles \ memberships[u].roles :
                /\ r \in Live /\ r \in request[q].write.names /\ <<r, "keyshare">> \in request[q].locks
         /\ ~existing_membership(u)' => memberships'[u] = memberships[u]
<1>1. MembershipsStep(request[q]) /\ FlushedHolds(request[q]) /\ request[q].step = "flushed"
  BY RequestSound DEF RowInv, Commit
<1>2. /\ memberships'[u] \in MembershipRow
      /\ memberships'[u] = IF u \in DOMAIN request[q].write.memberships
                           THEN request[q].write.memberships[u] ELSE memberships[u]
  BY CommitTables
<1>3. CASE u \notin DOMAIN request[q].write.memberships
  BY <1>2, <1>3 DEF existing_membership
<1>4. CASE u \in DOMAIN request[q].write.memberships
  BY <1>1, <1>2, <1>4 DEF MembershipsStep, FlushedHolds, existing_membership, MembershipRow
<1>5. QED
  BY <1>3, <1>4

\* Under an unchanged version a member keeps exactly the permissions it had.
LEMMA CommitPermissions ==
  ASSUME AccessInv, NEW q \in Request, Commit(q), NEW u \in User, existing_membership(u),
         memberships'[u].version = memberships[u].version
  PROVE  get_permissions(u)' = get_permissions(u)
<1>1. /\ MembershipsStep(request[q]) /\ RolesGuarded(request[q]) /\ Idle(request[q])
      /\ request[q].step = "flushed"
  BY RequestSound DEF RowInv, Commit
<1>2. /\ memberships'[u] = IF u \in DOMAIN request[q].write.memberships
                           THEN request[q].write.memberships[u] ELSE memberships[u]
      /\ \A r \in Role : roles'[r] = IF r \in DOMAIN request[q].write.roles
                                     THEN request[q].write.roles[r] ELSE roles[r]
  BY CommitTables
<1>3. memberships[u].roles \subseteq Role /\ memberships[u].version \in Nat
  BY DEF AccessInv, TypeOK, MembershipRow
<1>4. memberships'[u].roles = memberships[u].roles
  <2>1. CASE u \in DOMAIN request[q].write.memberships
    <3>1. memberships'[u] = request[q].write.memberships[u]
      BY <1>2, <2>1
    <3>2. memberships'[u].version # memberships[u].version + 1
      BY <1>3
    <3>3. QED
      BY <1>1, <2>1, <3>1, <3>2 DEF MembershipsStep
  <2>2. QED
    BY <1>2, <2>1
<1>5. \A r \in memberships[u].roles : r \notin DOMAIN request[q].write.roles
  <2>1. SUFFICES ASSUME NEW r \in memberships[u].roles, r \in DOMAIN request[q].write.roles
                 PROVE  FALSE
    OBVIOUS
  <2>2. u \in Assigned(r) /\ request[q].write.bumps = {}
    BY <1>1, <2>1 DEF Assigned, Idle
  <2>3. /\ u \in DOMAIN request[q].write.memberships
        /\ request[q].write.memberships[u].version = memberships[u].version + 1
    BY <1>1, <2>1, <2>2 DEF RolesGuarded
  <2>4. QED
    BY <1>2, <1>3, <2>3
<1>6. \A r \in memberships[u].roles : roles'[r] = roles[r]
  BY <1>2, <1>3, <1>5
<1>7. {roles'[r].codes : r \in memberships[u].roles} = {roles[r].codes : r \in memberships[u].roles}
  BY <1>6
<1>8. QED
  BY <1>4, <1>7 DEF get_permissions, role_permissions

\* After a commit every role of a member is live.
LEMMA CommitHeldRoles ==
  ASSUME AccessInv, NEW q \in Request, Commit(q)
  PROVE  HeldRolesLive'
<1>1. SUFFICES ASSUME NEW u \in User
               PROVE  /\ \A r \in memberships'[u].roles : r \in Live'
                      /\ ~existing_membership(u)' => memberships'[u].roles = {}
  BY DEF HeldRolesLive
<1>2. ~existing_membership(u)' => memberships'[u].roles = {}
  BY CommitMembers DEF AccessInv, TablesInv, HeldRolesLive, existing_membership
<1>3. ASSUME NEW r \in memberships'[u].roles PROVE r \in Live'
  <2>1. RolesGuarded(request[q])
    BY RequestSound DEF RowInv
  <2>2. r \in Live
    BY <1>3, CommitMembers DEF AccessInv, TablesInv, HeldRolesLive
  <2>3. r \in Role /\ roles[r].life = "live"
    BY <2>2 DEF Live
  <2>4. roles'[r] = IF r \in DOMAIN request[q].write.roles THEN request[q].write.roles[r] ELSE roles[r]
    BY <2>3, CommitTables
  <2>5. CASE r \notin DOMAIN request[q].write.roles
    BY <2>3, <2>4, <2>5 DEF Live
  <2>6. CASE r \in DOMAIN request[q].write.roles
    <3>1. r \in memberships[u].roles
      BY <1>3, <2>1, <2>6, CommitMembers DEF RolesGuarded
    <3>2. request[q].write.roles[r].life = "live"
      BY <2>1, <2>6, <3>1 DEF RolesGuarded, Assigned
    <3>3. QED
      BY <2>3, <2>4, <2>6, <3>2 DEF Live
  <2>7. QED
    BY <2>5, <2>6
<1>4. QED
  BY <1>2, <1>3

\* An invitation a commit leaves pending was pending with the same address, or is inserted by it.
LEMMA CommitPending ==
  ASSUME AccessInv, NEW q \in Request, Commit(q), NEW i \in Invitation,
         invitations'[i].status = "PENDING"
  PROVE  /\ invitations'[i].email \in User
         /\ \/ invitations[i].status = "PENDING" /\ invitations[i].email = invitations'[i].email
            \/ /\ i \in Inserts(request[q])
               /\ invitations'[i].email = request[q].write.invitations[i].email
<1>1. InvitationsGuarded(request[q]) /\ PendingApart
  BY RequestSound DEF RowInv, AccessInv, TablesInv
<1>2. invitations'[i] = IF i \in DOMAIN request[q].write.invitations
                        THEN request[q].write.invitations[i] ELSE invitations[i]
  BY CommitTables
<1>3. QED
  BY <1>1, <1>2 DEF InvitationsGuarded, PendingApart, Inserts

\* After a commit an address still has one pending invitation.
LEMMA CommitPendingApart ==
  ASSUME AccessInv, NEW q \in Request, Commit(q)
  PROVE  PendingApart'
<1>1. SUFFICES ASSUME NEW i \in Invitation, NEW j \in Invitation, i # j,
                      invitations'[i].status = "PENDING", invitations'[j].status = "PENDING"
               PROVE  invitations'[i].email # invitations'[j].email
  BY CommitPending DEF PendingApart
<1>2. /\ InvitationsGuarded(request[q]) /\ FlushedHolds(request[q]) /\ PendingApart
      /\ request[q].step = "flushed"
  BY RequestSound DEF RowInv, AccessInv, TablesInv, Commit
<1>3. i \notin Inserts(request[q]) \/ j \notin Inserts(request[q])
  BY <1>1, <1>2 DEF Inserts, InvitationsGuarded
<1>4. /\ \/ invitations[i].status = "PENDING" /\ invitations[i].email = invitations'[i].email
         \/ /\ i \in Inserts(request[q])
            /\ invitations'[i].email = request[q].write.invitations[i].email
      /\ \/ invitations[j].status = "PENDING" /\ invitations[j].email = invitations'[j].email
         \/ /\ j \in Inserts(request[q])
            /\ invitations'[j].email = request[q].write.invitations[j].email
  BY <1>1, CommitPending
<1>5. \A k \in Inserts(request[q]), l \in Invitation : invitations[l].status = "PENDING"
          => invitations[l].email # request[q].write.invitations[k].email
  BY <1>2 DEF FlushedHolds
<1>6. QED
  BY <1>1, <1>2, <1>3, <1>4, <1>5 DEF PendingApart

\* After a commit the cache is current: a member whose permissions change has a new version,
\* under which nothing is cached.
LEMMA CommitCache ==
  ASSUME AccessInv, NEW q \in Request, Commit(q)
  PROVE  CacheInv' /\ cache' \subseteq User \X Nat \X Permission
<1>1. cache' = cache /\ cache \subseteq User \X Nat \X Permission
  BY DEF Commit, AccessInv, TypeOK
<1>2. \A u \in User : memberships[u].version \in Nat /\ memberships'[u].version \in Nat
  BY CommitTables DEF AccessInv, TypeOK, MembershipRow
<1>3. ASSUME NEW entry \in cache'
      PROVE  existing_membership(entry[1])' /\ entry[2] <= memberships'[entry[1]].version
  <2>1. PICK u \in User, n \in Nat, c \in Permission : entry = <<u, n, c>>
    BY <1>1
  <2>2. existing_membership(u) /\ n <= memberships[u].version
    BY <1>1, <2>1 DEF AccessInv, CacheInv
  <2>3. existing_membership(u)' /\ memberships[u].version <= memberships'[u].version
    BY <1>2, <2>2, CommitMembers
  <2>4. n <= memberships'[u].version
    BY <1>2, <2>2, <2>3
  <2>5. entry[1] = u /\ entry[2] = n
    BY <2>1
  <2>6. QED
    BY <2>3, <2>4, <2>5
<1>4. ASSUME NEW u \in User
      PROVE  smembers(u, memberships[u].version)' \in {{}, get_permissions(u)'}
  <2>1. PICK v : v = memberships'[u].version
    OBVIOUS
  <2>2. smembers(u, memberships[u].version)' = smembers(u, v)
    BY <1>1, <2>1 DEF smembers
  <2>3. CASE existing_membership(u) /\ v = memberships[u].version
    BY <2>1, <2>2, <2>3, CommitPermissions DEF AccessInv, CacheInv, CacheIsCurrent
  <2>4. CASE ~(existing_membership(u) /\ v = memberships[u].version)
    <3>1. ASSUME NEW c, <<u, v, c>> \in cache PROVE FALSE
      <4>1. existing_membership(u) /\ v <= memberships[u].version
        BY <3>1 DEF AccessInv, CacheInv
      <4>2. QED
        BY <1>2, <2>1, <2>4, <4>1, CommitMembers
    <3>2. QED
      BY <2>2, <3>1 DEF smembers
  <2>5. QED
    BY <2>3, <2>4
<1>5. QED
  BY <1>1, <1>3, <1>4 DEF CacheInv, CacheIsCurrent

\* Locks that conflict are not held by two requests.
LEMMA Exclusive ==
  ASSUME NEW x, NEW y, Compatible(x, y), NEW row, NEW a, NEW b,
         <<row, a>> \in x.locks, <<row, b>> \in y.locks
  PROVE  ~Conflicts(a, b)
<1>1. ~Conflicts(<<row, a>>[2], <<row, b>>[2])
  BY DEF Compatible
<1>2. QED
  BY <1>1

\* The rows another transaction writes, or relies on, are not written by the one that commits.
LEMMA CommitOthers ==
  ASSUME AccessInv, NEW q \in Request, Commit(q), NEW p \in Request \ {q}
  PROVE  /\ \A u \in DOMAIN request[p].write.memberships : memberships'[u] = memberships[u]
         /\ \A r \in DOMAIN request[p].write.roles :
                roles'[r] = roles[r] /\ Assigned(r)' \subseteq Assigned(r)
         /\ \A i \in DOMAIN request[p].write.invitations : invitations'[i] = invitations[i]
         /\ \A i \in Invitation : invitations[i].status = "PENDING" /\ <<i, "update">> \in request[p].locks
                => invitations'[i] = invitations[i]
         /\ \A r \in Live : <<r, "keyshare">> \in request[p].locks => roles'[r] = roles[r]
<1>1. /\ PairInv(request[q], request[p]) /\ RowInv(request[q]) /\ RowInv(request[p])
      /\ Compatible(request[q], request[p])
  BY RequestSound DEF PairInv
<1>2. /\ request[p].write.memberships \in PartialRows(User, MembershipRow)
      /\ request[p].write.roles \in PartialRows(Role, RoleRow)
      /\ request[p].write.invitations \in PartialRows(Invitation, InvitationRow)
  BY RequestType DEF AccessInv, WriteRow
<1>3. /\ DOMAIN request[p].write.memberships \subseteq User
      /\ DOMAIN request[p].write.roles \subseteq Role
      /\ DOMAIN request[p].write.invitations \subseteq Invitation
  BY <1>2, PartialRow
<1>4. Apart(request[q], request[p])
  BY <1>1 DEF PairInv
<1>5. \A u \in DOMAIN request[p].write.memberships : memberships'[u] = memberships[u]
  BY <1>3, <1>4, CommitTables DEF Apart
<1>6. \A r \in DOMAIN request[p].write.roles : roles'[r] = roles[r]
  BY <1>3, <1>4, CommitTables DEF Apart
<1>7. \A i \in DOMAIN request[p].write.invitations : invitations'[i] = invitations[i]
  BY <1>3, <1>4, CommitTables DEF Apart
<1>8. ASSUME NEW r \in DOMAIN request[p].write.roles, NEW u \in User, r \in memberships'[u].roles
      PROVE  r \in memberships[u].roles
  <2>1. SUFFICES ASSUME r \notin memberships[u].roles PROVE FALSE
    OBVIOUS
  <2>2. r \in Live /\ <<r, "keyshare">> \in request[q].locks
    BY <1>8, <2>1, CommitMembers
  <2>3. <<r, "update">> \in request[p].locks
    BY <1>1, <1>8, <2>2 DEF RowInv, RolesGuarded, Live
  <2>4. ~Conflicts("keyshare", "update")
    BY <1>1, <2>2, <2>3, Exclusive
  <2>5. QED
    BY <2>4 DEF Conflicts
<1>9. ASSUME NEW i \in Invitation, invitations[i].status = "PENDING", <<i, "update">> \in request[p].locks
      PROVE  invitations'[i] = invitations[i]
  <2>1. CASE i \in DOMAIN request[q].write.invitations
    <3>1. <<i, "update">> \in request[q].locks
      BY <1>1, <1>9, <2>1 DEF RowInv, InvitationsGuarded
    <3>2. ~Conflicts("update", "update")
      BY <1>1, <1>9, <3>1, Exclusive
    <3>3. QED
      BY <3>2 DEF Conflicts
  <2>2. CASE i \notin DOMAIN request[q].write.invitations
    BY <2>2, CommitTables
  <2>3. QED
    BY <2>1, <2>2
<1>10. ASSUME NEW r \in Live, <<r, "keyshare">> \in request[p].locks
       PROVE  roles'[r] = roles[r]
  <2>1. r \in Role /\ roles[r].life = "live"
    BY DEF Live
  <2>2. CASE r \in DOMAIN request[q].write.roles
    <3>1. <<r, "update">> \in request[q].locks
      BY <1>1, <2>1, <2>2 DEF RowInv, RolesGuarded
    <3>2. ~Conflicts("update", "keyshare")
      BY <1>1, <1>10, <3>1, Exclusive
    <3>3. QED
      BY <3>2 DEF Conflicts
  <2>3. CASE r \notin DOMAIN request[q].write.roles
    BY <2>1, <2>3, CommitTables
  <2>4. QED
    BY <2>2, <2>3
<1>11. \A r \in DOMAIN request[p].write.roles : Assigned(r)' \subseteq Assigned(r)
  BY <1>8 DEF Assigned
<1>12. QED
  BY <1>5, <1>6, <1>7, <1>9, <1>10, <1>11

\* A commit leaves the other requests sound.
LEMMA CommitRowInv ==
  ASSUME AccessInv, NEW q \in Request, Commit(q), NEW p \in Request \ {q}, NEW y, y = request[p]
  PROVE  RowInv(y)'
<1>1. RowInv(y) /\ PairInv(request[q], y)
  BY RequestSound
<1>2. /\ \A u \in DOMAIN y.write.memberships : memberships'[u] = memberships[u]
      /\ \A r \in DOMAIN y.write.roles : roles'[r] = roles[r] /\ Assigned(r)' \subseteq Assigned(r)
      /\ \A i \in DOMAIN y.write.invitations : invitations'[i] = invitations[i]
  BY CommitOthers
<1>3. \A i \in Invitation : invitations[i].status = "PENDING" /\ <<i, "update">> \in y.locks
          => invitations'[i] = invitations[i]
  BY CommitOthers
<1>4. \A r \in Live : <<r, "keyshare">> \in y.locks => roles'[r] = roles[r]
  BY CommitOthers
<1>5. Idle(y)'
  BY <1>1 DEF RowInv, Idle
<1>6. MembershipsGuarded(y)'
  <2>1. SUFFICES ASSUME NEW u \in DOMAIN y.write.memberships
        PROVE  \/ /\ existing_membership(u)'
                  /\ <<u, "update">> \in y.locks \/ <<u, "nokey">> \in y.locks
               \/ /\ ~existing_membership(u)'
                  /\ \E i \in Invitation : /\ invitations'[i].status = "PENDING"
                                           /\ invitations'[i].email = u
                                           /\ <<i, "update">> \in y.locks
    BY DEF MembershipsGuarded
  <2>2. MembershipsGuarded(y) /\ existing_membership(u)' = existing_membership(u)
    BY <1>1, <1>2 DEF RowInv, existing_membership
  <2>3. CASE existing_membership(u)
    BY <2>2, <2>3 DEF MembershipsGuarded
  <2>4. CASE ~existing_membership(u)
    <3>1. PICK i \in Invitation : /\ invitations[i].status = "PENDING" /\ invitations[i].email = u
                                  /\ <<i, "update">> \in y.locks
      BY <2>2, <2>4 DEF MembershipsGuarded
    <3>2. invitations'[i] = invitations[i]
      BY <1>3, <3>1
    <3>3. QED
      BY <2>2, <2>4, <3>1, <3>2
  <2>5. QED
    BY <2>3, <2>4
<1>7. MembershipsStep(y)'
  BY <1>1, <1>2 DEF RowInv, MembershipsStep, existing_membership
<1>8. RolesGuarded(y)'
  <2>1. SUFFICES ASSUME NEW r \in DOMAIN y.write.roles
        PROVE  /\ roles'[r].life = "absent" \/ (roles'[r].life = "live" /\ <<r, "update">> \in y.locks)
               /\ \A u \in Assigned(r)' :
                      \/ r \in y.write.bumps
                      \/ /\ u \in DOMAIN y.write.memberships
                         /\ y.write.memberships[u].version = memberships'[u].version + 1
               /\ y.write.roles[r].life # "live" => Assigned(r)' = {}
               /\ y.write.names = {}
    BY DEF RolesGuarded
  <2>2. RolesGuarded(y)
    BY <1>1 DEF RowInv
  <2>3. roles'[r] = roles[r] /\ Assigned(r)' \subseteq Assigned(r)
    BY <1>2
  <2>4. QED
    BY <1>2, <2>2, <2>3 DEF RolesGuarded
<1>9. InvitationsGuarded(y)'
  BY <1>1, <1>2 DEF RowInv, InvitationsGuarded
<1>11. FlushedHolds(y)'
  <2>1. SUFFICES ASSUME y.step = "flushed"
        PROVE  /\ \A r \in y.write.names \cap Role : r \in Live' /\ <<r, "keyshare">> \in y.locks
               /\ \A i \in Inserts(y)', j \in Invitation :
                      invitations'[j].status = "PENDING" =>
                          invitations'[j].email # y.write.invitations[i].email
    BY DEF FlushedHolds
  <2>2. /\ FlushedHolds(y) /\ InsertsApart(request[q], y) /\ request[q].step = "flushed"
    BY <1>1 DEF RowInv, PairInv, Commit
  <2>3. Inserts(y)' = Inserts(y)
    BY <1>2 DEF Inserts
  <2>4. ASSUME NEW r \in y.write.names \cap Role PROVE r \in Live' /\ <<r, "keyshare">> \in y.locks
    BY <1>4, <2>1, <2>2, <2>4 DEF FlushedHolds, Live
  <2>5. ASSUME NEW i \in Inserts(y), NEW j \in Invitation, invitations'[j].status = "PENDING"
        PROVE  invitations'[j].email # y.write.invitations[i].email
    <3>1. \/ invitations[j].status = "PENDING" /\ invitations[j].email = invitations'[j].email
          \/ /\ j \in Inserts(request[q])
             /\ invitations'[j].email = request[q].write.invitations[j].email
      BY <2>5, CommitPending
    <3>2. CASE invitations[j].status = "PENDING" /\ invitations[j].email = invitations'[j].email
      BY <2>1, <2>2, <3>2 DEF FlushedHolds
    <3>3. CASE /\ j \in Inserts(request[q])
               /\ invitations'[j].email = request[q].write.invitations[j].email
      BY <2>1, <2>2, <3>3 DEF InsertsApart
    <3>4. QED
      BY <3>1, <3>2, <3>3
  <2>6. QED
    BY <2>3, <2>4, <2>5
<1>12. ContextInv(y)'
  <2>1. SUFFICES ASSUME y.step \in {"known", "read"}
        PROVE  /\ y.actor \in User /\ existing_membership(y.actor)'
               /\ y.version <= memberships'[y.actor].version
               /\ y.step = "read" /\ y.version = memberships'[y.actor].version
                      => y.codes = get_permissions(y.actor)'
    BY DEF ContextInv
  <2>2. PICK a : a = y.actor
    OBVIOUS
  <2>3. /\ a \in User /\ existing_membership(a) /\ y.version <= memberships[a].version
        /\ y.step = "read" /\ y.version = memberships[a].version => y.codes = get_permissions(a)
    BY <1>1, <2>1, <2>2 DEF RowInv, ContextInv
  <2>4. y.version \in Nat /\ memberships[a].version \in Nat /\ memberships'[a].version \in Nat
    BY <2>3, RequestType, CommitTables DEF AccessInv, TypeOK, MembershipRow, RequestRow
  <2>5. existing_membership(a)' /\ memberships[a].version <= memberships'[a].version
    BY <2>3, <2>4, CommitMembers
  <2>6. ASSUME y.step = "read", y.version = memberships'[a].version
        PROVE  y.codes = get_permissions(a)'
    <3>1. memberships'[a].version = memberships[a].version /\ y.version = memberships[a].version
      BY <2>3, <2>4, <2>5, <2>6
    <3>2. QED
      BY <2>3, <2>6, <3>1, CommitPermissions
  <2>7. y.version <= memberships'[a].version
    BY <2>3, <2>4, <2>5
  <2>8. QED
    BY <2>2, <2>3, <2>5, <2>6, <2>7
<1>13. QED
  BY <1>5, <1>6, <1>7, <1>8, <1>9, <1>11, <1>12 DEF RowInv

\* A commit keeps the invariant.
LEMMA CommitStep ==
  ASSUME AccessInv, NEW q \in Request, Commit(q)
  PROVE  AccessInv'
<1>1. request' = [request EXCEPT ![q] = Ended]
  BY DEF Commit
<1>2. Ended.step = "done" /\ Ended.locks = {} /\ Ended.write = NoWrite
  BY DEF Ended, Arrived
<1>3. Ended \in RequestRow
  BY NoWriteRow DEF Ended, Arrived, RequestRow, Step
<1> HIDE DEF Ended
<1>4. \A p \in Request : request'[p] = IF p = q THEN Ended ELSE request[p]
  BY <1>1 DEF AccessInv, TypeOK
<1>5. TypeOK'
  <2>1. request' \in [Request -> RequestRow]
    BY <1>1, <1>3 DEF AccessInv, TypeOK
  <2>2. QED
    BY <2>1, CommitTables, CommitCache DEF TypeOK
<1>6. RowInv(Ended)' /\ \A y : PairInv(Ended, y)' /\ PairInv(y, Ended)'
  <2>1. RowInv(Ended)'
    BY <1>2, NoWriteRow DEF RowInv, Idle, MembershipsGuarded, MembershipsStep, RolesGuarded,
       InvitationsGuarded, FlushedHolds, ContextInv
  <2>2. \A y : PairInv(Ended, y)' /\ PairInv(y, Ended)'
    BY <1>2, NoWriteRow DEF PairInv, Compatible, Apart, InsertsApart
  <2>3. QED
    BY <2>1, <2>2
<1>7. ASSUME NEW p \in Request PROVE RowInv(request[p])'
  <2>1. PICK y : y = request'[p]
    OBVIOUS
  <2>2. RowInv(y)'
    BY <1>4, <1>6, <2>1, CommitRowInv
  <2>3. QED
    BY <2>1, <2>2
<1>8. ASSUME NEW p \in Request, NEW o \in Request, p # o PROVE PairInv(request[p], request[o])'
  <2>1. PICK y, z : y = request'[p] /\ z = request'[o]
    OBVIOUS
  <2>2. PairInv(y, z)'
    <3>1. CASE p = q \/ o = q
      BY <1>4, <1>6, <2>1, <3>1
    <3>2. CASE p # q /\ o # q
      <4>1. y = request[p] /\ z = request[o] /\ PairInv(y, z)
        BY <1>4, <1>8, <2>1, <3>2 DEF AccessInv
      <4>2. Inserts(y)' = Inserts(y) /\ Inserts(z)' = Inserts(z)
        BY <3>2, <4>1, CommitOthers DEF Inserts
      <4>3. QED
        BY <4>1, <4>2 DEF PairInv, Compatible, Apart, InsertsApart
    <3>3. QED
      BY <3>1, <3>2
  <2>3. QED
    BY <2>1, <2>2
<1>9. TablesInv'
  BY CommitHeldRoles, CommitPendingApart DEF TablesInv
<1>10. QED
  BY <1>5, <1>7, <1>8, <1>9, CommitCache DEF AccessInv

\* A new organization.
LEMMA AccessInit == Init => AccessInv
<1> SUFFICES ASSUME Init PROVE AccessInv
  OBVIOUS
<1> USE DEF Role
<1>1. PICK chosen \in [Founder -> {{OWNER}} \cup {{r} : r \in Given}] :
          /\ \E u \in Founder : chosen[u] = {OWNER}
          /\ memberships = [u \in User |->
                 [status |-> IF u \in Founder THEN "ACTIVE" ELSE "none",
                  roles |-> IF u \in Founder THEN chosen[u] ELSE {},
                  branches |-> {}, version |-> 0]]
  BY DEF Init
<1>2. PICK active \in (SUBSET Branch) \ {{}} :
          branches = [b \in Branch |-> IF b \in active THEN "active" ELSE "absent"]
  BY DEF Init
<1>3. \A u \in Founder : chosen[u] \subseteq {OWNER} \cup Given
  OBVIOUS
<1>4. \A u \in User : /\ memberships[u].status = IF u \in Founder THEN "ACTIVE" ELSE "none"
                      /\ memberships[u].roles = IF u \in Founder THEN chosen[u] ELSE {}
  BY <1>1
<1>5. memberships \in [User -> MembershipRow]
  <2>1. ASSUME NEW u \in User PROVE memberships[u] \in MembershipRow
    <3>1. (IF u \in Founder THEN chosen[u] ELSE {}) \subseteq Role
      BY <1>3, AccessAssumption
    <3>2. (IF u \in Founder THEN "ACTIVE" ELSE "none") \in MembershipStatus \cup {"none"}
      BY DEF MembershipStatus
    <3>3. QED
      BY <1>1, <3>1, <3>2 DEF MembershipRow
  <2>2. QED
    BY <1>1, <2>1
<1>6. roles \in [Role -> RoleRow] /\ \A r \in {OWNER} \cup Given : r \in Live
  BY AccessAssumption DEF Init, RoleRow, Live
<1>7. /\ invitations \in [Invitation -> InvitationRow]
      /\ \A i \in Invitation : invitations[i].status = "PENDING" => invitations[i].email \in User
  <2>1. ASSUME NEW row \in {[status |-> "none", email |-> Nobody, role |-> OWNER, token |-> 0]} \cup
                   [status : {"PENDING"}, email : User \ Founder, role : Given, token : {1}]
        PROVE  row \in InvitationRow /\ (row.status = "PENDING" => row.email \in User)
    BY AccessAssumption DEF InvitationRow, InvitationStatus
  <2>2. QED
    BY <2>1 DEF Init
<1>8. branches \in [Branch -> BranchRow] /\ \E b \in Branch : branches[b] = "active"
  BY <1>2 DEF BranchRow
<1>9. Arrived \in RequestRow /\ Arrived.step = "new" /\ Arrived.locks = {} /\ Arrived.write = NoWrite
  BY NoWriteRow DEF Arrived, RequestRow, Step
<1> HIDE DEF Arrived
<1>10. request = [q \in Request |-> Arrived] /\ cache = {}
  BY DEF Init
<1>11. TypeOK
  BY <1>5, <1>6, <1>7, <1>8, <1>9, <1>10 DEF TypeOK
<1>12. RowInv(Arrived) /\ \A y : PairInv(Arrived, y)
  BY <1>9, EmptyRow DEF ContextInv
<1>13. HeldRolesLive
  BY <1>3, <1>4, <1>6 DEF HeldRolesLive, existing_membership
<1>14. PendingApart
  BY <1>7 DEF PendingApart, Init
<1>16. CacheInv
  BY <1>10 DEF CacheInv, CacheIsCurrent, smembers
<1>17. QED
  BY <1>10, <1>11, <1>12, <1>13, <1>14, <1>16 DEF AccessInv, TablesInv

\* A step of nobody.
LEMMA AccessStutter ==
  ASSUME AccessInv, UNCHANGED vars
  PROVE  AccessInv'
<1>1. UNCHANGED <<tables, cache>> /\ request' = request
  BY DEF vars
<1>2. TypeOK'
  BY <1>1 DEF AccessInv, TypeOK, tables
<1>3. ASSUME NEW p \in Request PROVE RowInv(request[p])'
  <2>1. PICK y : y = request[p]
    OBVIOUS
  <2>2. QED
    BY <1>1, <2>1, RowInvKept DEF AccessInv
<1>4. ASSUME NEW p \in Request, NEW o \in Request, p # o PROVE PairInv(request[p], request[o])'
  <2>1. PICK y, z : y = request[p] /\ z = request[o]
    OBVIOUS
  <2>2. QED
    BY <1>1, <1>4, <2>1, PairInvKept DEF AccessInv
<1>5. QED
  BY <1>1, <1>2, <1>3, <1>4, TablesInvKept, CacheInvKept DEF AccessInv

\* Every step keeps the invariant.
LEMMA AccessStep ==
  ASSUME AccessInv, [Next]_vars
  PROVE  AccessInv'
<1>1. CASE UNCHANGED vars
  BY <1>1, AccessStutter
<1>2. CASE Next
  <2>1. PICK q \in Request : Next!(q)
    BY <1>2 DEF Next
  <2>2. CASE \E u \in User : get_active_membership(q, u)
    BY <2>2, MembershipRead
  <2>3. CASE CacheHit(q) \/ CacheMiss(q) \/ CachePermissions(q)
    BY <2>3, CacheHitStep, CacheMissStep, CachePermissionsStep
  <2>4. CASE \E u \in User, rs \in SUBSET Role : update_roles(q, u, rs)
    BY <2>4, UpdateRoles
  <2>5. CASE \E u \in User, bs \in SUBSET Branch : update_branches(q, u, bs)
    BY <2>5, UpdateBranches
  <2>6. CASE \E u \in User, s \in {"ACTIVE", "SUSPENDED", "REVOKED"} : update_status(q, u, s)
    BY <2>6, UpdateStatus
  <2>7. CASE \E r \in Custom, codes \in SUBSET Permission :
                 create_role(q, r, codes) \/ update_role(q, r, codes)
    BY <2>7, RolesChange
  <2>8. CASE \E r \in Custom : rename_role(q, r) \/ delete_role(q, r)
    <3>1. PICK r \in Custom : rename_role(q, r) \/ delete_role(q, r)
      BY <2>8
    <3>2. CASE rename_role(q, r)
      BY <3>2, PlainChange DEF rename_role, RequirePermission, Role
    <3>3. CASE delete_role(q, r)
      <4>1. {} \in SUBSET Permission
        OBVIOUS
      <4>2. QED
        BY <3>3, <4>1, RolesChange
    <3>4. QED
      BY <3>1, <3>2, <3>3
  <2>9. CASE \E i \in Invitation, u \in User, r \in Role : invite(q, i, u, r)
    BY <2>9, Invite
  <2>10. CASE \E i \in Invitation : revoke_invitation(q, i) \/ resend(q, i)
    BY <2>10, InvitationChange
  <2>11. CASE \E i \in Invitation, token \in 1..Cardinality(Request) : accept(q, i, token)
    BY <2>11, Accept
  <2>12. CASE \E b \in Branch : create_branch(q, b) \/ update_branch(q, b) \/ deactivate_branch(q, b)
    <3>1. PICK b \in Branch : create_branch(q, b) \/ update_branch(q, b) \/ deactivate_branch(q, b)
      BY <2>12
    <3>2. CASE update_branch(q, b)
      BY <3>2, PlainChange DEF update_branch, RequirePermission
    <3>3. QED
      BY <3>1, <3>2, BranchChange
  <2>13. CASE update_current(q)
    BY <2>13, PlainChange DEF update_current, RequirePermission
  <2>14. CASE bump_assigned_memberships(q) \/ Flush(q) \/ Commit(q) \/ Rollback(q)
    BY <2>14, BumpStep, FlushStep, CommitStep, RollbackStep
  <2>15. QED
    BY <2>1, <2>2, <2>3, <2>4, <2>5, <2>6, <2>7, <2>8, <2>9, <2>10, <2>11, <2>12, <2>13, <2>14
<1>3. QED
  BY <1>1, <1>2

\* The inductive invariant: whatever requests run at once, each has the locks that what it is to
\* write needs, no two write the same row, and the tables and the cache agree.
THEOREM AccessInvariant == Spec => []AccessInv
<1>1. AccessInv /\ [Next]_vars => AccessInv'
  BY AccessStep
<1>2. QED
  BY <1>1, AccessInit, PTL DEF Spec

\* Type correctness of the tables, the cache and the requests.
THEOREM AccessTypes == Spec => []TypeOK
<1>1. AccessInv => TypeOK
  BY DEF AccessInv
<1>2. QED
  BY <1>1, AccessInvariant, PTL

\* Under the present version of a member the cache holds its present permissions or none: a role
\* change, an assignment or a slow reader never leaves an old grant in use (rbac/service.py:22).
THEOREM CacheStaysCurrent == Spec => []CacheIsCurrent
<1>1. AccessInv => CacheIsCurrent
  BY DEF AccessInv, CacheInv
<1>2. QED
  BY <1>1, AccessInvariant, PTL

\* No interleaving of delete_role with an assignment or an accepted invitation leaves a member
\* with a role that is not there (rbac/role_service.py:98).
THEOREM MembersHaveLiveRoles == Spec => []HeldRolesLive
<1>1. AccessInv => HeldRolesLive
  BY DEF AccessInv, TablesInv
<1>2. QED
  BY <1>1, AccessInvariant, PTL

\* A decided invitation is not written.
LEMMA DecidedStep ==
  ASSUME AccessInv, [Next]_vars
  PROVE  [\A i \in Invitation : invitations[i].status \in {"ACCEPTED", "REVOKED"}
              => invitations'[i] = invitations[i]]_invitations
<1>1. CASE \E q \in Request : Commit(q)
  <2>1. PICK q \in Request : Commit(q)
    BY <1>1
  <2>2. ASSUME NEW i \in Invitation, invitations[i].status \in {"ACCEPTED", "REVOKED"}
        PROVE  invitations'[i] = invitations[i]
    <3>1. i \notin DOMAIN request[q].write.invitations
      BY <2>2, RequestSound DEF RowInv, InvitationsGuarded
    <3>2. QED
      BY <2>1, <3>1, CommitTables
  <2>3. QED
    BY <2>2
<1>2. CASE ~(\E q \in Request : Commit(q))
  <2>1. CASE UNCHANGED vars
    BY <2>1 DEF vars, tables
  <2>2. CASE Next
    <3>1. PICK q \in Request : Next!(q)
      BY <2>2 DEF Next
    <3>2. ~Commit(q)
      BY <1>2
    <3>3. UNCHANGED tables
      BY <3>1, <3>2 DEF get_active_membership, CacheHit, CacheMiss, CachePermissions, update_roles,
         update_branches, update_status, create_role, update_role, rename_role, delete_role, invite,
         revoke_invitation, resend, accept, create_branch, update_branch, deactivate_branch,
         update_current, bump_assigned_memberships, Prepare, Flush, Rollback
    <3>4. QED
      BY <3>3 DEF tables
  <2>3. QED
    BY <2>1, <2>2
<1>3. QED
  BY <1>1, <1>2

\* An accepted or revoked invitation never changes again (invitations/service.py:195).
THEOREM InvitationsDecidedOnce == Spec => DecidedOnce
<1>1. AccessInv /\ [Next]_vars =>
          [\A i \in Invitation : invitations[i].status \in {"ACCEPTED", "REVOKED"}
               => invitations'[i] = invitations[i]]_invitations
  BY DecidedStep
<1>2. QED
  BY <1>1, AccessInvariant, PTL DEF Spec, DecidedOnce

-----------------------------------------------------------------------------
(* The session of a browser: SessionRefresh.                                 *)

\* Nothing below needs the definition of a session but its fields.
LEMMA SessionFields ==
    ASSUME NEW s \in Session
    PROVE  s # None /\ s.access \in Nat /\ s.refresh \in Nat /\ s.tenant \in BOOLEAN
BY NoneAssumption DEF Session

LEMMA TypeInit == SessionsInit => SessionsTypeOK
<1> SUFFICES ASSUME SessionsInit PROVE SessionsTypeOK
  OBVIOUS
<1>1. FirstSession \in Session
  BY SessionAssumption DEF FirstSession, Session
<1>2. lock \in Fetch \cup {None} /\ lockLeft \in 0..LockTTL /\ left \in [Fetch -> 0..WaitBudget]
  BY BoundsAssumption DEF SessionsInit
<1>3. pc \in [Fetch -> Place] /\ kind \in [Fetch -> Kind]
  BY DEF SessionsInit, Place, Kind
<1>4. store \in Session \cup {None} /\ carry \in [Fetch -> Session]
  BY <1>1 DEF SessionsInit
<1>5. sawUsed \in [Fetch -> BOOLEAN] /\ trouble \in BOOLEAN
  BY DEF SessionsInit
<1>6. /\ pair \in [Fetch -> [access : Nat, refresh : Nat]] /\ seen \in [Fetch -> Nat]
      /\ call \in [Fetch -> {"none", "sent", "token", "work", "ok", "refused"}]
  BY DEF SessionsInit
<1> QED BY <1>2, <1>3, <1>4, <1>5, <1>6 DEF SessionsInit, SessionsTypeOK

LEMMA TypeStep == SessionsTypeOK /\ [SessionsNext]_sessionVars => SessionsTypeOK'
<1> SUFFICES ASSUME SessionsTypeOK, [SessionsNext]_sessionVars PROVE SessionsTypeOK'
  OBVIOUS
<1> USE DEF SessionsTypeOK
<1>a. store # None => store \in Session
  OBVIOUS
<1>b. RefreshTimeout \in 0..WaitBudget
  BY BoundsAssumption
<1>1. ASSUME NEW r \in Fetch, NEW k \in Kind, Start(r, k) PROVE SessionsTypeOK'
  BY <1>1, <1>a, SessionFields DEF Start, Goto, Place, redis, backend, rotation, history
<1>2. ASSUME NEW r \in Fetch, CallAccepted(r) PROVE SessionsTypeOK'
  <2>1. accesses' \in Nat /\ revoked' \in {"no", "logout", "elsewhere", "reuse"}
    BY <1>2 DEF CallAccepted
  <2>2. pair' \in [Fetch -> [access : Nat, refresh : Nat]]
    BY <1>2, <2>1 DEF CallAccepted
  <2>3. pc' \in [Fetch -> Place]
    BY <1>2 DEF CallAccepted, Goto, Place
  <2> QED BY <1>2, <2>1, <2>2, <2>3 DEF CallAccepted, redis, rotation, history
<1>3. ASSUME NEW r \in Fetch, CallRefused(r) \/ CallFails(r) PROVE SessionsTypeOK'
  BY <1>3 DEF CallRefused, CallFails, Finished, Goto, Place, redis, backend, rotation, history
<1>4. ASSUME NEW r \in Fetch, ReadBack(r) \/ Clear(r) PROVE SessionsTypeOK'
  BY <1>4, <1>a DEF ReadBack, Clear, Goto, Place, redis, backend, rotation, history
<1>5. ASSUME NEW r \in Fetch, WriteBack(r) PROVE SessionsTypeOK'
  <2>1. pair[r].access \in Nat /\ carry[r].refresh \in Nat
    BY SessionFields
  <2>2. store' \in Session
    BY <1>5, <2>1 DEF WriteBack, Session
  <2> QED BY <1>5, <2>2 DEF WriteBack, Goto, Place, backend, rotation
<1>6. ASSUME NEW r \in Fetch, AcquireRefreshLock(r) PROVE SessionsTypeOK'
  BY <1>6, BoundsAssumption DEF AcquireRefreshLock, Lifetime, Goto, Place, backend, rotation, history
<1>7. ASSUME NEW r \in Fetch, ReRead(r) PROVE SessionsTypeOK'
  <2>1. seen' \in [Fetch -> Nat] /\ carry' \in [Fetch -> Session]
    BY <1>7, <1>a, SessionFields DEF ReRead, Latest
  <2>2. left' \in [Fetch -> 0..WaitBudget]
    <3>1. left' = left \/ left' = [left EXCEPT ![r] = RefreshTimeout]
      BY <1>7 DEF ReRead
    <3> QED BY <1>b, <3>1
  <2>3. pc' \in [Fetch -> Place]
    BY <1>7 DEF ReRead, Goto, Place, Releasing
  <2>4. call' \in [Fetch -> {"none", "sent", "token", "work", "ok", "refused"}]
    BY <1>7 DEF ReRead
  <2> QED BY <1>7, <2>1, <2>2, <2>3, <2>4 DEF ReRead, redis, history
<1>8. ASSUME NEW r \in Fetch, RefreshAnswered(r) \/ RefreshFails(r) PROVE SessionsTypeOK'
  <2>1. left' \in [Fetch -> 0..WaitBudget]
    <3>1. left' = left \/ left' = [left EXCEPT ![r] = RefreshTimeout]
      BY <1>8 DEF RefreshAnswered, RefreshFails
    <3> QED BY <1>b, <3>1
  <2>2. pc' \in [Fetch -> Place]
    BY <1>8 DEF RefreshAnswered, RefreshFails, Goto, Place, Releasing
  <2>3. trouble' \in BOOLEAN
    BY <1>8 DEF RefreshAnswered, RefreshFails, history
  <2> QED BY <1>8, <2>1, <2>2, <2>3
          DEF RefreshAnswered, RefreshFails, redis, backend, rotation, history
<1>9. ASSUME NEW r \in Fetch, Rebind(r) \/ RebindFails(r) PROVE SessionsTypeOK'
  <2>1. accesses' \in Nat /\ pair' \in [Fetch -> [access : Nat, refresh : Nat]]
    <3>1. \/ accesses' = accesses /\ pair' = pair
          \/ accesses' = accesses + 1 /\ pair' = [pair EXCEPT ![r].access = accesses']
      BY <1>9 DEF Rebind, RebindFails, backend
    <3>2. accesses' \in Nat
      BY <3>1
    <3> QED BY <3>1, <3>2
  <2>2. pc' \in [Fetch -> Place]
    BY <1>9 DEF Rebind, RebindFails, Goto, Place, Releasing
  <2>3. trouble' \in BOOLEAN
    BY <1>9 DEF Rebind, RebindFails, history
  <2> QED BY <1>9, <2>1, <2>2, <2>3 DEF Rebind, RebindFails, redis, backend, rotation, history
<1>10. ASSUME NEW r \in Fetch, Publish(r) PROVE SessionsTypeOK'
  <2>1. /\ pair[r].access \in Nat /\ pair[r].refresh \in Nat /\ carry[r].tenant \in BOOLEAN
    BY SessionFields
  <2>2. store' \in Session
    BY <1>10, <2>1 DEF Publish, Session
  <2> QED BY <1>10, <2>1, <2>2 DEF Publish, Goto, Place, Releasing, backend, rotation, history
<1>11. ASSUME NEW r \in Fetch, ReleaseRefreshLock(r) PROVE SessionsTypeOK'
  <2>1. lock' \in Fetch \cup {None}
    BY <1>11 DEF ReleaseRefreshLock, Unlocked
  <2>a. lockLeft' \in 0..LockTTL
    <3>1. lockLeft' = 0 \/ lockLeft' = lockLeft
      BY <1>11 DEF ReleaseRefreshLock
    <3> QED BY <3>1, BoundsAssumption
  <2>2. pc' \in [Fetch -> Place]
    BY <1>11 DEF ReleaseRefreshLock, Goto, Place, Releasing
  <2> QED BY <1>11, <2>1, <2>a, <2>2 DEF ReleaseRefreshLock, backend, rotation, history
<1>12. ASSUME NEW r \in Fetch, PolledRotated(r) \/ PolledGone(r) \/ GiveUp(r) PROVE SessionsTypeOK'
  BY <1>12, <1>a, SessionFields
     DEF PolledRotated, PolledGone, GiveUp, Finished, Goto, Place, redis, backend, rotation, history
<1>13. ASSUME NEW r \in Fetch, LockToken(r) \/ LockSession(r) \/ RotateFails(r) PROVE SessionsTypeOK'
  <2>1. call' \in [Fetch -> {"none", "sent", "token", "work", "ok", "refused"}]
    BY <1>13 DEF LockToken, LockSession, RotateFails, Answer
  <2>2. trouble' \in BOOLEAN
    BY <1>13 DEF LockToken, LockSession, RotateFails, history
  <2>3. sawUsed' \in [Fetch -> BOOLEAN]
    <3>1. sawUsed' = sawUsed \/ sawUsed' = [sawUsed EXCEPT ![r] = Token(r) \in used]
      BY <1>13 DEF LockToken, LockSession, RotateFails
    <3>2. (Token(r) \in used) \in BOOLEAN
      OBVIOUS
    <3> QED BY <3>1, <3>2, Zenon
  <2> QED BY <1>13, <2>1, <2>2, <2>3 DEF LockToken, LockSession, RotateFails, redis, front, history
<1>14. ASSUME NEW r \in Fetch, Rotate(r) PROVE SessionsTypeOK'
  <2>1. Token(r) \in Nat
    BY SessionFields DEF Token
  <2>a. minted' \in Nat /\ accesses' \in Nat
    BY <1>14 DEF Rotate
  <2>2. minted' \in Nat /\ accesses' \in Nat /\ chain' \subseteq Nat \X Nat /\ used' \subseteq Nat
    <3>1. chain' = chain \/ chain' = chain \cup {<<Token(r), minted'>>}
      BY <1>14 DEF Rotate
    <3>2. used' = used \/ used' = used \cup {Token(r)}
      BY <1>14 DEF Rotate
    <3>3. <<Token(r), minted'>> \in Nat \X Nat
      BY <2>1, <2>a
    <3>4. chain' \subseteq Nat \X Nat
      BY <3>1, <3>3
    <3>5. used' \subseteq Nat
      BY <3>2, <2>1
    <3> QED BY <2>a, <3>4, <3>5
  <2>3. pair' \in [Fetch -> [access : Nat, refresh : Nat]]
    BY <1>14, <2>2 DEF Rotate
  <2> QED BY <1>14, <2>2, <2>3 DEF Rotate, Answer, redis, history
<1>15. ASSUME NEW r \in Fetch, Crash(r) PROVE SessionsTypeOK'
  BY <1>15 DEF Crash, Goto, Place, redis, backend, rotation
<1>16. CASE RevokeAllSessions
  BY <1>16 DEF RevokeAllSessions, redis, front, rotation, history
<1>17. CASE Expire
  BY <1>17 DEF Expire, redis, front, rotation
<1>18. CASE Tick
  <2>1. left' \in [Fetch -> 0..WaitBudget]
    <3>1. ASSUME NEW n \in 0..WaitBudget PROVE Ticked(n) \in 0..WaitBudget
      BY BoundsAssumption DEF Ticked
    <3>2. \A r \in Fetch : Ticked(left[r]) \in 0..WaitBudget
      BY <3>1
    <3> QED BY <1>18, <3>2 DEF Tick
  <2>2. lockLeft' \in 0..LockTTL
    BY <1>18, BoundsAssumption DEF Tick, Ticked
  <2>3. trouble' \in BOOLEAN
    BY <1>18 DEF Tick
  <2> QED BY <1>18, <2>1, <2>2, <2>3 DEF Tick, backend, rotation
<1>19. CASE UNCHANGED sessionVars
  BY <1>19 DEF sessionVars, redis, front, backend, rotation, history
<1> QED
  BY <1>1, <1>2, <1>3, <1>4, <1>5, <1>6, <1>7, <1>8, <1>9, <1>10, <1>11, <1>12, <1>13, <1>14,
     <1>15, <1>16, <1>17, <1>18, <1>19 DEF SessionsNext, FrontStep, RotateStep

\* Redis, the requests and the backend's rows keep their shape; no timer runs below
\* zero or beyond its setting.
THEOREM SessionTypeCorrect == SessionsSpec => []SessionsTypeOK
BY TypeInit, TypeStep, PTL DEF SessionsSpec

-----------------------------------------------------------------------------
(* The lock and the refresh it guards.                                       *)

\* Between taking the lock and the refresh no time passes, and the lock outlives
\* the refresh by the margin asserted in bff-session.ts.
RefreshInsideLock ==
    \A r \in Fetch :
        /\ pc[r] = "reread" => lock = r /\ lockLeft = LockTTL
        /\ pc[r] = "refresh" => lock = r /\ lockLeft + RefreshTimeout >= left[r] + LockTTL

LEMMA LockInit == SessionsInit => RefreshInsideLock
BY DEF SessionsInit, RefreshInsideLock

LEMMA LockStep == SessionsTypeOK /\ RefreshInsideLock /\ [SessionsNext]_sessionVars => RefreshInsideLock'
<1> SUFFICES ASSUME SessionsTypeOK, RefreshInsideLock, [SessionsNext]_sessionVars PROVE RefreshInsideLock'
  OBVIOUS
<1> USE DEF RefreshInsideLock
<1>t. /\ pc \in [Fetch -> Place] /\ left \in [Fetch -> 0..WaitBudget]
      /\ lockLeft \in Nat /\ lock \in Fetch \cup {None}
  BY BoundsAssumption DEF SessionsTypeOK
<1>1. ASSUME NEW r \in Fetch, NEW k \in Kind, Start(r, k) PROVE RefreshInsideLock'
  BY <1>1, <1>t DEF Start, Goto, redis
<1>2. ASSUME NEW r \in Fetch, CallAccepted(r) \/ CallRefused(r) \/ CallFails(r)
      PROVE  RefreshInsideLock'
  BY <1>2, <1>t DEF CallAccepted, CallRefused, CallFails, Finished, Goto, redis
<1>3. ASSUME NEW r \in Fetch, ReadBack(r) \/ WriteBack(r) \/ Clear(r) PROVE RefreshInsideLock'
  BY <1>3, <1>t DEF ReadBack, WriteBack, Clear, Goto, redis
<1>4. ASSUME NEW r \in Fetch, AcquireRefreshLock(r) PROVE RefreshInsideLock'
  <2>1. CASE lock = None
    <3>1. \A s \in Fetch : pc[s] \notin {"reread", "refresh"}
      BY <2>1, NoneAssumption
    <3> QED BY <1>4, <1>t, <2>1, <3>1 DEF AcquireRefreshLock, Lifetime, Goto
  <2>2. CASE lock # None
    BY <1>4, <1>t, <2>2 DEF AcquireRefreshLock, Goto
  <2> QED BY <2>1, <2>2
<1>5. ASSUME NEW r \in Fetch, ReRead(r) PROVE RefreshInsideLock'
  <2>1. lock = r /\ lockLeft = LockTTL /\ lock' = lock /\ lockLeft' = lockLeft
    BY <1>5 DEF ReRead, redis
  <2>2. \/ pc' = [pc EXCEPT ![r] = "refresh"] /\ left' = [left EXCEPT ![r] = RefreshTimeout]
        \/ /\ left' = left
           /\ \/ pc' = [pc EXCEPT ![r] = "release failed"]
              \/ pc' = [pc EXCEPT ![r] = "release refreshed"]
    BY <1>5 DEF ReRead, Goto
  <2>3. ASSUME NEW s \in Fetch, s # r PROVE pc'[s] \notin {"reread", "refresh"}
    BY <1>t, <2>1, <2>2, <2>3
  <2>4. /\ pc'[r] # "reread"
        /\ pc'[r] = "refresh" => left'[r] = RefreshTimeout
    BY <1>t, <2>2
  <2>5. lockLeft' + RefreshTimeout >= RefreshTimeout + LockTTL
    BY <2>1, BoundsAssumption
  <2> QED BY <2>1, <2>3, <2>4, <2>5
<1>6. ASSUME NEW r \in Fetch, RefreshAnswered(r) \/ RefreshFails(r) PROVE RefreshInsideLock'
  BY <1>6, <1>t DEF RefreshAnswered, RefreshFails, Goto, redis
<1>7. ASSUME NEW r \in Fetch, Rebind(r) \/ RebindFails(r) \/ Publish(r) PROVE RefreshInsideLock'
  BY <1>7, <1>t DEF Rebind, RebindFails, Publish, Goto, redis
<1>8. ASSUME NEW r \in Fetch, ReleaseRefreshLock(r) PROVE RefreshInsideLock'
  <2>1. pc[r] \in Releasing /\ left' = left
    BY <1>8 DEF ReleaseRefreshLock
  <2>2. ASSUME NEW s \in Fetch, pc'[s] \in {"reread", "refresh"} PROVE s # r /\ pc[s] = pc'[s]
    BY <1>8, <1>t, <2>2 DEF ReleaseRefreshLock, Goto
  <2>3. ASSUME NEW s \in Fetch, s # r, lock = s PROVE lock' = s /\ lockLeft' = lockLeft
    BY <1>8, <2>3, NoneAssumption DEF ReleaseRefreshLock, Unlocked
  <2> QED BY <2>1, <2>2, <2>3
<1>9. ASSUME NEW r \in Fetch, PolledRotated(r) \/ PolledGone(r) \/ GiveUp(r)
      PROVE  RefreshInsideLock'
  BY <1>9, <1>t DEF PolledRotated, PolledGone, GiveUp, Finished, Goto, redis
<1>10. ASSUME NEW r \in Fetch, RotateStep(r) PROVE RefreshInsideLock'
  BY <1>10 DEF RotateStep, LockToken, LockSession, Rotate, RotateFails, redis, front
<1>11. ASSUME NEW r \in Fetch, Crash(r) PROVE RefreshInsideLock'
  BY <1>11, <1>t DEF Crash, Goto, redis
<1>12. CASE RevokeAllSessions \/ Expire
  BY <1>12 DEF RevokeAllSessions, Expire, redis, front
<1>13. CASE Tick
  <2> SUFFICES ASSUME NEW s \in Fetch, pc[s] \in {"reread", "refresh"}
               PROVE  /\ pc[s] # "reread" /\ lock' = s
                      /\ lockLeft' + RefreshTimeout >= left'[s] + LockTTL
    BY <1>13 DEF Tick
  <2>1. pc[s] = "refresh" /\ left[s] > 0
    BY <1>13 DEF Tick, MayWait, Upstream
  <2>2. lock = s /\ lockLeft > 1
    BY <2>1, <1>t, BoundsAssumption
  <2>3. lockLeft' = lockLeft - 1 /\ left'[s] = left[s] - 1 /\ lock' = s
    BY <1>13, <2>1, <2>2, <1>t, NoneAssumption DEF Tick, Ticked
  <2> QED BY <2>1, <2>2, <2>3, <1>t, BoundsAssumption
<1>14. CASE UNCHANGED sessionVars
  BY <1>14 DEF sessionVars, redis, front
<1> QED
  BY <1>1, <1>2, <1>3, <1>4, <1>5, <1>6, <1>7, <1>8, <1>9, <1>10, <1>11, <1>12, <1>13, <1>14
     DEF SessionsNext, FrontStep

\* A refresh is aborted before the lock it runs under expires, so no two requests
\* have one under way, for every choice of bounds that bff-session.ts accepts.
THEOREM RefreshesExcludeEachOther == SessionsSpec => []OneRefreshInFlight
<1>1. RefreshInsideLock => OneRefreshInFlight
  BY DEF RefreshInsideLock, OneRefreshInFlight
<1> QED BY <1>1, TypeInit, TypeStep, LockInit, LockStep, PTL DEF SessionsSpec
-----------------------------------------------------------------------------
(* The backend's rotations.                                                  *)

\* A request that has not asked for a refresh has no transaction, and one that
\* goes on with a token has no unfinished one: only a caller that gave up leaves
\* its transaction behind.
CallsFollow ==
    \A r \in Fetch :
        /\ pc[r] \in {"new", "call", "want", "wait", "reread"} => call[r] = "none"
        /\ pc[r] \in {"retry", "readback", "writeback", "rebind", "publish", "release refreshed"}
             => call[r] \in {"none", "ok"}

LEMMA CallsInit == SessionsInit => CallsFollow
BY DEF SessionsInit, CallsFollow

LEMMA CallsStep == SessionsTypeOK /\ CallsFollow /\ [SessionsNext]_sessionVars => CallsFollow'
<1> SUFFICES ASSUME SessionsTypeOK, CallsFollow, [SessionsNext]_sessionVars PROVE CallsFollow'
  OBVIOUS
<1> USE DEF CallsFollow
<1>t. /\ pc \in [Fetch -> Place]
      /\ call \in [Fetch -> {"none", "sent", "token", "work", "ok", "refused"}]
  BY DEF SessionsTypeOK
<1>1. ASSUME NEW r \in Fetch, NEW k \in Kind, Start(r, k) PROVE CallsFollow'
  BY <1>1, <1>t DEF Start, Goto, backend, rotation
<1>2. ASSUME NEW r \in Fetch, CallAccepted(r) \/ CallRefused(r) \/ CallFails(r)
      PROVE  CallsFollow'
  BY <1>2, <1>t DEF CallAccepted, CallRefused, CallFails, Finished, Goto, backend, rotation
<1>3. ASSUME NEW r \in Fetch, ReadBack(r) \/ WriteBack(r) \/ Clear(r) PROVE CallsFollow'
  BY <1>3, <1>t DEF ReadBack, WriteBack, Clear, Goto, backend, rotation
<1>4. ASSUME NEW r \in Fetch, AcquireRefreshLock(r) PROVE CallsFollow'
  BY <1>4, <1>t DEF AcquireRefreshLock, Goto, backend, rotation
<1>5. ASSUME NEW r \in Fetch, ReRead(r) PROVE CallsFollow'
  BY <1>5, <1>t DEF ReRead, Goto
<1>6. ASSUME NEW r \in Fetch, RefreshAnswered(r) \/ RefreshFails(r) PROVE CallsFollow'
  BY <1>6, <1>t DEF RefreshAnswered, RefreshFails, Goto, backend, rotation
<1>7. ASSUME NEW r \in Fetch, Rebind(r) \/ RebindFails(r) \/ Publish(r) PROVE CallsFollow'
  BY <1>7, <1>t DEF Rebind, RebindFails, Publish, Goto, backend, rotation
<1>8. ASSUME NEW r \in Fetch, ReleaseRefreshLock(r) PROVE CallsFollow'
  <2>1. /\ call' = call
        /\ \/ pc[r] = "release refreshed" /\ pc' = [pc EXCEPT ![r] = "retry"]
           \/ pc' = [pc EXCEPT ![r] = "clear"]
           \/ pc' = [pc EXCEPT ![r] = "done"]
    BY <1>8 DEF ReleaseRefreshLock, Releasing, Goto, backend, rotation
  <2> QED BY <2>1, <1>t
<1>9. ASSUME NEW r \in Fetch, PolledRotated(r) \/ PolledGone(r) \/ GiveUp(r)
      PROVE  CallsFollow'
  BY <1>9, <1>t DEF PolledRotated, PolledGone, GiveUp, Finished, Goto, backend, rotation
<1>10. ASSUME NEW r \in Fetch, RotateStep(r) PROVE CallsFollow'
  <2>1. pc' = pc /\ call[r] \in {"sent", "token", "work"}
    BY <1>10 DEF RotateStep, LockToken, MayLockToken, LockSession, Rotate, RotateFails, front
  <2>2. \A s \in Fetch : s # r => call'[s] = call[s]
    BY <1>10, <1>t DEF RotateStep, LockToken, LockSession, Rotate, RotateFails, Answer
  <2> QED BY <2>1, <2>2
<1>11. ASSUME NEW r \in Fetch, Crash(r) PROVE CallsFollow'
  BY <1>11, <1>t DEF Crash, Goto, backend, rotation
<1>12. CASE RevokeAllSessions \/ Expire \/ Tick
  BY <1>12 DEF RevokeAllSessions, Expire, Tick, front, backend, rotation
<1>13. CASE UNCHANGED sessionVars
  BY <1>13 DEF sessionVars, front, backend, rotation
<1> QED
  BY <1>1, <1>2, <1>3, <1>4, <1>5, <1>6, <1>7, <1>8, <1>9, <1>10, <1>11, <1>12, <1>13
     DEF SessionsNext, FrontStep

\* Transactions that hold their token row hold different ones; what such a
\* transaction read of used_at is still so; and used_at is set where there is a
\* replacement.
Held == {"token", "work"}

TokenRows ==
    /\ \A r, s \in Fetch : call[r] \in Held /\ call[s] \in Held /\ Token(r) = Token(s) => r = s
    /\ \A r \in Fetch : call[r] \in Held /\ ~sawUsed[r] => Token(r) \notin used
    /\ \A x \in chain : x[1] \in used
    /\ RotatedOnce

\* The session row has one holder, which found it not revoked.
SessionRow ==
    /\ \A r \in Fetch : call[r] = "work" => revoked = "no"
    /\ \A r, s \in Fetch : call[r] = "work" /\ call[s] = "work" => r = s

RotationInv == SessionsTypeOK /\ CallsFollow /\ TokenRows /\ SessionRow

LEMMA RotationInit == SessionsInit => RotationInv
BY TypeInit, CallsInit DEF SessionsInit, RotationInv, TokenRows, SessionRow, RotatedOnce, Held

\* The steps of requests leave the rows as they are, and change what a request
\* carries only when it holds none.
LEMMA OutsideRotation ==
    ASSUME RotationInv, NEW r \in Fetch, (\E k \in Kind : Start(r, k)) \/ FrontStep(r) \/ Crash(r)
    PROVE  /\ UNCHANGED <<sawUsed, used, minted, chain>>
           /\ \A s \in Fetch : call'[s] \in Held \/ call[s] \in Held
                => call'[s] = call[s] /\ Token(s)' = Token(s)
           /\ \A s \in Fetch : call'[s] = "work" => call[s] = "work"
           /\ revoked' = revoked \/ (SessionRowFree /\ revoked' = "logout" /\ kind[r] = "logout")
<1> USE DEF Held, Token
<1>t. /\ carry \in [Fetch -> Session] /\ pc \in [Fetch -> Place]
      /\ call \in [Fetch -> {"none", "sent", "token", "work", "ok", "refused"}]
      /\ CallsFollow
  BY DEF SessionsTypeOK, RotationInv
<1>1. ASSUME NEW k \in Kind, Start(r, k)
      PROVE  /\ UNCHANGED <<call, sawUsed, used, minted, chain, revoked>>
             /\ call[r] = "none"
             /\ \A s \in Fetch : s # r => carry'[s] = carry[s]
  BY <1>1, <1>t DEF Start, CallsFollow, backend, rotation
<1>2. CASE CallAccepted(r)
  BY <1>2 DEF CallAccepted, rotation
<1>3. CASE CallRefused(r) \/ CallFails(r) \/ WriteBack(r) \/ Clear(r) \/ AcquireRefreshLock(r)
  BY <1>3 DEF CallRefused, CallFails, WriteBack, Clear, AcquireRefreshLock, backend, rotation
<1>4. CASE ReadBack(r)
  <2>1. call[r] \in {"none", "ok"}
    BY <1>4, <1>t DEF ReadBack, CallsFollow
  <2> QED BY <1>4, <1>t, <2>1 DEF ReadBack, backend, rotation
<1>5. CASE ReRead(r)
  <2>1. call[r] = "none"
    BY <1>5, <1>t DEF ReRead, CallsFollow
  <2>2. /\ UNCHANGED <<sawUsed, used, minted, chain, revoked>>
        /\ carry' = carry \/ carry' = [carry EXCEPT ![r] = Latest(r)]
        /\ call' = call \/ call' = [call EXCEPT ![r] = "sent"]
    BY <1>5 DEF ReRead
  <2> QED BY <1>t, <2>1, <2>2
<1>6. CASE RefreshAnswered(r) \/ RefreshFails(r) \/ Rebind(r) \/ RebindFails(r) \/ Publish(r)
  BY <1>6 DEF RefreshAnswered, RefreshFails, Rebind, RebindFails, Publish, backend, rotation
<1>7. CASE ReleaseRefreshLock(r) \/ PolledRotated(r) \/ PolledGone(r) \/ GiveUp(r) \/ Crash(r)
  BY <1>7 DEF ReleaseRefreshLock, PolledRotated, PolledGone, GiveUp, Crash, backend, rotation
<1> QED BY <1>1, <1>2, <1>3, <1>4, <1>5, <1>6, <1>7 DEF FrontStep

LEMMA RotationStep == RotationInv /\ [SessionsNext]_sessionVars => RotationInv'
<1> SUFFICES ASSUME RotationInv, [SessionsNext]_sessionVars PROVE (TokenRows /\ SessionRow)'
  BY TypeStep, CallsStep DEF RotationInv
<1>t. /\ call \in [Fetch -> {"none", "sent", "token", "work", "ok", "refused"}]
      /\ sawUsed \in [Fetch -> BOOLEAN]
      /\ TokenRows /\ SessionRow
  BY DEF SessionsTypeOK, RotationInv
<1> USE DEF TokenRows, SessionRow, RotatedOnce, Held
<1>1. ASSUME NEW r \in Fetch, (\E k \in Kind : Start(r, k)) \/ FrontStep(r) \/ Crash(r)
      PROVE  (TokenRows /\ SessionRow)'
  <2>1. /\ UNCHANGED <<sawUsed, used, minted, chain>>
        /\ \A s \in Fetch : call'[s] \in Held \/ call[s] \in Held
             => call'[s] = call[s] /\ Token(s)' = Token(s)
        /\ \A s \in Fetch : call'[s] = "work" => call[s] = "work"
        /\ revoked' = revoked \/ SessionRowFree
    BY <1>1, OutsideRotation
  <2>2. TokenRows'
    BY <1>t, <2>1
  <2>3. SessionRow'
    BY <1>t, <2>1 DEF SessionRowFree
  <2> QED BY <2>2, <2>3
<1>2. ASSUME NEW r \in Fetch, LockToken(r) PROVE (TokenRows /\ SessionRow)'
  <2>1. /\ call' = [call EXCEPT ![r] = "token"]
        /\ sawUsed' = [sawUsed EXCEPT ![r] = Token(r) \in used]
        /\ UNCHANGED <<carry, used, chain, revoked>>
        /\ \A s \in Fetch : call[s] \in Held => Token(s) # Token(r)
    BY <1>2 DEF LockToken, MayLockToken, front
  <2>2. \A s \in Fetch : Token(s)' = Token(s)
    BY <2>1 DEF Token
  <2>3. sawUsed'[r] = (Token(r) \in used)
    BY <2>1, <1>t
  <2>4. \A s \in Fetch : s # r => call'[s] = call[s] /\ sawUsed'[s] = sawUsed[s]
    BY <2>1, <1>t
  <2>5. call'[r] = "token"
    BY <2>1, <1>t
  <2>6. SessionRow'
    BY <1>t, <2>1, <2>4, <2>5
  <2>7. \A s, u \in Fetch : call'[s] \in Held /\ call'[u] \in Held /\ Token(s) = Token(u) => s = u
    BY <1>t, <2>1, <2>4
  <2>8. \A s \in Fetch : call'[s] \in Held /\ ~sawUsed'[s] => Token(s) \notin used
    BY <1>t, <2>3, <2>4
  <2> QED BY <1>t, <2>1, <2>2, <2>6, <2>7, <2>8
<1>3. ASSUME NEW r \in Fetch, LockSession(r) PROVE (TokenRows /\ SessionRow)'
  <2>1. /\ call[r] = "token"
        /\ \A s \in Fetch : call[s] # "work"
        /\ call' = [call EXCEPT ![r] = IF revoked = "no" THEN "work" ELSE "refused"]
        /\ UNCHANGED <<sawUsed, carry, used, chain, revoked>>
    BY <1>3 DEF LockSession, SessionRowFree, front
  <2>2. \A s \in Fetch : Token(s)' = Token(s)
    BY <2>1 DEF Token
  <2>3. TokenRows'
    BY <1>t, <2>1, <2>2
  <2>4. SessionRow'
    BY <1>t, <2>1
  <2> QED BY <2>3, <2>4
<1>4. ASSUME NEW r \in Fetch, Rotate(r) PROVE (TokenRows /\ SessionRow)'
  <2>1. /\ call[r] = "work" /\ UNCHANGED <<carry, sawUsed>>
        /\ call' = [call EXCEPT ![r] = "refused"] \/ call' = [call EXCEPT ![r] = "ok"]
    BY <1>4 DEF Rotate, Answer
  <2>2. \A s \in Fetch : Token(s)' = Token(s)
    BY <2>1 DEF Token
  <2>3. \A s \in Fetch : s # r => call'[s] # "work"
    BY <1>t, <2>1
  <2>4. /\ \A s \in Fetch : s # r => call'[s] = call[s]
        /\ call'[r] \notin Held
    BY <1>t, <2>1
  <2>5. CASE sawUsed[r]
    BY <1>4, <1>t, <2>1, <2>2, <2>3, <2>4, <2>5 DEF Rotate
  <2>6. CASE ~sawUsed[r]
    <3>1. /\ revoked' = revoked /\ used' = used \cup {Token(r)}
          /\ chain' = chain \cup {<<Token(r), minted'>>}
      BY <1>4, <2>6 DEF Rotate
    <3>2. Token(r) \notin used
      BY <1>t, <2>1, <2>6
    <3>3. \A s \in Fetch : call'[s] \in Held => Token(s) # Token(r)
      BY <1>t, <2>1, <2>4
    <3>4. RotatedOnce'
      <4>1. \A x \in chain : x[1] # Token(r)
        BY <1>t, <3>2
      <4> QED BY <1>t, <3>1, <4>1
    <3>5. \A s \in Fetch : call'[s] \in Held /\ ~sawUsed'[s] => Token(s) \notin used'
      BY <1>t, <2>1, <2>4, <3>1, <3>3
    <3>6. \A x \in chain' : x[1] \in used'
      BY <1>t, <3>1
    <3>7. \A s, u \in Fetch :
             call'[s] \in Held /\ call'[u] \in Held /\ Token(s) = Token(u) => s = u
      BY <1>t, <2>4
    <3> QED BY <2>2, <2>3, <2>4, <3>4, <3>5, <3>6, <3>7
  <2> QED BY <2>5, <2>6
<1>5. ASSUME NEW r \in Fetch, RotateFails(r) PROVE (TokenRows /\ SessionRow)'
  <2>1. /\ call' = [call EXCEPT ![r] = "refused"]
        /\ UNCHANGED <<sawUsed, carry, used, chain, revoked>>
    BY <1>5 DEF RotateFails, Answer, front
  <2> QED BY <1>t, <2>1 DEF Token
<1>6. CASE RevokeAllSessions
  BY <1>6, <1>t DEF RevokeAllSessions, SessionRowFree, front, rotation, Token
<1>7. CASE Expire \/ Tick \/ UNCHANGED sessionVars
  BY <1>7, <1>t DEF Expire, Tick, sessionVars, front, backend, rotation, Token
<1> QED BY <1>1, <1>2, <1>3, <1>4, <1>5, <1>6, <1>7 DEF SessionsNext, RotateStep

\* FOR UPDATE on the token row makes the check of used_at and the exchange one
\* step: a refresh token has one replacement, also when an abandoned transaction
\* runs beside the next one.
THEOREM TokensAreRotatedOnce == SessionsSpec => []RotatedOnce
<1>1. RotationInv => RotatedOnce
  BY DEF RotationInv, TokenRows
<1> QED BY <1>1, RotationInit, RotationStep, PTL DEF SessionsSpec

\* FOR UPDATE on the session row orders a rotation and a revocation: after the
\* revocation nothing is minted.
THEOREM RevocationIsFinal == SessionsSpec => RevokedMintsNothing
<1>1. ASSUME RotationInv, [SessionsNext]_sessionVars PROVE [revoked # "no" => minted' = minted]_sessionVars
  <2>1. ASSUME NEW r \in Fetch, (\E k \in Kind : Start(r, k)) \/ FrontStep(r) \/ Crash(r)
        PROVE  minted' = minted
    BY <1>1, <2>1, OutsideRotation
  <2>2. ASSUME NEW r \in Fetch, RotateStep(r), revoked # "no" PROVE minted' = minted
    <3>1. call[r] # "work"
      BY <1>1, <2>2 DEF RotationInv, SessionRow
    <3> QED BY <2>2, <3>1 DEF RotateStep, LockToken, LockSession, Rotate, RotateFails
  <2>3. CASE RevokeAllSessions \/ Expire \/ Tick \/ UNCHANGED sessionVars
    BY <2>3 DEF RevokeAllSessions, Expire, Tick, sessionVars, backend, rotation
  <2> QED BY <1>1, <2>1, <2>2, <2>3 DEF SessionsNext
<1> QED BY <1>1, RotationInit, RotationStep, PTL DEF SessionsSpec, RevokedMintsNothing
-----------------------------------------------------------------------------
(* Parallel requests that nothing disturbs.                                  *)

LoggedOut == revoked = "elsewhere" \/ \E r \in Fetch : kind[r] = "logout"

\* A request asks for something from its start, and a revocation by logout is
\* some request's.
Kinds ==
    /\ \A r \in Fetch : pc[r] = "new" => kind[r] = "plain"
    /\ revoked = "logout" => \E r \in Fetch : kind[r] = "logout"

\* No refresh token is known that was not minted.
Numbers ==
    /\ \A n \in used : n <= minted
    /\ store # None => store.refresh <= minted
    /\ \A r \in Fetch : carry[r].refresh <= minted /\ pair[r].refresh <= minted

\* r has exchanged the session's refresh token and not yet stored the new one.
Unpublished(r) == (pc[r] = "refresh" /\ call[r] = "ok") \/ pc[r] \in {"rebind", "publish"}

\* While nothing is disturbed the critical section is exclusive,
HolderAlone == \A r \in Fetch : pc[r] \in CriticalSection => lock = r

\* so the token a refresh presents is unused,
CallsUnused ==
    /\ \A r \in Fetch : call[r] \in {"sent", "token", "work"} => pc[r] = "refresh" /\ Token(r) \notin used
    /\ \A r \in Fetch : call[r] \in Held => ~sawUsed[r]

\* the one in Redis is unused unless its replacement is about to be stored,
StoredUnused == store # None /\ store.refresh \in used => \E r \in Fetch : Unpublished(r)

\* and so is that replacement;
PairUnused == \A r \in Fetch : Unpublished(r) => pair[r].refresh \notin used

\* and nobody clears a session that was not logged out.
NotLost ==
    /\ revoked # "reuse"
    /\ store = None => LoggedOut
    /\ \A r \in Fetch : pc[r] \in {"clear", "release failed"} => LoggedOut
    /\ \A r \in Fetch : call[r] = "refused" => LoggedOut

Undisturbed ==
    ~trouble => HolderAlone /\ CallsUnused /\ StoredUnused /\ PairUnused /\ NotLost

SessionInv == RotationInv /\ RefreshInsideLock /\ Kinds /\ Numbers /\ Undisturbed
LEMMA KindsStep ==
    ASSUME RotationInv, Kinds, [SessionsNext]_sessionVars
    PROVE  Kinds' /\ (LoggedOut => LoggedOut')
<1> USE DEF Kinds, LoggedOut
<1>t. pc \in [Fetch -> Place] /\ kind \in [Fetch -> Kind]
  BY DEF SessionsTypeOK, RotationInv
<1>1. ASSUME NEW r \in Fetch, NEW k \in Kind, Start(r, k) PROVE Kinds' /\ (LoggedOut => LoggedOut')
  <2>1. /\ kind' = [kind EXCEPT ![r] = k] /\ pc[r] = "new" /\ kind[r] = "plain" /\ revoked' = revoked
        /\ pc'[r] # "new" /\ \A s \in Fetch : s # r => pc'[s] = pc[s]
    BY <1>1, <1>t DEF Start, Goto, backend
  <2>2. \A s \in Fetch : kind[s] = "logout" => kind'[s] = "logout"
    BY <1>t, <2>1
  <2>3. \A s \in Fetch : pc'[s] = "new" => kind'[s] = "plain"
    BY <1>t, <2>1
  <2> QED BY <2>1, <2>2, <2>3
<1>2. ASSUME NEW r \in Fetch, FrontStep(r) \/ Crash(r) PROVE Kinds' /\ (LoggedOut => LoggedOut')
  <2>1. kind' = kind /\ \A s \in Fetch : pc'[s] = "new" => pc[s] = "new"
    <3>1. CASE CallAccepted(r) \/ CallRefused(r) \/ CallFails(r) \/ ReadBack(r) \/ WriteBack(r) \/ Clear(r)
      BY <3>1, <1>t DEF CallAccepted, CallRefused, CallFails, ReadBack, WriteBack, Clear, Finished, Goto
    <3>2. CASE AcquireRefreshLock(r) \/ ReRead(r) \/ RefreshAnswered(r) \/ RefreshFails(r)
      BY <3>2, <1>t DEF AcquireRefreshLock, ReRead, RefreshAnswered, RefreshFails, Goto
    <3>3. CASE Rebind(r) \/ RebindFails(r) \/ Publish(r) \/ ReleaseRefreshLock(r)
      BY <3>3, <1>t DEF Rebind, RebindFails, Publish, ReleaseRefreshLock, Goto
    <3>4. CASE PolledRotated(r) \/ PolledGone(r) \/ GiveUp(r) \/ Crash(r)
      BY <3>4, <1>t DEF PolledRotated, PolledGone, GiveUp, Finished, Crash, Goto
    <3> QED BY <1>2, <3>1, <3>2, <3>3, <3>4 DEF FrontStep
  <2>2. revoked' = revoked \/ (revoked' = "logout" /\ kind[r] = "logout")
    BY <1>2, OutsideRotation
  <2> QED BY <2>1, <2>2
<1>3. ASSUME NEW r \in Fetch, RotateStep(r) PROVE Kinds' /\ (LoggedOut => LoggedOut')
  <2>1. kind' = kind /\ pc' = pc
    BY <1>3 DEF RotateStep, LockToken, LockSession, Rotate, RotateFails, front
  <2>2. revoked' = revoked \/ (revoked' = "reuse" /\ call[r] = "work")
    BY <1>3 DEF RotateStep, LockToken, LockSession, Rotate, RotateFails
  <2>3. call[r] = "work" => revoked = "no"
    BY DEF RotationInv, SessionRow
  <2> QED BY <2>1, <2>2, <2>3
<1>4. CASE RevokeAllSessions \/ Expire \/ Tick \/ UNCHANGED sessionVars
  BY <1>4 DEF RevokeAllSessions, Expire, Tick, sessionVars, front, backend
<1> QED BY <1>1, <1>2, <1>3, <1>4 DEF SessionsNext

LEMMA NumbersStep == SessionsTypeOK /\ Numbers /\ [SessionsNext]_sessionVars => Numbers'
<1> SUFFICES ASSUME SessionsTypeOK, Numbers, [SessionsNext]_sessionVars PROVE Numbers'
  OBVIOUS
<1> USE DEF Numbers
<1>t. /\ carry \in [Fetch -> Session] /\ minted \in Nat /\ used \subseteq Nat
      /\ pair \in [Fetch -> [access : Nat, refresh : Nat]]
  BY DEF SessionsTypeOK
<1>1. ASSUME NEW r \in Fetch,
             \/ \E k \in Kind : Start(r, k)
             \/ ReadBack(r) \/ ReRead(r)
      PROVE  Numbers'
  <2>1. /\ UNCHANGED <<store, used, minted, pair>>
        /\ carry' = carry \/ (store # None /\ carry' = [carry EXCEPT ![r] = store])
    BY <1>1 DEF Start, ReadBack, ReRead, Latest, redis, backend, rotation
  <2> QED BY <1>t, <2>1
<1>2. ASSUME NEW r \in Fetch, CallAccepted(r) \/ Rebind(r) PROVE Numbers'
  <2>1. /\ UNCHANGED <<store, used, minted, carry>>
        /\ pair' = pair \/ pair' = [pair EXCEPT ![r].access = accesses']
    BY <1>2 DEF CallAccepted, Rebind, redis, rotation
  <2> QED BY <1>t, <2>1
<1>3. ASSUME NEW r \in Fetch, WriteBack(r) \/ Publish(r) PROVE Numbers'
  <2>1. UNCHANGED <<used, minted, carry, pair>>
    BY <1>3 DEF WriteBack, Publish, backend, rotation
  <2>2. CASE WriteBack(r)
    <3>1. store'.refresh = carry[r].refresh
      BY <2>2 DEF WriteBack
    <3> QED BY <2>1, <3>1
  <2>3. CASE Publish(r)
    <3>1. store'.refresh = pair[r].refresh
      BY <2>3 DEF Publish
    <3> QED BY <2>1, <3>1
  <2> QED BY <1>3, <2>2, <2>3
<1>4. ASSUME NEW r \in Fetch, Clear(r) PROVE Numbers'
  BY <1>4 DEF Clear, backend, rotation
<1>5. ASSUME NEW r \in Fetch,
             \/ CallRefused(r) \/ CallFails(r) \/ AcquireRefreshLock(r) \/ RefreshAnswered(r)
             \/ RefreshFails(r) \/ RebindFails(r) \/ ReleaseRefreshLock(r) \/ PolledRotated(r)
             \/ PolledGone(r) \/ GiveUp(r) \/ Crash(r)
      PROVE  Numbers'
  BY <1>5 DEF CallRefused, CallFails, AcquireRefreshLock, RefreshAnswered, RefreshFails, RebindFails,
              ReleaseRefreshLock, PolledRotated, PolledGone, GiveUp, Crash, redis, backend, rotation
<1>6. ASSUME NEW r \in Fetch, Rotate(r) PROVE Numbers'
  <2>1. /\ store' = store /\ carry' = carry
        /\ \/ UNCHANGED <<used, minted, pair>>
           \/ /\ minted' = minted + 1 /\ used' = used \cup {carry[r].refresh}
              /\ pair' = [pair EXCEPT ![r] = [access |-> accesses', refresh |-> minted']]
    BY <1>6 DEF Rotate, Token, redis
  <2>3. \A s \in Fetch : carry[s].refresh \in Nat /\ pair[s].refresh \in Nat
    BY <1>t, SessionFields
  <2>4. minted' \in Nat /\ minted <= minted'
    BY <1>t, <2>1
  <2>5. \A n \in Nat : n <= minted => n <= minted'
    BY <1>t, <2>4
  <2>6. \A n \in used' : n <= minted'
    BY <1>t, <2>1, <2>3, <2>5
  <2>7. store' # None => store'.refresh <= minted'
    BY <2>1, <2>5, SessionFields DEF SessionsTypeOK
  <2>8. \A s \in Fetch : carry'[s].refresh <= minted'
    BY <2>1, <2>3, <2>5
  <2>9. \A s \in Fetch : pair'[s].refresh <= minted'
    BY <1>t, <2>1, <2>3, <2>4, <2>5
  <2> QED BY <2>6, <2>7, <2>8, <2>9
<1>7. ASSUME NEW r \in Fetch, LockToken(r) \/ LockSession(r) \/ RotateFails(r) PROVE Numbers'
  BY <1>7 DEF LockToken, LockSession, RotateFails, redis, front
<1>8. CASE RevokeAllSessions \/ Expire \/ Tick \/ UNCHANGED sessionVars
  BY <1>8 DEF RevokeAllSessions, Expire, Tick, sessionVars, redis, front, backend, rotation
<1> QED BY <1>1, <1>2, <1>3, <1>4, <1>5, <1>6, <1>7, <1>8 DEF SessionsNext, FrontStep, RotateStep

\* Trouble stays.
LEMMA TroubleStays ==
    ASSUME SessionsTypeOK, [SessionsNext]_sessionVars, ~trouble'
    PROVE  ~trouble
<1>1. ASSUME NEW r \in Fetch, (\E k \in Kind : Start(r, k)) \/ FrontStep(r) \/ RotateStep(r) \/ Crash(r)
      PROVE  ~trouble
  BY <1>1
     DEF Start, FrontStep, CallAccepted, CallRefused, CallFails, ReadBack, WriteBack, Clear,
         AcquireRefreshLock, ReRead, RefreshAnswered, RefreshFails, Rebind, RebindFails, Publish,
         ReleaseRefreshLock, PolledRotated, PolledGone, GiveUp, RotateStep, LockToken, LockSession,
         Rotate, RotateFails, Crash, history
<1>2. CASE RevokeAllSessions \/ Expire \/ Tick \/ UNCHANGED sessionVars
  BY <1>2 DEF RevokeAllSessions, Expire, Tick, sessionVars, history
<1> QED BY <1>1, <1>2 DEF SessionsNext

\* A step that moves one request from outside the critical section to outside it,
\* and leaves the tokens as they are, keeps what is said of tokens.
LEMMA TokensKept ==
    ASSUME HolderAlone, CallsUnused, StoredUnused, PairUnused,
           NEW r \in Fetch, pc[r] \notin CriticalSection, pc'[r] \notin CriticalSection,
           \A s \in Fetch : s # r => pc'[s] = pc[s] /\ Token(s)' = Token(s) /\ pair'[s] = pair[s],
           \A s \in Fetch : lock = s /\ pc[s] \in CriticalSection => lock' = s,
           UNCHANGED <<call, sawUsed, used>>,
           store' # None => store # None /\ store'.refresh = store.refresh
    PROVE  (HolderAlone /\ CallsUnused /\ StoredUnused /\ PairUnused)'
<1>1. "refresh" \in CriticalSection /\ "rebind" \in CriticalSection /\ "publish" \in CriticalSection
  BY DEF CriticalSection, Upstream
<1>2. call[r] \notin {"sent", "token", "work"}
  BY <1>1 DEF CallsUnused
<1>3. HolderAlone'
  BY DEF HolderAlone
<1>4. CallsUnused'
  BY <1>2 DEF CallsUnused, Held
<1>5. \A s \in Fetch : Unpublished(s) <=> Unpublished(s)'
  BY <1>1 DEF Unpublished
<1>6. ~Unpublished(r)'
  BY <1>1 DEF Unpublished
<1>7. StoredUnused'
  BY <1>5 DEF StoredUnused
<1>8. PairUnused'
  BY <1>5, <1>6 DEF PairUnused
<1> QED BY <1>3, <1>4, <1>7, <1>8

LEMMA UndisturbedStep ==
    ASSUME SessionInv, [SessionsNext]_sessionVars, Kinds', LoggedOut => LoggedOut'
    PROVE  Undisturbed'
<1> DEFINE Safe == HolderAlone /\ CallsUnused /\ StoredUnused /\ PairUnused /\ NotLost
<1> SUFFICES ASSUME ~trouble' PROVE Safe'
  BY DEF Undisturbed
<1>i. SessionsTypeOK /\ RotationInv /\ RefreshInsideLock /\ Kinds /\ Numbers /\ CallsFollow
  BY DEF SessionInv, RotationInv
<1>c. HolderAlone /\ CallsUnused /\ StoredUnused /\ PairUnused /\ NotLost
  BY <1>i, TroubleStays DEF SessionInv, Undisturbed
<1>t. /\ pc \in [Fetch -> Place] /\ kind \in [Fetch -> Kind]
      /\ carry \in [Fetch -> Session] /\ store \in Session \cup {None}
      /\ pair \in [Fetch -> [access : Nat, refresh : Nat]]
      /\ call \in [Fetch -> {"none", "sent", "token", "work", "ok", "refused"}]
      /\ sawUsed \in [Fetch -> BOOLEAN]
  BY <1>i DEF SessionsTypeOK
<1>p. /\ CriticalSection = {"refresh", "rebind", "publish"}
      /\ Held = {"token", "work"} /\ Upstream = {"refresh", "rebind"}
  BY DEF CriticalSection, Upstream, Held
<1>k. \A s \in Fetch : kind[s] = "logout" => LoggedOut
  BY DEF LoggedOut
<1> HIDE DEF Safe
<1>1. ASSUME NEW r \in Fetch, NEW k \in Kind, Start(r, k) PROVE Safe'
  <2>1. /\ pc[r] = "new" /\ UNCHANGED <<store, lock, call, sawUsed, used, revoked, pair>>
        /\ kind' = [kind EXCEPT ![r] = k]
        /\ \/ pc' = [pc EXCEPT ![r] = "clear"] /\ k = "logout"
           \/ pc' = [pc EXCEPT ![r] = "done"]
           \/ pc' = [pc EXCEPT ![r] = "call"]
    BY <1>1 DEF Start, Goto, redis, backend, rotation
  <2>2. \A s \in Fetch : s # r => Token(s)' = Token(s)
    BY <1>1, <1>t DEF Start, Token
  <2>3. (HolderAlone /\ CallsUnused /\ StoredUnused /\ PairUnused)'
    <3>1. pc'[r] \notin CriticalSection /\ \A s \in Fetch : s # r => pc'[s] = pc[s]
      BY <1>t, <1>p, <2>1
    <3> QED BY <1>c, <1>p, <2>1, <2>2, <3>1, TokensKept
  <2>4. k = "logout" => LoggedOut'
    BY <1>t, <2>1 DEF LoggedOut
  <2>5. NotLost'
    BY <1>c, <1>t, <2>1, <2>4 DEF NotLost
  <2> QED BY <2>3, <2>5 DEF Safe
<1>2. ASSUME NEW r \in Fetch, CallAccepted(r) \/ CallRefused(r) \/ CallFails(r) PROVE Safe'
  <2>1. /\ pc[r] \in {"call", "retry"} /\ UNCHANGED <<store, lock, call, sawUsed, used, carry>>
        /\ \/ pc' = [pc EXCEPT ![r] = "clear"] /\ kind[r] = "logout"
           \/ pc' = [pc EXCEPT ![r] = "done"]
           \/ pc' = [pc EXCEPT ![r] = "want"]
           \/ pc' = [pc EXCEPT ![r] = "readback"]
        /\ revoked' = revoked \/ revoked' = "logout"
    BY <1>2 DEF CallAccepted, CallRefused, CallFails, Finished, Goto, redis, backend, rotation
  <2>2. \A s \in Fetch : s # r => pair'[s] = pair[s]
    BY <1>2, <1>t DEF CallAccepted, CallRefused, CallFails
  <2>3. (HolderAlone /\ CallsUnused /\ StoredUnused /\ PairUnused)'
    <3>1. pc'[r] \notin CriticalSection /\ \A s \in Fetch : s # r => pc'[s] = pc[s]
      BY <1>t, <1>p, <2>1
    <3>2. \A s \in Fetch : Token(s)' = Token(s)
      BY <2>1 DEF Token
    <3> QED BY <1>c, <1>p, <2>1, <2>2, <3>1, <3>2, TokensKept
  <2>4. NotLost'
    BY <1>c, <1>t, <1>k, <2>1 DEF NotLost
  <2> QED BY <2>3, <2>4 DEF Safe
<1>3. ASSUME NEW r \in Fetch, ReadBack(r) PROVE Safe'
  <2>1. /\ pc[r] = "readback" /\ UNCHANGED <<store, lock, call, sawUsed, used, pair, revoked>>
        /\ pc' = [pc EXCEPT ![r] = "done"] \/ pc' = [pc EXCEPT ![r] = "writeback"]
        /\ carry' = carry \/ carry' = [carry EXCEPT ![r] = store]
    BY <1>3 DEF ReadBack, Goto, redis, backend, rotation
  <2>2. \A s \in Fetch : s # r => Token(s)' = Token(s)
    BY <1>t, <2>1 DEF Token
  <2>3. (HolderAlone /\ CallsUnused /\ StoredUnused /\ PairUnused)'
    <3>1. pc'[r] \notin CriticalSection /\ \A s \in Fetch : s # r => pc'[s] = pc[s]
      BY <1>t, <1>p, <2>1
    <3> QED BY <1>c, <1>p, <2>1, <2>2, <3>1, TokensKept
  <2>4. NotLost'
    BY <1>c, <1>t, <2>1 DEF NotLost
  <2> QED BY <2>3, <2>4 DEF Safe
<1>4. ASSUME NEW r \in Fetch, WriteBack(r) PROVE Safe'
  <2>1. /\ pc[r] = "writeback" /\ UNCHANGED <<lock, call, sawUsed, used, carry, pair, revoked>>
        /\ pc' = [pc EXCEPT ![r] = "done"]
        /\ store # None /\ store.refresh = carry[r].refresh
    BY <1>4 DEF WriteBack, Goto, backend, rotation
  <2>2. store'.refresh = carry[r].refresh
    BY <1>4 DEF WriteBack
  <2>3. (HolderAlone /\ CallsUnused /\ StoredUnused /\ PairUnused)'
    <3>1. pc'[r] \notin CriticalSection /\ \A s \in Fetch : s # r => pc'[s] = pc[s]
      BY <1>t, <1>p, <2>1
    <3>2. \A s \in Fetch : Token(s)' = Token(s)
      BY <2>1 DEF Token
    <3> QED BY <1>c, <1>p, <2>1, <2>2, <3>1, <3>2, TokensKept
  <2>4. store' # None
    <3>1. store' \in Session
      BY <1>4, <1>t, SessionFields DEF WriteBack, Session
    <3> QED BY <3>1, NoneAssumption
  <2>5. NotLost'
    BY <1>c, <1>t, <2>1, <2>4 DEF NotLost
  <2> QED BY <2>3, <2>5 DEF Safe
<1>5. ASSUME NEW r \in Fetch, Clear(r) PROVE Safe'
  <2>1. /\ pc[r] = "clear" /\ UNCHANGED <<lock, call, sawUsed, used, carry, pair, revoked>>
        /\ pc' = [pc EXCEPT ![r] = "done"] /\ store' = None
    BY <1>5 DEF Clear, Goto, backend, rotation
  <2>2. (HolderAlone /\ CallsUnused /\ StoredUnused /\ PairUnused)'
    <3>1. pc'[r] \notin CriticalSection /\ \A s \in Fetch : s # r => pc'[s] = pc[s]
      BY <1>t, <1>p, <2>1
    <3>2. \A s \in Fetch : Token(s)' = Token(s)
      BY <2>1 DEF Token
    <3> QED BY <1>c, <1>p, <2>1, <3>1, <3>2, TokensKept
  <2>3. NotLost'
    BY <1>c, <1>t, <2>1 DEF NotLost
  <2> QED BY <2>2, <2>3 DEF Safe
<1>6. ASSUME NEW r \in Fetch, AcquireRefreshLock(r) PROVE Safe'
  <2>1. /\ pc[r] = "want" /\ UNCHANGED <<store, call, sawUsed, used, carry, pair, revoked>>
        /\ \/ lock = None /\ lock' = r /\ pc' = [pc EXCEPT ![r] = "reread"]
           \/ lock' = lock /\ pc' = [pc EXCEPT ![r] = "wait"]
    BY <1>6 DEF AcquireRefreshLock, Goto, backend, rotation
  <2>2. (HolderAlone /\ CallsUnused /\ StoredUnused /\ PairUnused)'
    <3>1. pc'[r] \notin CriticalSection /\ \A s \in Fetch : s # r => pc'[s] = pc[s]
      BY <1>t, <1>p, <2>1
    <3>2. \A s \in Fetch : Token(s)' = Token(s)
      BY <2>1 DEF Token
    <3>3. \A s \in Fetch : lock = s => lock' = s
      BY <2>1, NoneAssumption
    <3> QED BY <1>c, <1>p, <2>1, <3>1, <3>2, <3>3, TokensKept
  <2>3. NotLost'
    BY <1>c, <1>t, <2>1 DEF NotLost
  <2> QED BY <2>2, <2>3 DEF Safe
<1>7. ASSUME NEW r \in Fetch, ReRead(r) PROVE Safe'
  <2>1. /\ pc[r] = "reread" /\ lock = r
        /\ UNCHANGED <<store, lock, sawUsed, used, pair, revoked>>
    BY <1>7, <1>i DEF ReRead, RefreshInsideLock, redis
  <2>2. \A s \in Fetch : s # r => pc[s] \notin CriticalSection
    BY <1>c, <2>1 DEF HolderAlone
  <2>3. CASE call' = call /\ carry' = carry
    <3>1. \/ store = None /\ pc' = [pc EXCEPT ![r] = "release failed"]
          \/ pc' = [pc EXCEPT ![r] = "release refreshed"]
      BY <1>7, <1>i, <1>t, <2>1, <2>3 DEF ReRead, Latest, Goto, CallsFollow
    <3>2. pc'[r] \notin CriticalSection /\ \A s \in Fetch : s # r => pc'[s] = pc[s]
      BY <1>t, <1>p, <3>1
    <3>3. \A s \in Fetch : Token(s)' = Token(s)
      BY <2>3 DEF Token
    <3>4. (HolderAlone /\ CallsUnused /\ StoredUnused /\ PairUnused)'
      BY <1>c, <1>p, <2>1, <2>3, <3>2, <3>3, TokensKept
    <3>5. NotLost'
      BY <1>c, <1>t, <2>1, <2>3, <3>1 DEF NotLost
    <3> QED BY <3>4, <3>5 DEF Safe
  <2>4. CASE ~(call' = call /\ carry' = carry)
    <3>1. /\ store # None /\ carry' = [carry EXCEPT ![r] = store]
          /\ call' = [call EXCEPT ![r] = "sent"] /\ pc' = [pc EXCEPT ![r] = "refresh"]
      BY <1>7, <2>4 DEF ReRead, Latest, Goto
    <3>2. /\ pc'[r] = "refresh" /\ call'[r] = "sent" /\ carry'[r] = store
          /\ \A s \in Fetch : s # r => pc'[s] = pc[s] /\ call'[s] = call[s] /\ carry'[s] = carry[s]
      BY <1>t, <3>1
    <3>3. store.refresh \notin used
      BY <1>c, <1>p, <2>1, <2>2, <3>1 DEF StoredUnused, Unpublished
    <3>4. HolderAlone'
      BY <2>1, <2>2, <3>2 DEF HolderAlone
    <3>5. CallsUnused'
      <4>1. Token(r)' \notin used
        BY <3>2, <3>3 DEF Token
      <4>2. \A s \in Fetch : s # r => Token(s)' = Token(s)
        BY <3>2 DEF Token
      <4>3. \A s \in Fetch :
               call'[s] \in {"sent", "token", "work"} => pc'[s] = "refresh" /\ Token(s)' \notin used
        BY <1>c, <3>2, <4>1, <4>2 DEF CallsUnused
      <4>4. \A s \in Fetch : call'[s] \in Held => ~sawUsed[s]
        BY <1>c, <1>p, <3>2 DEF CallsUnused
      <4> QED BY <2>1, <4>3, <4>4 DEF CallsUnused, Held
    <3>6. StoredUnused'
      BY <2>1, <3>3 DEF StoredUnused
    <3>7. PairUnused'
      BY <1>p, <2>2, <3>2 DEF PairUnused, Unpublished
    <3>8. NotLost'
      BY <1>c, <2>1, <3>2 DEF NotLost
    <3> QED BY <3>4, <3>5, <3>6, <3>7, <3>8 DEF Safe
  <2> QED BY <2>3, <2>4
<1>8. ASSUME NEW r \in Fetch, RefreshAnswered(r) \/ Rebind(r) PROVE Safe'
  <2>1. /\ pc[r] \in {"refresh", "rebind"}
        /\ UNCHANGED <<store, lock, call, sawUsed, used, carry, revoked>>
        /\ \/ pc[r] = "refresh" /\ call[r] = "ok" /\ pc' = [pc EXCEPT ![r] = "rebind"]
           \/ Unpublished(r) /\ pc' = [pc EXCEPT ![r] = "publish"]
           \/ pc[r] = "refresh" /\ call[r] = "refused" /\ pc' = [pc EXCEPT ![r] = "release failed"]
    BY <1>8 DEF RefreshAnswered, Rebind, Unpublished, Goto, redis, backend, rotation
  <2>2. \A s \in Fetch : pair'[s].refresh = pair[s].refresh
    <3>1. pair' = pair \/ pair' = [pair EXCEPT ![r].access = accesses']
      BY <1>8 DEF RefreshAnswered, Rebind
    <3> QED BY <1>t, <3>1
  <2>3. /\ \A s \in Fetch : s # r => pc'[s] = pc[s]
        /\ pc'[r] \in {"rebind", "publish", "release failed"}
        /\ pc'[r] \in {"rebind", "publish"} <=> Unpublished(r)
    BY <1>t, <2>1 DEF Unpublished
  <2>4. \A s \in Fetch : Unpublished(s)' <=> Unpublished(s)
    BY <2>1, <2>3 DEF Unpublished
  <2>5. HolderAlone'
    BY <1>c, <1>p, <2>1, <2>3 DEF HolderAlone
  <2>6. CallsUnused'
    <3>1. call[r] \notin {"sent", "token", "work"}
      BY <1>8, <1>i DEF RefreshAnswered, Rebind, CallsFollow
    <3>2. \A s \in Fetch : Token(s)' = Token(s)
      BY <2>1 DEF Token
    <3> QED BY <1>c, <1>p, <2>1, <2>3, <3>1, <3>2 DEF CallsUnused
  <2>7. StoredUnused'
    BY <1>c, <2>1, <2>4 DEF StoredUnused
  <2>8. PairUnused'
    BY <1>c, <2>1, <2>2, <2>4 DEF PairUnused
  <2>9. NotLost'
    BY <1>c, <1>t, <2>1 DEF NotLost
  <2> QED BY <2>5, <2>6, <2>7, <2>8, <2>9 DEF Safe
<1>9. ASSUME NEW r \in Fetch, Publish(r) PROVE Safe'
  <2>1. /\ pc[r] = "publish" /\ UNCHANGED <<lock, call, sawUsed, used, carry, pair, revoked>>
        /\ pc' = [pc EXCEPT ![r] = "release refreshed"]
    BY <1>9 DEF Publish, Goto, backend, rotation
  <2>2. store'.refresh = pair[r].refresh /\ store' # None
    <3>1. store' = [access |-> pair[r].access, refresh |-> pair[r].refresh, tenant |-> carry[r].tenant]
      BY <1>9 DEF Publish
    <3>2. store' \in Session
      BY <3>1, <1>t, SessionFields DEF Session
    <3> QED BY <3>1, <3>2, NoneAssumption
  <2>3. pair[r].refresh \notin used
    BY <1>c, <2>1 DEF PairUnused, Unpublished
  <2>4. /\ \A s \in Fetch : s # r => pc'[s] = pc[s]
        /\ pc'[r] = "release refreshed"
    BY <1>t, <2>1
  <2>5. HolderAlone'
    BY <1>c, <1>p, <2>1, <2>4 DEF HolderAlone
  <2>6. CallsUnused'
    <3>1. call[r] \notin {"sent", "token", "work"}
      BY <1>i, <2>1 DEF CallsFollow
    <3>2. \A s \in Fetch : Token(s)' = Token(s)
      BY <2>1 DEF Token
    <3> QED BY <1>c, <1>p, <2>1, <2>4, <3>1, <3>2 DEF CallsUnused
  <2>7. StoredUnused'
    BY <2>1, <2>2, <2>3 DEF StoredUnused
  <2>8. PairUnused'
    BY <1>c, <2>1, <2>4 DEF PairUnused, Unpublished
  <2>9. NotLost'
    BY <1>c, <2>1, <2>2, <2>4 DEF NotLost
  <2> QED BY <2>5, <2>6, <2>7, <2>8, <2>9 DEF Safe
<1>10. ASSUME NEW r \in Fetch, ReleaseRefreshLock(r) PROVE Safe'
  <2>1. /\ pc[r] \in Releasing /\ UNCHANGED <<store, call, sawUsed, used, carry, pair, revoked>>
        /\ lock' = lock \/ lock = r
        /\ \/ pc[r] = "release failed" /\ pc' = [pc EXCEPT ![r] = "clear"]
           \/ pc' = [pc EXCEPT ![r] = "retry"]
           \/ pc' = [pc EXCEPT ![r] = "done"]
    BY <1>10 DEF ReleaseRefreshLock, Unlocked, Goto, backend, rotation
  <2>2. (HolderAlone /\ CallsUnused /\ StoredUnused /\ PairUnused)'
    <3>1. /\ pc[r] \notin CriticalSection /\ pc'[r] \notin CriticalSection
          /\ \A s \in Fetch : s # r => pc'[s] = pc[s]
      BY <1>t, <1>p, <2>1 DEF Releasing
    <3>2. \A s \in Fetch : Token(s)' = Token(s)
      BY <2>1 DEF Token
    <3> QED BY <1>c, <2>1, <3>1, <3>2, TokensKept
  <2>3. NotLost'
    BY <1>c, <1>t, <2>1 DEF NotLost
  <2> QED BY <2>2, <2>3 DEF Safe
<1>11. ASSUME NEW r \in Fetch, PolledRotated(r) \/ PolledGone(r) \/ GiveUp(r) PROVE Safe'
  <2>1. /\ pc[r] = "wait" /\ UNCHANGED <<store, lock, call, sawUsed, used, carry, pair, revoked>>
        /\ \/ store = None /\ pc' = [pc EXCEPT ![r] = "clear"]
           \/ kind[r] = "logout" /\ pc' = [pc EXCEPT ![r] = "clear"]
           \/ pc' = [pc EXCEPT ![r] = "retry"]
           \/ pc' = [pc EXCEPT ![r] = "done"]
    BY <1>11 DEF PolledRotated, PolledGone, GiveUp, Finished, Goto, redis, backend, rotation
  <2>2. (HolderAlone /\ CallsUnused /\ StoredUnused /\ PairUnused)'
    <3>1. /\ pc'[r] \notin CriticalSection /\ \A s \in Fetch : s # r => pc'[s] = pc[s]
      BY <1>t, <1>p, <2>1
    <3>2. \A s \in Fetch : Token(s)' = Token(s)
      BY <2>1 DEF Token
    <3> QED BY <1>c, <1>p, <2>1, <3>1, <3>2, TokensKept
  <2>3. NotLost'
    BY <1>c, <1>t, <1>k, <2>1 DEF NotLost
  <2> QED BY <2>2, <2>3 DEF Safe
<1>12. ASSUME NEW r \in Fetch, RefreshFails(r) \/ RebindFails(r) \/ Crash(r) \/ RotateFails(r)
       PROVE  FALSE
  BY <1>12 DEF RefreshFails, RebindFails, Crash, RotateFails
<1>13. ASSUME NEW r \in Fetch, LockToken(r) PROVE Safe'
  <2>1. /\ call[r] = "sent" /\ call' = [call EXCEPT ![r] = "token"]
        /\ sawUsed' = [sawUsed EXCEPT ![r] = Token(r) \in used]
        /\ UNCHANGED <<store, lock, pc, used, carry, pair, revoked>>
    BY <1>13 DEF LockToken, MayLockToken, redis, front
  <2>2. Token(r) \notin used /\ \A s \in Fetch : Token(s)' = Token(s)
    BY <1>c, <2>1 DEF CallsUnused, Token
  <2>3. /\ call'[r] = "token" /\ sawUsed'[r] = (Token(r) \in used)
        /\ \A s \in Fetch : s # r => call'[s] = call[s] /\ sawUsed'[s] = sawUsed[s]
    BY <1>t, <2>1
  <2>4. \A s \in Fetch : Unpublished(s)' <=> Unpublished(s)
    BY <2>1, <2>3 DEF Unpublished
  <2>5. HolderAlone' /\ StoredUnused' /\ PairUnused'
    BY <1>c, <2>1, <2>4 DEF HolderAlone, StoredUnused, PairUnused
  <2>6. CallsUnused'
    <3>1. \A s \in Fetch :
             call'[s] \in {"sent", "token", "work"} => pc[s] = "refresh" /\ Token(s) \notin used
      BY <1>c, <2>1, <2>3 DEF CallsUnused
    <3>2. \A s \in Fetch : call'[s] \in Held => ~sawUsed'[s]
      BY <1>c, <1>p, <2>2, <2>3 DEF CallsUnused
    <3> QED BY <2>1, <2>2, <3>1, <3>2 DEF CallsUnused, Held
  <2>7. NotLost'
    BY <1>c, <2>1, <2>3 DEF NotLost
  <2> QED BY <2>5, <2>6, <2>7 DEF Safe
<1>14. ASSUME NEW r \in Fetch, LockSession(r) PROVE Safe'
  <2>1. /\ call[r] = "token" /\ UNCHANGED <<store, lock, pc, sawUsed, used, carry, pair, revoked>>
        /\ \/ call' = [call EXCEPT ![r] = "work"]
           \/ revoked # "no" /\ call' = [call EXCEPT ![r] = "refused"]
    BY <1>14 DEF LockSession, redis, front
  <2>2. /\ call'[r] = "work" \/ (revoked # "no" /\ call'[r] = "refused")
        /\ \A s \in Fetch : s # r => call'[s] = call[s]
    BY <1>t, <2>1
  <2>3. revoked # "no" => LoggedOut
    BY <1>c, <1>i DEF NotLost, Kinds, LoggedOut, SessionsTypeOK
  <2>4. \A s \in Fetch : Unpublished(s)' <=> Unpublished(s)
    BY <2>1, <2>2 DEF Unpublished
  <2>5. HolderAlone' /\ StoredUnused' /\ PairUnused'
    BY <1>c, <2>1, <2>4 DEF HolderAlone, StoredUnused, PairUnused
  <2>6. CallsUnused'
    <3>1. \A s \in Fetch : Token(s)' = Token(s)
      BY <2>1 DEF Token
    <3> QED BY <1>c, <2>1, <2>2, <3>1 DEF CallsUnused, Held
  <2>7. NotLost'
    BY <1>c, <2>1, <2>2, <2>3 DEF NotLost
  <2> QED BY <2>5, <2>6, <2>7 DEF Safe
<1>15. ASSUME NEW r \in Fetch, Rotate(r) PROVE Safe'
  <2>1. call[r] = "work" /\ ~sawUsed[r] /\ pc[r] = "refresh" /\ lock = r
    BY <1>15, <1>c, <1>p DEF Rotate, CallsUnused, HolderAlone
  <2>2. /\ UNCHANGED <<store, lock, pc, sawUsed, carry, revoked>>
        /\ call' = [call EXCEPT ![r] = "ok"] /\ minted' = minted + 1
        /\ used' = used \cup {Token(r)}
        /\ pair' = [pair EXCEPT ![r] = [access |-> accesses', refresh |-> minted']]
    BY <1>15, <2>1 DEF Rotate, Answer, redis
  <2>3. /\ call'[r] = "ok" /\ \A s \in Fetch : s # r => call'[s] = call[s]
        /\ pair'[r].refresh = minted'
    BY <1>t, <2>2
  <2>4. \A s \in Fetch : s # r => pc[s] \notin CriticalSection /\ call[s] \notin {"sent", "token", "work"}
    BY <1>c, <1>p, <2>1 DEF HolderAlone, CallsUnused
  <2>5. HolderAlone'
    BY <1>c, <2>2 DEF HolderAlone
  <2>6. CallsUnused'
    BY <1>c, <2>3, <2>4 DEF CallsUnused, Held
  <2>7. Unpublished(r)'
    BY <2>1, <2>2, <2>3 DEF Unpublished
  <2>8. StoredUnused'
    BY <2>7 DEF StoredUnused
  <2>9. PairUnused'
    <3>1. \A s \in Fetch : s # r => ~Unpublished(s)'
      BY <1>p, <2>2, <2>4 DEF Unpublished
    <3>2. minted + 1 \notin used \cup {Token(r)}
      <4>1. \A n \in used : n \in Nat /\ n <= minted
        BY <1>i DEF Numbers, SessionsTypeOK
      <4>2. Token(r) \in Nat /\ Token(r) <= minted
        BY <1>i, <1>t, SessionFields DEF Numbers, Token
      <4>3. minted \in Nat
        BY <1>i DEF SessionsTypeOK
      <4> QED BY <4>1, <4>2, <4>3
    <3> QED BY <2>2, <2>3, <3>1, <3>2 DEF PairUnused
  <2>10. NotLost'
    BY <1>c, <2>2, <2>3 DEF NotLost
  <2> QED BY <2>5, <2>6, <2>8, <2>9, <2>10 DEF Safe
<1>16. CASE RevokeAllSessions
  <2>1. UNCHANGED <<store, lock, pc, call, sawUsed, used, carry, pair>> /\ revoked' = "elsewhere"
    BY <1>16 DEF RevokeAllSessions, redis, front, rotation
  <2> QED BY <1>c, <2>1 DEF Safe, HolderAlone, CallsUnused, StoredUnused, PairUnused, NotLost,
                            LoggedOut, Unpublished, Token
<1>17. CASE Expire \/ UNCHANGED sessionVars
  <2>1. UNCHANGED <<store, lock, pc, call, sawUsed, used, carry, pair, revoked>>
    BY <1>17 DEF Expire, sessionVars, redis, front, backend, rotation
  <2> QED BY <1>c, <2>1 DEF Safe, HolderAlone, CallsUnused, StoredUnused, PairUnused, NotLost,
                            Unpublished, Token
<1>18. CASE Tick
  <2>1. UNCHANGED <<store, pc, call, sawUsed, used, carry, pair, revoked>>
    BY <1>18 DEF Tick, backend, rotation
  <2>2. HolderAlone'
    <3>1. lock' = lock \/ lock' = None
      BY <1>18 DEF Tick
    <3>2. ~(lock # None /\ lock' = None /\ pc[lock] \in CriticalSection)
      BY <1>18 DEF Tick
    <3> QED BY <1>c, <2>1, <3>1, <3>2, NoneAssumption DEF HolderAlone
  <2> QED BY <1>c, <2>1, <2>2 DEF Safe, CallsUnused, StoredUnused, PairUnused, NotLost, Unpublished, Token
<1> QED
  BY <1>1, <1>2, <1>3, <1>4, <1>5, <1>6, <1>7, <1>8, <1>9, <1>10, <1>11, <1>12, <1>13, <1>14,
     <1>15, <1>16, <1>17, <1>18 DEF SessionsNext, FrontStep, RotateStep

LEMMA SessionInit == SessionsInit => SessionInv
<1> SUFFICES ASSUME SessionsInit PROVE SessionInv
  OBVIOUS
<1>1. Kinds /\ Numbers
  BY NoneAssumption DEF SessionsInit, Kinds, Numbers, FirstSession
<1>2. store # None
  <2>1. FirstSession \in Session
    BY SessionAssumption DEF FirstSession, Session
  <2> QED BY <2>1, NoneAssumption DEF SessionsInit
<1>3. Undisturbed
  BY <1>2 DEF SessionsInit, Undisturbed, HolderAlone, CallsUnused, StoredUnused, PairUnused, NotLost,
              Unpublished, Held, CriticalSection, Upstream
<1> QED BY <1>1, <1>3, RotationInit, LockInit DEF SessionInv

LEMMA SessionStep == SessionInv /\ [SessionsNext]_sessionVars => SessionInv'
<1> SUFFICES ASSUME SessionInv, [SessionsNext]_sessionVars PROVE SessionInv'
  OBVIOUS
<1>1. RotationInv' /\ RefreshInsideLock' /\ Numbers'
  BY RotationStep, LockStep, NumbersStep DEF SessionInv, RotationInv
<1>2. Kinds' /\ (LoggedOut => LoggedOut')
  BY KindsStep DEF SessionInv
<1>3. Undisturbed'
  BY <1>2, UndisturbedStep
<1> QED BY <1>1, <1>2, <1>3 DEF SessionInv

\* The single flight works: as long as no call fails, no process dies and no lock
\* lapses, parallel requests never present a used refresh token, so reuse
\* detection never fires on them and only a logout ends the session.
THEOREM UndisturbedSessionSurvives == SessionsSpec => []SessionSurvives
<1>1. SessionInv => SessionSurvives
  BY DEF SessionInv, Undisturbed, NotLost, LoggedOut, SessionSurvives
<1> QED BY <1>1, SessionInit, SessionStep, PTL DEF SessionsSpec
=============================================================================
