------------------------------- MODULE Access -------------------------------
(***************************************************************************)
(* Who may do what in one organization: memberships, roles, invitations    *)
(* and branches (modules/members, rbac, invitations, branches, tenancy),   *)
(* the permission cache every request reads first (rbac/service.py), and   *)
(* the audit row a change writes in its own transaction.                   *)
(*                                                                         *)
(* A request authenticates, builds its context (cached permissions, roles, *)
(* branch scope) and runs one operation in one transaction: the action     *)
(* named for the operation locks the row it changes and checks; Flush      *)
(* takes the locks its foreign keys and its audit row need, all together   *)
(* (a transaction that holds some of them while it waits only delays the   *)
(* others); Commit makes its rows visible.  Rollback stands for every      *)
(* refusal, expired invitation, deadlock victim and lost connection, and   *)
(* the end of a request that only reads.                                   *)
(***************************************************************************)
EXTENDS AuditChain

CONSTANTS
    User, Founder,      \* accounts; those that are members at the start
    OWNER, Custom,      \* the system role, which holds every permission; custom roles
    Given,              \* custom roles that exist at the start
    Invitation, Branch, Tenant,
    Permission, Manage, \* permission codes; the one the modelled routes require
    Everything,         \* branch_ids is None: no restriction
    Nobody,
    Request,            \* bound: requests served
    Reader              \* those that only read, and change nothing once their context is built

Role == {OWNER} \cup Custom

ASSUME AccessAssumption ==
    /\ Founder \subseteq User /\ Given \subseteq Custom /\ OWNER \notin Custom
    /\ Manage \in Permission /\ Nobody \notin User /\ Reader \subseteq Request

VARIABLES
    memberships,    \* per user: status ("none" before), roles, branches, version
    roles,          \* per role: life ("absent", "live", "deleted") and permission codes
    invitations,    \* per invitation: status ("none" before), email (a user), role, token
    branches,       \* per branch: "absent", "active" or "inactive"
    cache,          \* Redis: <<user, version, code>> for each member of each key's set
    request         \* per request: its step, its context, its open transaction

tables == <<memberships, roles, invitations, branches>>
vars == <<tables, cache, request, chainVars>>

(* Rows: what the mapped classes hold; "none" and "absent" stand for a row *)
(* that is not there.  Nothing writes INVITED, and no row becomes EXPIRED. *)
MembershipStatus == {"INVITED", "ACTIVE", "SUSPENDED", "REVOKED"}
InvitationStatus == {"PENDING", "ACCEPTED", "REVOKED", "EXPIRED"}
MembershipRow == [status : MembershipStatus \cup {"none"}, roles : SUBSET Role,
                  branches : SUBSET Branch, version : Nat]
RoleRow == [life : {"absent", "live", "deleted"}, codes : SUBSET Permission]
InvitationRow == [status : InvitationStatus \cup {"none"}, email : User \cup {Nobody},
                  role : Role, token : Nat]
BranchRow == {"absent", "active", "inactive"}

\* The rows of some of the keys K.
PartialRows(K, V) == UNION {[D -> V] : D \in SUBSET K}
Step == {"new", "known", "read", "ready", "checked", "flushed", "done"}
Lock == (User \cup Role \cup Invitation \cup Branch \cup {Tenant})
            \X {"update", "nokey", "keyshare"}
WriteRow == [memberships : PartialRows(User, MembershipRow), roles : PartialRows(Role, RoleRow),
             invitations : PartialRows(Invitation, InvitationRow),
             branches : PartialRows(Branch, BranchRow), names : SUBSET (Role \cup Branch),
             bumps : SUBSET Role, audited : BOOLEAN]
RequestRow == [step : Step, actor : User \cup {Nobody}, version : Nat,
               codes : SUBSET Permission, role_ids : SUBSET Role,
               branch_ids : SUBSET (Branch \cup {Everything}), write : WriteRow,
               locks : SUBSET Lock]

Live == {r \in Role : roles[r].life = "live"}
role_permissions(rs) == UNION {roles[r].codes : r \in rs}
get_permissions(u) == role_permissions(memberships[u].roles)

known_permission_codes(codes) == codes \cap Permission
member_emails == {u \in User : memberships[u].status \notin {"none", "REVOKED"}}
existing_membership(u) == memberships[u].status # "none"
role_in_tenant(r) == r \in Live

ActiveOwners ==
    {u \in User : memberships[u].status = "ACTIVE" /\ OWNER \in memberships[u].roles}
ActiveBranches == {b \in Branch : branches[b] = "active"}
active_branch_ids(bs) == bs \cap ActiveBranches

\* Only active branches count; a member left with none of them is not restricted.
get_branch_scope(u) ==
    LET kept == active_branch_ids(memberships[u].branches)
    IN  IF kept = {} THEN {Everything} ELSE kept

----------------------------------------------------------------------------
(* Row locks of the database: FOR UPDATE, the lock of an UPDATE that keeps *)
(* the key, and the lock a foreign key takes on the row it names.          *)

Conflicts(a, b) == "update" \in {a, b} \/ (a = "nokey" /\ b = "nokey")
CanLockUnguarded(q, row, mode) == TRUE
CanLock(q, row, mode) ==
    \A p \in Request \ {q} : \A held \in request[p].locks :
        held[1] = row => ~Conflicts(mode, held[2])

\* What a transaction is to write: new rows by table, the rows its foreign keys name, the role
\* whose members it bumps, and whether it is audited.
NoRows == [x \in {} |-> x]
Row(key, row) == [x \in {key} |-> row]
NoWrite == [memberships |-> NoRows, roles |-> NoRows, invitations |-> NoRows, branches |-> NoRows,
            names |-> {}, bumps |-> {}, audited |-> TRUE]

Arrived == [step |-> "new", actor |-> Nobody, version |-> 0, codes |-> {}, role_ids |-> {},
            branch_ids |-> {}, write |-> NoWrite, locks |-> {}]
Ended == [Arrived EXCEPT !.step = "done"]

----------------------------------------------------------------------------
(* The context of a request: build_tenant_context.                         *)

get_active_membership(q, u) ==
    /\ request[q].step = "new"
    /\ memberships[u].status = "ACTIVE"
    /\ request' = [request EXCEPT ![q].step = "known", ![q].actor = u,
                                  ![q].version = memberships[u].version]
    /\ UNCHANGED <<tables, cache, chainVars>>

WithContext(q, codes) ==
    [request EXCEPT ![q].step = "ready", ![q].codes = codes,
                    ![q].role_ids = memberships[request[q].actor].roles,
                    ![q].branch_ids = get_branch_scope(request[q].actor)]

\* The set under one key; a key without members is no key.
CacheKey(u, version) == {u} \X {version} \X Permission
smembers(u, version) == {code \in Permission : <<u, version, code>> \in cache}

\* A key of the cache is used as it is.
CacheHit(q) ==
    LET cached == smembers(request[q].actor, request[q].version)
    IN  /\ request[q].step = "known"
        /\ cached # {}
        /\ request' = WithContext(q, cached)
        /\ UNCHANGED <<tables, cache, chainVars>>

\* Without one, or after its 300 seconds, the permissions are read, in a statement later than the
\* one that read the version.  No permissions are not cached.
CacheMiss(q) ==
    LET codes == get_permissions(request[q].actor)
    IN  /\ request[q].step = "known"
        /\ cache' = cache \ CacheKey(request[q].actor, request[q].version)
        /\ request' = IF codes = {} THEN WithContext(q, {})
                      ELSE [request EXCEPT ![q].step = "read", ![q].codes = codes]
        /\ UNCHANGED <<tables, chainVars>>

\* SADD adds to the key another request may have written meanwhile.
CachePermissions(q) ==
    /\ request[q].step = "read"
    /\ cache' = cache \cup ({request[q].actor} \X {request[q].version} \X request[q].codes)
    /\ request' = WithContext(q, request[q].codes)
    /\ UNCHANGED <<tables, chainVars>>

RequirePermission(q) == request[q].step = "ready" /\ Manage \in request[q].codes

----------------------------------------------------------------------------
(* The operations, up to their checks.                                     *)

Prepare(q, locks, write) ==
    /\ q \notin Reader
    /\ \A l \in locks : CanLock(q, l[1], l[2])
    /\ request' = [request EXCEPT ![q].step = "checked", ![q].locks = locks, ![q].write = write]
    /\ UNCHANGED <<tables, cache, chainVars>>

ForUpdate(row) == {<<row, "update">>}

\* An identifier no other open transaction has drawn.
Fresh(q, x, table) == \A p \in Request \ {q} : x \notin DOMAIN request[p].write[table]

\* The owners are counted without a lock: removals that overlap may each count the other's owner.
_require_another_owner(u) == u \in ActiveOwners => Cardinality(ActiveOwners) > 1

replace_roles(u, rs) == [memberships[u] EXCEPT !.roles = rs, !.version = @ + 1]

update_roles(q, u, rs) ==
    /\ RequirePermission(q) /\ u # request[q].actor
    /\ existing_membership(u)
    /\ \A r \in rs : role_in_tenant(r)
    /\ role_permissions(rs) \subseteq request[q].codes
    /\ OWNER \in rs => OWNER \in request[q].role_ids
    /\ OWNER \notin rs => _require_another_owner(u)
    /\ Prepare(q, ForUpdate(u),
           [NoWrite EXCEPT !.memberships = Row(u, replace_roles(u, rs)), !.names = rs])

\* No branches at all are a grant of every branch.
_require_grantable_branches(q, bs) ==
    request[q].branch_ids # {Everything} => bs # {} /\ bs \subseteq request[q].branch_ids

replace_branches(u, bs) == [memberships[u] EXCEPT !.branches = bs]

update_branches(q, u, bs) ==
    /\ RequirePermission(q) /\ u # request[q].actor
    /\ _require_grantable_branches(q, bs)
    /\ existing_membership(u)
    /\ active_branch_ids(bs) = bs
    /\ Prepare(q, ForUpdate(u),
           [NoWrite EXCEPT !.memberships = Row(u, replace_branches(u, bs)), !.names = bs])

\* A change of status, and remove, which is one to REVOKED.
update_status(q, u, status) ==
    /\ RequirePermission(q)
    /\ memberships[u].status \notin {"none", "REVOKED"}
    /\ status # "ACTIVE" => _require_another_owner(u)
    /\ Prepare(q, ForUpdate(u),
           [NoWrite EXCEPT !.memberships = Row(u, [memberships[u] EXCEPT !.status = status,
                                                                   !.version = @ + 1])])

_validate_permissions(q, codes) ==
    known_permission_codes(codes) = codes /\ codes \subseteq request[q].codes

replace_permissions(codes) == [life |-> "live", codes |-> codes]

create_role(q, r, codes) ==
    /\ RequirePermission(q)
    /\ roles[r].life = "absent" /\ Fresh(q, r, "roles")
    /\ _validate_permissions(q, codes)
    /\ Prepare(q, {}, [NoWrite EXCEPT !.roles = Row(r, replace_permissions(codes))])

\* With new codes the members of the role are bumped next.
update_role(q, r, codes) ==
    /\ RequirePermission(q)
    /\ r \in Live \cap Custom
    /\ _validate_permissions(q, codes)
    /\ Prepare(q, ForUpdate(r), [NoWrite EXCEPT !.roles = Row(r, replace_permissions(codes)),
                                                !.bumps = {r}])

rename_role(q, r) ==
    /\ RequirePermission(q)
    /\ r \in Live \cap Custom
    /\ Prepare(q, ForUpdate(r), NoWrite)

AssignedToNobody(r) == {}
Assigned(r) == {u \in User : r \in memberships[u].roles}

\* Mistake: the role is read without FOR UPDATE before its members are counted.
delete_role_unlocked(q, r) ==
    /\ RequirePermission(q)
    /\ r \in Live \cap Custom
    /\ Assigned(r) = {}
    /\ \A i \in Invitation : invitations[i].status # "none" => invitations[i].role # r
    /\ Prepare(q, {}, [NoWrite EXCEPT !.roles = Row(r, [life |-> "deleted", codes |-> {}])])

\* Refused while a member has it, and by the foreign key of any invitation that names it.
delete_role(q, r) ==
    /\ RequirePermission(q)
    /\ r \in Live \cap Custom
    /\ Assigned(r) = {}
    /\ \A i \in Invitation : invitations[i].status # "none" => invitations[i].role # r
    /\ Prepare(q, ForUpdate(r),
           [NoWrite EXCEPT !.roles = Row(r, [life |-> "deleted", codes |-> {}])])

invite(q, i, u, r) ==
    /\ RequirePermission(q)
    /\ invitations[i].status = "none" /\ Fresh(q, i, "invitations")
    /\ role_in_tenant(r)
    /\ roles[r].codes \subseteq request[q].codes
    /\ u \notin member_emails
    /\ Prepare(q, {},
           [NoWrite EXCEPT !.invitations = Row(i, [status |-> "PENDING", email |-> u, role |-> r,
                                                    token |-> 1]),
                           !.names = {r}])

revoke_invitation(q, i) ==
    /\ RequirePermission(q)
    /\ invitations[i].status = "PENDING"
    /\ Prepare(q, ForUpdate(i),
           [NoWrite EXCEPT !.invitations = Row(i, [invitations[i] EXCEPT !.status = "REVOKED"])])

\* A new token replaces the old one; this writes no audit row.
resend(q, i) ==
    /\ RequirePermission(q)
    /\ invitations[i].status = "PENDING"
    /\ Prepare(q, ForUpdate(i),
           [NoWrite EXCEPT !.invitations = Row(i, [invitations[i] EXCEPT !.token = @ + 1]),
                           !.audited = FALSE])

get_by_token(i, token) == invitations[i].status # "none" /\ invitations[i].token = token

\* Needs no membership, only the token.  A member who was removed passes the check of the code
\* and fails on the unique index of (tenant, user).
accept(q, i, token) ==
    /\ request[q].step = "new"
    /\ get_by_token(i, token) /\ invitations[i].status = "PENDING"
    /\ ~existing_membership(invitations[i].email)
    /\ Prepare(q, ForUpdate(i),
           [NoWrite EXCEPT
               !.invitations = Row(i, [invitations[i] EXCEPT !.status = "ACCEPTED"]),
               !.memberships = Row(invitations[i].email,
                   [status |-> "ACTIVE", roles |-> {invitations[i].role}, branches |-> {},
                    version |-> 0]),
               !.names = {invitations[i].role}])

_require_branch(q, b) == request[q].branch_ids = {Everything} \/ b \in request[q].branch_ids

create_branch(q, b) ==
    /\ RequirePermission(q)
    /\ branches[b] = "absent" /\ Fresh(q, b, "branches")
    /\ Prepare(q, {}, [NoWrite EXCEPT !.branches = Row(b, "active")])

update_branch(q, b) ==
    /\ RequirePermission(q) /\ _require_branch(q, b)
    /\ branches[b] # "absent"
    /\ Prepare(q, ForUpdate(b), NoWrite)

AnotherBranch == Cardinality(ActiveBranches) > 1

deactivate_branch(q, b) ==
    /\ RequirePermission(q) /\ _require_branch(q, b)
    /\ branches[b] = "active"
    /\ AnotherBranch
    /\ Prepare(q, ForUpdate(b), [NoWrite EXCEPT !.branches = Row(b, "inactive")])

update_current(q) == RequirePermission(q) /\ Prepare(q, ForUpdate(Tenant), NoWrite)

----------------------------------------------------------------------------
(* The end of a transaction.                                               *)

\* UPDATE memberships SET roles_version = roles_version + 1 for the members of a changed role.
bump_assigned_memberships(q) ==
    LET members == UNION {Assigned(r) : r \in request[q].write.bumps}
    IN  /\ request[q].step = "checked" /\ request[q].write.bumps # {}
        /\ \A u \in members : CanLock(q, u, "nokey")
        /\ request' = [request EXCEPT
               ![q].locks = @ \cup {<<u, "nokey">> : u \in members},
               ![q].write.memberships =
                   [u \in members |-> [memberships[u] EXCEPT !.version = @ + 1]],
               ![q].write.bumps = {}]
        /\ UNCHANGED <<tables, cache, chainVars>>

\* One PENDING invitation for an address, uncommitted ones included.
UniquePending(q) ==
    \A i \in DOMAIN request[q].write.invitations :
        invitations[i].status = "none" =>
            LET email == request[q].write.invitations[i].email
            IN  /\ \A j \in Invitation : invitations[j].status = "PENDING"
                                              => invitations[j].email # email
                /\ \A p \in Request \ {q} : request[p].step = "flushed" =>
                       \A j \in DOMAIN request[p].write.invitations :
                           request[p].write.invitations[j].email # email

\* The audit row of the operation is inserted with its other rows.
record(q) ==
    IF request[q].write.audited THEN nexora_chain_audit_events(q, q) ELSE UNCHANGED chainVars

\* The foreign keys lock the rows they name: the tenant, the actor's membership for the audit
\* row, and those of the operation, which must still be there.
Flush(q) ==
    LET write == request[q].write
        named == write.names \cup {Tenant}
                     \cup (IF write.audited THEN {request[q].actor} \ {Nobody} ELSE {})
    IN  /\ request[q].step = "checked" /\ write.bumps = {}
        /\ \A row \in named : CanLock(q, row, "keyshare")
        /\ write.names \cap Role \subseteq Live
        /\ UniquePending(q)
        /\ record(q)
        /\ request' = [request EXCEPT ![q].step = "flushed",
                                      ![q].locks = @ \cup {<<row, "keyshare">> : row \in named}]
        /\ UNCHANGED <<tables, cache>>

Written(new, table) ==
    [key \in DOMAIN table |-> IF key \in DOMAIN new THEN new[key] ELSE table[key]]

Commit(q) ==
    LET write == request[q].write
    IN  /\ request[q].step = "flushed"
        /\ memberships' = Written(write.memberships, memberships)
        /\ roles' = Written(write.roles, roles)
        /\ invitations' = Written(write.invitations, invitations)
        /\ branches' = Written(write.branches, branches)
        /\ request' = [request EXCEPT ![q] = Ended]
        /\ ChainCommit(q)
        /\ UNCHANGED cache

Rollback(q) ==
    /\ request[q].step \notin {"new", "done"}
    /\ request' = [request EXCEPT ![q] = Ended]
    /\ ChainRollback(q)
    /\ UNCHANGED <<tables, cache>>

----------------------------------------------------------------------------
\* An organization made by create_organization, whose first members have joined since.
Init ==
    /\ \E chosen \in [Founder -> {{OWNER}} \cup {{r} : r \in Given}] :
        /\ \E u \in Founder : chosen[u] = {OWNER}
        /\ memberships = [u \in User |->
               [status |-> IF u \in Founder THEN "ACTIVE" ELSE "none",
                roles |-> IF u \in Founder THEN chosen[u] ELSE {},
                branches |-> {}, version |-> 0]]
    /\ roles = [r \in Role |->
           IF r = OWNER THEN [life |-> "live", codes |-> Permission]
           ELSE IF r \in Given THEN [life |-> "live", codes |-> {Manage}]
           ELSE [life |-> "absent", codes |-> {}]]
    /\ invitations \in [Invitation ->
           {[status |-> "none", email |-> Nobody, role |-> OWNER, token |-> 0]} \cup
           [status : {"PENDING"}, email : User \ Founder, role : Given, token : {1}]]
    /\ \A i, j \in Invitation :
           i # j /\ invitations[i].status = "PENDING" => invitations[j].email # invitations[i].email
    /\ \E active \in (SUBSET Branch) \ {{}} :
           branches = [b \in Branch |-> IF b \in active THEN "active" ELSE "absent"]
    /\ cache = {}
    /\ request = [q \in Request |-> Arrived]
    /\ ChainInit

Next ==
    \E q \in Request :
        \/ \E u \in User : get_active_membership(q, u)
        \/ CacheHit(q) \/ CacheMiss(q) \/ CachePermissions(q)
        \/ \E u \in User, rs \in SUBSET Role : update_roles(q, u, rs)
        \/ \E u \in User, bs \in SUBSET Branch : update_branches(q, u, bs)
        \/ \E u \in User, s \in {"ACTIVE", "SUSPENDED", "REVOKED"} : update_status(q, u, s)
        \/ \E r \in Custom, codes \in SUBSET Permission :
               create_role(q, r, codes) \/ update_role(q, r, codes)
        \/ \E r \in Custom : rename_role(q, r) \/ delete_role(q, r)
        \/ \E i \in Invitation, u \in User, r \in Role : invite(q, i, u, r)
        \/ \E i \in Invitation : revoke_invitation(q, i) \/ resend(q, i)
        \/ \E i \in Invitation, token \in 1..Cardinality(Request) : accept(q, i, token)
        \/ \E b \in Branch : create_branch(q, b) \/ update_branch(q, b) \/ deactivate_branch(q, b)
        \/ update_current(q)
        \/ bump_assigned_memberships(q) \/ Flush(q) \/ Commit(q) \/ Rollback(q)

Spec == Init /\ [][Next]_vars

----------------------------------------------------------------------------
\* Type invariant: the shape of the four tables, of the cache and of the requests.
TypeOK ==
    /\ memberships \in [User -> MembershipRow] /\ roles \in [Role -> RoleRow]
    /\ invitations \in [Invitation -> InvitationRow] /\ branches \in [Branch -> BranchRow]
    /\ cache \subseteq User \X Nat \X Permission
    /\ request \in [Request -> RequestRow]

\* A key of the permission cache that the member's present version names holds exactly the
\* permissions its committed roles give: no role change, assignment, status change or slow reader
\* leaves an old grant in use under the new version (rbac/service.py:22).
CacheIsCurrent ==
    \A u \in User : smembers(u, memberships[u].version) \in {{}, get_permissions(u)}

\* No interleaving of delete_role with an assignment, an invitation that is accepted or another
\* change leaves a member with a role that is not there: the count of the members runs under the
\* lock that their foreign keys need (rbac/role_service.py:98).
HeldRolesLive ==
    \A u \in User : /\ memberships[u].roles \subseteq Live
                    /\ ~existing_membership(u) => memberships[u].roles = {}

\* An invitation is decided once: accepted or revoked, by whichever of the concurrent requests
\* locks it first, it never changes again (invitations/service.py:195).
DecidedOnce ==
    [][\A i \in Invitation : invitations[i].status \in {"ACCEPTED", "REVOKED"}
           => invitations'[i] = invitations[i]]_invitations
=============================================================================
