--------------------------- MODULE SessionRefresh ---------------------------
(***************************************************************************)
(* One browser session: the requests that pass through the front end's     *)
(* server (lib/bff-upstream.ts, lib/bff-session.ts), the single-flight     *)
(* lock and the session they keep in Redis, and the backend's rotation of  *)
(* refresh tokens with reuse detection (modules/auth).                     *)
(*                                                                         *)
(* Time is counted in ticks.  Only upstream calls take time: a tick waits  *)
(* until every step on Redis that is due has been taken, so a lock that    *)
(* lapses does so because of an upstream call and never of a slow Redis.   *)
(* Access and refresh tokens are numbered as they are minted.              *)
(***************************************************************************)
EXTENDS Naturals

CONSTANTS
    Fetch,            \* the requests of one browser, each served once
    RefreshTimeout,     \* REFRESH_TIMEOUT_MS, in ticks
    LockTTL,            \* REFRESH_LOCK_TTL_MS
    WaitBudget,         \* REFRESH_WAIT_MS
    TenantSelected,     \* whether the session has an activeTenantId
    MaxExpiries,        \* bound: times the access tokens expire
    MaxCrashes,         \* bound: front-end processes that die with a request
    None

\* The bounds are asserted when bff-session.ts is loaded.
ASSUME BoundsAssumption ==
    /\ RefreshTimeout \in Nat \ {0} /\ LockTTL \in Nat /\ WaitBudget \in Nat
    /\ RefreshTimeout < LockTTL /\ LockTTL < WaitBudget
ASSUME SessionAssumption == TenantSelected \in BOOLEAN
ASSUME LimitAssumption == MaxExpiries \in Nat /\ MaxCrashes \in Nat

VARIABLES
    \* Redis
    store,      \* bff:session:<id>, or None
    lock,       \* owner of bff:refresh-lock:<id>, or None
    lockLeft,   \* ticks until the lock expires
    \* the front end's requests
    pc, kind,   \* where a request is, and what it asks for
    seen,       \* the access token it uses
    carry,      \* the session it read last
    pair,       \* the tokens it was given
    left,       \* ticks until its upstream call is aborted or its wait ends
    \* the backend
    call,       \* the refresh transaction of each request
    sawUsed,    \* used_at of the token, as that transaction read it
    used,       \* refresh tokens with used_at
    minted,     \* refresh tokens minted by rotations so far
    chain,      \* replaced_by_id: <<token, its replacement>>
    revoked,    \* revoked_reason of the session, or "no"
    accesses,   \* access tokens minted so far
    oldest,     \* access tokens below this one have expired
    \* history
    expiries, crashes,
    trouble     \* something failed, died, lapsed or was overwritten

redis == <<store, lock, lockLeft>>
front == <<pc, kind, seen, carry, pair, left>>
rotation == <<call, sawUsed, used, minted, chain>>
backend == <<rotation, revoked, accesses, oldest>>
history == <<expiries, crashes, trouble>>
sessionVars == <<redis, front, backend, history>>

Session == [access : Nat, refresh : Nat, tenant : BOOLEAN]
ASSUME NoneAssumption == None \notin Fetch /\ None \notin Session
FirstSession == [access |-> 0, refresh |-> 0, tenant |-> TenantSelected]
Valid(a) == a >= oldest /\ revoked = "no"

\* Mistake: the session row is read without FOR UPDATE.
SessionRowUnguarded == TRUE

\* No transaction holds the session row; the token row is held from "token" on.
SessionRowFree == \A s \in Fetch : call[s] # "work"

Goto(r, place) == pc' = [pc EXCEPT ![r] = place]

-----------------------------------------------------------------------------
(* proxyUpstream: read the session, call, and on 401 rotate and call again.  *)

Start(r, k) ==
    /\ pc[r] = "new"
    /\ kind' = [kind EXCEPT ![r] = k]
    /\ IF store = None
       THEN Goto(r, IF k = "logout" THEN "clear" ELSE "done") /\ UNCHANGED <<seen, carry>>
       ELSE /\ Goto(r, "call")
            /\ seen' = [seen EXCEPT ![r] = store.access]
            /\ carry' = [carry EXCEPT ![r] = store]
    /\ UNCHANGED <<redis, pair, left, backend, history>>

\* What follows a response that ends proxyUpstream: the logout route clears the
\* session whatever the response was.
Finished(r) == IF kind[r] = "logout" THEN "clear" ELSE "done"

\* A plain call has its answer; switch-tenant may still be refused.
CallAccepted(r) ==
    /\ pc[r] \in {"call", "retry"}
    /\ Valid(seen[r])
    /\ \/ kind[r] # "logout" /\ Goto(r, "done") /\ UNCHANGED <<pair, revoked, accesses>>
       \/ /\ kind[r] = "switch"
          /\ accesses' = accesses + 1
          /\ pair' = [pair EXCEPT ![r].access = accesses']
          /\ Goto(r, "readback")
          /\ UNCHANGED revoked
       \/ /\ kind[r] = "logout"
          /\ SessionRowFree
          /\ revoked' = "logout"
          /\ Goto(r, "clear")
          /\ UNCHANGED <<pair, accesses>>
    /\ UNCHANGED <<redis, kind, seen, carry, left, rotation, oldest, history>>

CallRefused(r) ==
    /\ pc[r] \in {"call", "retry"}
    /\ ~Valid(seen[r])
    /\ Goto(r, IF pc[r] = "call" THEN "want" ELSE Finished(r))
    /\ UNCHANGED <<redis, kind, seen, carry, pair, left, backend, history>>

\* The connection breaks: the route throws.
CallFails(r) ==
    /\ pc[r] \in {"call", "retry"}
    /\ Goto(r, "done")
    /\ UNCHANGED <<redis, kind, seen, carry, pair, left, backend, history>>

\* A response that carries an access token is stored with the refresh token that
\* a fresh read of the session finds: a read and a write, not atomic.
ReadBack(r) ==
    /\ pc[r] = "readback"
    /\ IF store = None THEN Goto(r, "done") /\ UNCHANGED carry
       ELSE Goto(r, "writeback") /\ carry' = [carry EXCEPT ![r] = store]
    /\ UNCHANGED <<redis, kind, seen, pair, left, backend, history>>

WriteBack(r) ==
    /\ pc[r] = "writeback"
    /\ store' = [access |-> pair[r].access, refresh |-> carry[r].refresh, tenant |-> TRUE]
    /\ trouble' = (trouble \/ store = None \/ store.refresh # carry[r].refresh)
    /\ Goto(r, "done")
    /\ UNCHANGED <<lock, lockLeft, kind, seen, carry, pair, left, backend, expiries, crashes>>

Clear(r) ==
    /\ pc[r] = "clear"
    /\ store' = None
    /\ Goto(r, "done")
    /\ UNCHANGED <<lock, lockLeft, kind, seen, carry, pair, left, backend, history>>

-----------------------------------------------------------------------------
(* rotate: the holder of the lock.                                           *)

\* REFRESH_LOCK_TTL_MS
Lifetime == LockTTL

\* SET NX PX: the lock, or a place in the queue of those who wait for its holder.
AcquireRefreshLock(r) ==
    /\ pc[r] = "want"
    /\ IF lock = None
       THEN lock' = r /\ lockLeft' = Lifetime /\ Goto(r, "reread") /\ UNCHANGED left
       ELSE Goto(r, "wait") /\ left' = [left EXCEPT ![r] = WaitBudget] /\ UNCHANGED <<lock, lockLeft>>
    /\ UNCHANGED <<store, kind, seen, carry, pair, backend, history>>

\* Mistake: the session is not read again under the lock.
LatestStale(r) == carry[r]

\* The session as the holder of the lock finds it.
Latest(r) == store

ReRead(r) ==
    /\ pc[r] = "reread"
    /\ \/ Latest(r) = None /\ Goto(r, "release failed") /\ UNCHANGED <<seen, carry, left, call>>
       \/ /\ Latest(r) # None /\ Latest(r).access # seen[r]
          /\ seen' = [seen EXCEPT ![r] = Latest(r).access]
          /\ Goto(r, "release refreshed")
          /\ UNCHANGED <<carry, left, call>>
       \/ /\ Latest(r) # None /\ Latest(r).access = seen[r]
          /\ carry' = [carry EXCEPT ![r] = Latest(r)]
          /\ left' = [left EXCEPT ![r] = RefreshTimeout]
          /\ call' = [call EXCEPT ![r] = "sent"]
          /\ Goto(r, "refresh")
          /\ UNCHANGED seen
    /\ UNCHANGED <<redis, kind, pair, sawUsed, used, minted, chain, revoked, accesses, oldest, history>>

RefreshAnswered(r) ==
    /\ pc[r] = "refresh"
    /\ \/ /\ call[r] = "ok" /\ carry[r].tenant
          /\ left' = [left EXCEPT ![r] = RefreshTimeout]
          /\ Goto(r, "rebind")
       \/ call[r] = "ok" /\ ~carry[r].tenant /\ Goto(r, "publish") /\ UNCHANGED left
       \/ call[r] = "refused" /\ Goto(r, "release failed") /\ UNCHANGED left
    /\ UNCHANGED <<redis, kind, seen, carry, pair, backend, history>>

\* Aborted at the timeout, or the connection broke: the backend may still rotate.
\* Once the headers of a good answer are there, the abort ends the reading of the
\* body, which is thrown out of rotate: the session stays as it was.
RefreshFails(r) ==
    /\ pc[r] = "refresh"
    /\ trouble' = TRUE
    /\ \/ Goto(r, "release failed")
       \/ call[r] = "ok" /\ Goto(r, "release thrown")
    /\ UNCHANGED <<redis, kind, seen, carry, pair, left, backend, expiries, crashes>>

\* switch-tenant: a tenant-bound access token, or a refusal that keeps the one
\* without a tenant.
Rebind(r) ==
    /\ pc[r] = "rebind"
    /\ \/ /\ Valid(pair[r].access)
          /\ accesses' = accesses + 1
          /\ pair' = [pair EXCEPT ![r].access = accesses']
       \/ UNCHANGED <<accesses, pair>>
    /\ Goto(r, "publish")
    /\ UNCHANGED <<redis, kind, seen, carry, left, rotation, revoked, oldest, history>>

\* Its own abort is thrown out of rotate: the new tokens are dropped, the lock is
\* released and the session stays as it was.
RebindFails(r) ==
    /\ pc[r] = "rebind"
    /\ trouble' = TRUE
    /\ Goto(r, "release thrown")
    /\ UNCHANGED <<redis, kind, seen, carry, pair, left, backend, expiries, crashes>>

Publish(r) ==
    /\ pc[r] = "publish"
    /\ store' = [access |-> pair[r].access, refresh |-> pair[r].refresh, tenant |-> carry[r].tenant]
    /\ seen' = [seen EXCEPT ![r] = pair[r].access]
    /\ Goto(r, "release refreshed")
    /\ UNCHANGED <<lock, lockLeft, kind, carry, pair, left, backend, history>>

\* Compare and delete.
Unlocked(r) == IF lock = r THEN None ELSE lock

Releasing == {"release failed", "release refreshed", "release thrown"}

\* The finally clause; a failed rotation clears the session after it.
ReleaseRefreshLock(r) ==
    /\ pc[r] \in Releasing
    /\ lock' = Unlocked(r)
    /\ lockLeft' = IF lock' = None THEN 0 ELSE lockLeft
    /\ Goto(r, CASE pc[r] = "release failed" -> "clear"
                 [] pc[r] = "release refreshed" -> "retry"
                 [] OTHER -> "done")
    /\ UNCHANGED <<store, kind, seen, carry, pair, left, backend, history>>

-----------------------------------------------------------------------------
(* awaitRotatedToken: the others.                                            *)

PolledRotated(r) ==
    /\ pc[r] = "wait"
    /\ store # None
    /\ store.access # seen[r]
    /\ seen' = [seen EXCEPT ![r] = store.access]
    /\ Goto(r, "retry")
    /\ UNCHANGED <<redis, kind, carry, pair, left, backend, history>>

PolledGone(r) ==
    /\ pc[r] = "wait"
    /\ store = None
    /\ Goto(r, "clear")
    /\ UNCHANGED <<redis, kind, seen, carry, pair, left, backend, history>>

\* Mistake: the wait has no deadline.
OutOfTimeNever(r) == FALSE

OutOfTime(r) == left[r] = 0

\* 503 REFRESH_IN_PROGRESS: the request fails and the session stands.
GiveUp(r) ==
    /\ pc[r] = "wait"
    /\ OutOfTime(r)
    /\ Goto(r, Finished(r))
    /\ UNCHANGED <<redis, kind, seen, carry, pair, left, backend, history>>

\* The front end's process dies.  The lock stays until it expires, and a refresh
\* that was sent goes on.
Crash(r) ==
    /\ pc[r] \notin {"new", "done"}
    /\ crashes < MaxCrashes
    /\ crashes' = crashes + 1
    /\ trouble' = TRUE
    /\ Goto(r, "done")
    /\ UNCHANGED <<redis, kind, seen, carry, pair, left, backend, expiries>>

-----------------------------------------------------------------------------
(* rotate_refresh_token: one transaction per refresh call, which goes on when *)
(* its caller has given up.                                                   *)

Token(r) == carry[r].refresh

\* Mistake: the token row is read without FOR UPDATE.
MayLockTokenUnguarded(r) == call[r] = "sent"

MayLockToken(r) ==
    /\ call[r] = "sent"
    /\ \A s \in Fetch : call[s] \in {"token", "work"} => Token(s) # Token(r)

LockToken(r) ==
    /\ MayLockToken(r)
    /\ sawUsed' = [sawUsed EXCEPT ![r] = Token(r) \in used]
    /\ call' = [call EXCEPT ![r] = "token"]
    /\ UNCHANGED <<redis, front, used, minted, chain, revoked, accesses, oldest, history>>

\* The transaction of r ends and its answer is on its way.
Answer(r, answer) == call' = [call EXCEPT ![r] = answer]

LockSession(r) ==
    /\ call[r] = "token"
    /\ SessionRowFree
    /\ call' = [call EXCEPT ![r] = IF revoked = "no" THEN "work" ELSE "refused"]
    /\ UNCHANGED <<redis, front, sawUsed, used, minted, chain, revoked, accesses, oldest, history>>

\* An unused token is replaced; a used one revokes the session.
Rotate(r) ==
    /\ call[r] = "work"
    /\ IF sawUsed[r]
       THEN /\ revoked' = "reuse"
            /\ Answer(r, "refused")
            /\ UNCHANGED <<used, minted, chain, accesses, pair>>
       ELSE /\ minted' = minted + 1
            /\ chain' = chain \cup {<<Token(r), minted'>>}
            /\ used' = used \cup {Token(r)}
            /\ accesses' = accesses + 1
            /\ pair' = [pair EXCEPT ![r] = [access |-> accesses', refresh |-> minted']]
            /\ Answer(r, "ok")
            /\ UNCHANGED revoked
    /\ UNCHANGED <<redis, pc, kind, seen, carry, left, sawUsed, oldest, history>>

\* The backend fails before it commits.
RotateFails(r) ==
    /\ call[r] \in {"sent", "token", "work"}
    /\ trouble' = TRUE
    /\ Answer(r, "refused")
    /\ UNCHANGED <<redis, front, sawUsed, used, minted, chain, revoked, accesses, oldest,
                   expiries, crashes>>

\* The user logs out everywhere or changes the password, in another session.
RevokeAllSessions ==
    /\ revoked = "no"
    /\ SessionRowFree
    /\ revoked' = "elsewhere"
    /\ UNCHANGED <<redis, front, rotation, accesses, oldest, history>>

\* Fifteen minutes pass: the access tokens handed out so far expire.
Expire ==
    /\ expiries < MaxExpiries
    /\ oldest <= accesses
    /\ expiries' = expiries + 1
    /\ oldest' = accesses + 1
    /\ UNCHANGED <<redis, front, rotation, revoked, accesses, crashes, trouble>>

-----------------------------------------------------------------------------
(* Time.                                                                     *)

Ticked(n) == IF n = 0 THEN 0 ELSE n - 1

Upstream == {"refresh", "rebind"}
CriticalSection == Upstream \cup {"publish"}

\* r can let a tick pass: it waits for upstream, or for the holder of the lock.
MayWait(r) ==
    \/ pc[r] \in {"new", "call", "retry", "done"}
    \/ pc[r] \in Upstream /\ left[r] > 0
    \/ pc[r] = "wait" /\ left[r] > 0 /\ store # None /\ store.access = seen[r]

Tick ==
    /\ \A r \in Fetch : MayWait(r)
    /\ lock # None \/ \E r \in Fetch : pc[r] \in Upstream \cup {"wait"}
    /\ left' = [r \in Fetch |-> Ticked(left[r])]
    /\ lockLeft' = IF lock = None THEN 0 ELSE Ticked(lockLeft)
    /\ lock' = IF lockLeft' = 0 THEN None ELSE lock
    /\ trouble' = (trouble \/ (lock # None /\ lock' = None /\ pc[lock] \in CriticalSection))
    /\ UNCHANGED <<store, pc, kind, seen, carry, pair, backend, expiries, crashes>>

-----------------------------------------------------------------------------
Kind == {"plain", "switch", "logout"}

SessionsInit ==
    /\ store = FirstSession /\ lock = None /\ lockLeft = 0
    /\ pc = [r \in Fetch |-> "new"] /\ kind = [r \in Fetch |-> "plain"]
    /\ seen = [r \in Fetch |-> 0]
    /\ carry = [r \in Fetch |-> FirstSession]
    /\ pair = [r \in Fetch |-> [access |-> 0, refresh |-> 0]]
    /\ left = [r \in Fetch |-> 0]
    /\ call = [r \in Fetch |-> "none"] /\ sawUsed = [r \in Fetch |-> FALSE]
    /\ used = {} /\ minted = 0 /\ chain = {}
    /\ revoked = "no" /\ accesses = 0 /\ oldest = 0
    /\ expiries = 0 /\ crashes = 0 /\ trouble = FALSE

\* A step of the front end for r.
FrontStep(r) ==
    \/ CallAccepted(r) \/ CallRefused(r) \/ CallFails(r) \/ ReadBack(r) \/ WriteBack(r) \/ Clear(r)
    \/ AcquireRefreshLock(r) \/ ReRead(r) \/ RefreshAnswered(r) \/ RefreshFails(r)
    \/ Rebind(r) \/ RebindFails(r) \/ Publish(r) \/ ReleaseRefreshLock(r)
    \/ PolledRotated(r) \/ PolledGone(r) \/ GiveUp(r)

RotateStep(r) == LockToken(r) \/ LockSession(r) \/ Rotate(r) \/ RotateFails(r)

SessionsNext ==
    \/ \E r \in Fetch : (\E k \in Kind : Start(r, k)) \/ FrontStep(r) \/ RotateStep(r) \/ Crash(r)
    \/ RevokeAllSessions
    \/ Expire
    \/ Tick

SessionsSpec == SessionsInit /\ [][SessionsNext]_sessionVars

\* Requests that were started are served, transactions go on, time passes.
FairSpec ==
    /\ SessionsSpec
    /\ \A r \in Fetch : WF_sessionVars(FrontStep(r)) /\ WF_sessionVars(RotateStep(r))
    /\ WF_sessionVars(Tick)

-----------------------------------------------------------------------------
Place == {"new", "call", "retry", "readback", "writeback", "clear", "want", "reread",
          "refresh", "rebind", "publish", "wait", "done"} \cup Releasing

\* Redis, the requests and the backend's rows keep their shape, and no timer runs
\* below zero.
SessionsTypeOK ==
    /\ store \in Session \cup {None}
    /\ lock \in Fetch \cup {None} /\ lockLeft \in 0..LockTTL
    /\ pc \in [Fetch -> Place] /\ kind \in [Fetch -> Kind]
    /\ seen \in [Fetch -> Nat] /\ carry \in [Fetch -> Session]
    /\ pair \in [Fetch -> [access : Nat, refresh : Nat]]
    /\ left \in [Fetch -> 0..WaitBudget]
    /\ call \in [Fetch -> {"none", "sent", "token", "work", "ok", "refused"}]
    /\ sawUsed \in [Fetch -> BOOLEAN]
    /\ used \subseteq Nat /\ minted \in Nat /\ chain \subseteq Nat \X Nat
    /\ revoked \in {"no", "logout", "elsewhere", "reuse"}
    /\ accesses \in Nat /\ oldest \in Nat
    /\ expiries \in Nat /\ crashes \in Nat /\ trouble \in BOOLEAN

\* At most one request has a refresh under way, whatever holder dies, is slow to
\* rebind or finds its lock lapsed: the refresh itself ends before its lock does.
OneRefreshInFlight ==
    \A r, s \in Fetch : pc[r] = "refresh" /\ pc[s] = "refresh" => r = s

\* A refresh token is exchanged at most once, although a transaction whose caller
\* gave up may run beside the next one.
RotatedOnce == \A x, y \in chain : x[1] = y[1] => x = y

\* Once a session is revoked, by logout or reuse detection, no refresh token of it
\* is minted, also by a rotation that was already under way.
RevokedMintsNothing == [][revoked # "no" => minted' = minted]_sessionVars

\* Unless something failed, died, lapsed or was overwritten, parallel requests
\* never replay a refresh token, and a session is lost by logging out only, here
\* or elsewhere.
SessionSurvives ==
    ~trouble => /\ revoked # "reuse"
                /\ store = None => revoked = "elsewhere" \/ \E r \in Fetch : kind[r] = "logout"

\* Every request ends, also when the holder of the lock died.
EveryRequestEnds == \A r \in Fetch : pc[r] # "new" ~> pc[r] = "done"

=============================================================================
