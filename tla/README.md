# Nexora: a TLA+ verification project

Nexora is a multi-tenant ERP: a FastAPI backend over PostgreSQL (`backend/app`),
Celery workers, Redis, object and vector stores, and a Next.js front end with a
server of its own (`frontend/src`). This project models the parts of it that
keep money, stock, documents, document numbers, permissions and sessions right
under concurrency and failure, checks them with TLC on small instances, and
proves the main invariants of most of them with TLAPS for every instance. Paths
below are relative to the repository.

## 1. The system

A request reaches a router; a dependency checks the access token and resolves
the tenant context; a service runs inside `service_transaction`
(`backend/app/db/session.py`): one PostgreSQL transaction at READ COMMITTED that
commits on success and rolls back on any exception. The SQLAlchemy session has
`autoflush=False`, so a service works on an image of the rows it loaded and
writes them at the next flush or at commit. Concurrency control is pessimistic:
rows are locked with `SELECT ... FOR UPDATE`, queues are drained with
`SKIP LOCKED`, and unique keys, CHECK and exclusion constraints are the last
line of defence. Side effects that leave the database go through an outbox.
Browsers hold no token: the front end's server keeps access and refresh token in
Redis and refreshes them under a Redis lock.

| Component | State | Operations | What is hard |
|---|---|---|---|
| Inventory (`modules/inventory`) | balances, movements, reservations, transfers, average cost | receive, issue, adjust, reserve, release, ship, receive a transfer, post a document, expiry sweep | lock order, images that go stale, retries, negative stock |
| Document numbering (`modules/numbering`) | one counter row per series and period | allocate | gaps by rollback, order of locks |
| Idempotency keys (`modules/idempotency`) | key rows with request hash and response | claim, complete | crash between work and record, concurrent retries |
| Outbox (`modules/outbox`, `workers/tasks/outbox.py`) | event rows with attempts and `available_at` | enqueue, drain | worker death after a send, backoff, limits |
| General ledger (`modules/accounting`) | accounts, fiscal periods, entries, lines | post, post_manual, reverse, create and close periods, create accounts | periods that close under a posting, two reversals of one entry |
| Session refresh (`frontend/src/lib/bff-*.ts`, `modules/auth`) | Redis session and lock; refresh tokens, sessions | proxy, rotate, wait, log out; rotate, revoke | parallel 401s, timeouts, lapsing locks, token reuse detection |
| Sales (`modules/sales`) | quotations, orders, invoices, payments, credit notes | convert, fulfil, issue, pay, allocate, credit | several rows, stock, numbers and ledger in one transaction |
| Purchasing (`modules/purchasing`) | purchase orders, goods receipts, bills, supplier payments | order, receive, match, pay | as sales; three-way match |
| Point of sale (`modules/pos`) | terminals, cash sessions, held sales, sales, returns | open, check out, hold, resume, refund, close | retries of a checkout, partial refunds |
| VAT (`modules/vat`) | tax rates and recorded tax lines, returns | record, prepare, file | late documents in a filed period |
| Documents (`modules/documents`, `workers/tasks/documents.py`) | document rows, chunks, objects, vectors | upload, index, reindex, delete, reconcile | three stores without a common transaction |
| Audit (`modules/audit`) | hash-chained events | record, verify | order of the chain under concurrency |
| Access control (`modules/rbac`, `members`, `invitations`, `branches`, `tenancy`) | roles, memberships, invitations, branches, tenants | invite, accept, revoke, change roles, remove | last owner, permissions read before they change |
| Catalogue, parties, CRM | products, customers, suppliers, leads | single-row edits | a product retired while stock moves |
| AI, anomaly detection, forecasting, reporting | alerts, conversations | mostly reads | outside the reach of a model checker |

Components meet in four ways: a business service calls inventory, numbering,
idempotency, the ledger and the outbox inside its own transaction; workers share
tables with requests; the front end's server calls the backend and may give up
on a call that goes on; and a client repeats what it has no answer to.

### What makes each modelled component correct

* Inventory: the cached balance is the end of its movement chain and no update of
  it is lost; nothing is oversold; the reserved quantity is the sum of active
  reservations; a key posts once; a transfer line leaves and arrives once; the
  average cost contains every receipt (which goods receipts break, section 4).
* Numbering: committed numbers are 1, 2, 3, ... per series, with no gap; number and
  ledger rows are taken in one order, so only the audit chain's lock can close a
  circle of waiting sessions.
* Idempotency: a key is performed at most once and every answer to a key
  names the same document.
* Outbox: an event marked sent was sent; copies are bounded by the attempts recorded
  and the crashes, since a second copy takes a crash or a lost reply and its retry;
  every event is sent or given up.
* Ledger: an entry is reversed at most once and cancelled by it; closed and locked
  periods stay as they are, and so does what was reported for them.
* Session refresh: a refresh token is exchanged once, parallel requests do not
  log the user out, revocation is final, every request ends.
* Sales, purchasing and VAT: the control accounts are what the open documents add
  up to; the counters of a line are what its documents say; the stock of a warehouse
  is what its documents moved, and inventory and cost of sales together are the cost
  of what was received; goods received and billed clear; the VAT accounts are the
  register, and a filed return is exactly what it claimed, for good.
* Point of sale: a closed drawer's count stays true under a late checkout; refunds
  from two tills stay within the sale; cash, cost, revenue and VAT follow the tills.
* Documents: a search finds only what exists and passed the scanner; what is marked
  indexed has its chunks; the vectors of a deleted document go for good; no task
  waits for ever.
* Access control: the permission cache serves no grant of an older version; no
  member keeps a role that was deleted; an invitation is decided once.
* Audit: whatever commits, waits or rolls back, the trail verifies.

## 2. Modules

| Module | Models | Composes or refines |
|---|---|---|
| `Inventory` | stock operations as transactions: lock, load, post, commit or roll back | document operations of sales and purchasing, product edits of the catalogue, the sweep |
| `Numbering` | the allocator inside the plans of rows that its callers lock | refines `GaplessSeries` |
| `GaplessSeries` | abstract: each series is the sequence 1, 2, 3, ... | |
| `Idempotency` | clients, retries, sessions, `claim` and `complete`, crashes | refines `ExactlyOnce` |
| `ExactlyOnce` | abstract: a key is performed once, by one body | |
| `Outbox` | enqueue, claim a batch, dispatch row by row, commit, crash, time | |
| `Accounting` | postings and reversals step by step beside changes of periods and accounts | |
| `Reports` | trial balance, profit and loss, balance sheet, general ledger | over `Accounting` |
| `SessionRefresh` | requests through the front end's server, Redis lock and session, backend rotation | front end and backend in one model |
| `Books` | what documents write to: account balances, stock and its average, VAT register and returns | posting rules, inventory, VAT |
| `Sales` | quotation, order, fulfilment, invoice, payment, credit note | over `Books` |
| `Purchasing` | order, goods receipt, supplier bill, supplier payment | over `Sales` and `Books` |
| `Trade` | buying, selling and VAT returns in any order | composes the three |
| `PointOfSale` | terminals, cash sessions, checkout, held carts, refunds by concurrent requests | over `Books` |
| `DocumentIndex` | upload, index, retry, re-index, delete, clean up, reconcile over three stores | with the queue that `Outbox` fills |
| `AuditChain` | the chaining trigger, commit, rollback, the verifier | |
| `Access` | members, roles, invitations, branches, the permission cache | composes `AuditChain` |
| `MC*` | constants, operation sets, symmetry, and a property that sums over a table | |
| `*_proofs` | theorems and inductive invariants of the module they extend; `Accounting_proofs` covers `Reports`, `Platform_proofs` is that of `Idempotency`, `Numbering`, `Outbox` and `DocumentIndex`, `Identity_proofs` of `Access`, `AuditChain` and `SessionRefresh`; `Books_proofs` and `Sums_proofs` hold lemmas for `Trade_proofs` and `PointOfSale_proofs` | |

`PROJECT.json` maps every definition to the lines it stands for. Operators whose
comment begins with "Mistake:" are mutated forms of the definition below them;
no specification uses them. They are kept to show that each property fails when
the code is wrong in that way.

### Inventory

Variables are the committed rows (`cell`, `cost`, `retired`, `reservation`,
transfers), the row locks, and per session the request (`txn`) with its image of
the rows it has locked. A request is a sequence of steps: lock the products in
the order the code locks them, lock a balance row, check, change the image, go on
with the next line, commit. A lock held by another session blocks the step; a
cycle of waiting sessions lets PostgreSQL roll one back; `Crash` rolls back at
any point. The callers are the endpoints of the module and the documents
that move stock: goods receipt, fulfilment and restocking credit note, which read
the product without a lock (`purchasing/service.py:104`, `sales/service.py:501`,
`:932`), checkout, which locks balances before the product, and the refund. Left out: precision and
branch checks (input validation), warehouse activity, a product twice in one
document. A missing balance row is a zero row, because `ensure_balance` inserts
it on demand.

An image holds the balance row together with its movements and is written back
whole; this is what the code does while the row lock is held, which the proofs establish
(`HeldRowsAreCurrent`), and without the lock it turns a lost update into a ledger
that loses a movement, which `LedgerAppendOnly` sees.

### Numbering

A transaction is a plan: the rows it locks, in order, taken from the bodies of the
operations that allocate numbers: number only, number and post, move stock, number
and post once or twice, manual entry, reversal, period change. The last lock of most
plans is the advisory lock of the tenant's audit chain, which the trigger of
migration 0024 takes when audit rows are flushed. `AccountingService.post` flushes in
`_bootstrap` (`accounting/service.py:153`), so an operation with movements pending
takes it between its document number and the period; any other takes it at the
commit. Document, balance and product rows, locked before the number, are the
subject of the other modules; the weak locks of foreign keys are left out.
A formatted number is the pair of series and value.

### Idempotency

One endpoint; keys of different endpoints never meet. A request is sent, accepted
by a session, claims its key (an INSERT that waits for the uncommitted row of
another session), works, completes and commits with the document. A crash or a
refusal rolls both back. A replay answers with the document as it is now, so
`Change` alters documents after they are made. `expires_at` is never read by the
code and is left out.

### Outbox

`Claim` takes any batch of due, unlocked rows up to the batch size (the order by
`available_at` is left open), `Drain` dispatches one row or commits the batch,
`CrashWorker` drops the uncommitted images but not the deliveries. Backoff is counted
in units of 30 seconds from the commit. The SMTP exchange is one step that
delivers, fails, or delivers and reports a failure.

### Accounting

A posting is a session with a plan of three checks in the order of its code path:
`post` locks the period and then reads the accounts, `post_manual` reads the
accounts first, `reverse` locks the original before both. Period status changes,
new periods (with the exclusion constraint on overlapping dates) and new accounts
are one step each. Lines are the net debit per account. A document posts
without the privilege to write into a closed period. The model starts after
`_bootstrap`; insertion and commit are one step, because the lines lock nothing
that another step waits for.

`Reports` adds account types and the statements as operators on the posted
entries. They select by date while postings are admitted by period, so that what
was reported for a locked period stands only because periods do not overlap.

### SessionRefresh

One browser session. A request reads the session from Redis, calls the backend,
on 401 takes the lock or waits for its holder, reads the session again, refreshes,
rebinds the tenant, publishes, releases and retries. The backend's rotation is a
transaction of its own (token row, session row, work, commit) that goes on when
its caller has given up. Time passes only in upstream calls: a tick waits until
each due step on Redis is taken, so a lapse found here is never due to a slow
Redis. Left out: cookies, CSRF, encryption, login, the thirty-day expiry of
refresh tokens, and the access-token denylist, which revocation subsumes here.

### Books, Sales, Purchasing and Trade

A document's transaction is one step, because it locks the rows it changes before it
uses them; the steps inside are the subject of `Inventory`, `Numbering`, `Accounting`
and `Idempotency`. What it may read without a lock are the products: `fulfil`
(`sales/service.py:501`), `receive` (`purchasing/service.py:104`) and
`issue_credit_note` (`sales/service.py:932`) compute with any cost that was ever
committed for the product, current or not, and a receipt writes its average back.
Orders and notes name a warehouse; the average goes by the stock of the receiving
warehouse while the cost is the product's, and where the tenant allows it stock runs
below zero and an average with a zero denominator leaves the cost as it was.
Documents are sequences of rows with the status, quantities, amounts and counters
that the code keeps; an entry is a change of the system accounts' balances, as the
posting rules build it. Money counts units of the fourth decimal, unit costs keep
two decimals more, rates are fractions of a scale; line totals, the split of a
refund and the moving average round as the code does. CHECK and foreign-key
constraints are operators that the state after a step has to satisfy. A VAT return
is drafted for a period, filed, and claims the rows of the register that no other
return has claimed. `Trade` lets sales, purchases and returns happen in any order
over the same stock and accounts. A `Customer` or `Supplier` stands
for the pair with its branch; addresses, notes, due dates and searches are left out.

### PointOfSale

Several requests run at once. A request enters a session (row lock), then locks a
held cart or a sale where the code does, and ends with the rest of its transaction
in one step, or rolls back. Opening a session relies on the unique index of open
sessions. Goods arrive at another cost between sale and refund. The idempotent
retry of a checkout is the request of `Idempotency` and its two numbers are a plan
of `Numbering`; both are left out here. Each terminal sells from its own warehouse,
and a refund puts the goods back there at the cost of the sale line.

### DocumentIndex

Rows, objects and vectors are three sets without a common transaction. Upload puts
the bytes, then commits the row with its task or rolls back. A worker takes a task
and goes through it step by step: lock and flush, scan, extract, erase the old
vectors, write chunks, store vectors, commit; the clean-up deletes vectors, then
the object; the reconciliation reads keys, then rows, then deletes. Calls fail
and are retried up to the task's limit; workers die, with their task delivered again
(`task_acks_late`) or, when only the child process is killed, with the task lost
(`reject_on_worker_lost` is not set); connections are lost (the row lock with them,
while the worker goes on); the outbox delivers an event twice or gives it up; and
`_mark_failed` may itself fail. All of these are faults, up to `MaxFaults`. The
chunks of one document are one element, and the scanner's verdict on the bytes is a
constant of the document. Which documents a role may see, ranking and text are left
out.

### AuditChain and Access

The trigger of migration 0024 waits for the tenant's advisory lock, draws a
number, reads its predecessor's hash as of that statement and appends the row; a
rolled-back row leaves a hole in the numbers, not in the chain. The digest is
taken to be injective, so a hash is the pair it digests.

In `Access` a request authenticates, reads the permission cache or fills it, and
runs one operation of members, roles, invitations, branches or the organization:
lock and check, flush (the share locks of foreign keys and the audit row), commit.
A role's change raises the version of its members in the same transaction, and
the cache is keyed by version. A redis key is never removed, only outdated. The
counts of the other owners and of the other branches run without a lock, as in the
code, so that both can lose the last one (section 4). Expiry of invitations is one of
the reasons for `Rollback`.

### How definitions map to lines

A definition named `...Row` stands for the columns of a table and maps to its
`create_table` block; `...Keys` and `...Checks` stand for the constraints they state
and map to those lines; the groups of a next-state relation map to the endpoints that
call the operations. Constraints that no operation here can break (foreign keys to
tenants and branches, uniqueness of a number that `Numbering` allocates, sums that
are computed in the same statement) are left out.

## 3. Runs

| Run | Instance | Distinct states | Shows |
|---|---|---|---|
| `stock` | 1 product, 1 warehouse, 2 sessions, 2 reservations, 1 key, quantities 1 and 2, all operations on a cell | 1.3 M | no update lost, no oversell, cached sums match movements and reservations |
| `ledger` | 2 products, 2 warehouses, 2 sessions, 1 transfer, 1 key, deletions, negative stock | 0.45 M | keys and transfer lines post once |
| `cost_documents` | 1 product, 2 sessions, goods receipts | violation | the finding of section 4 |
| `gapless` | 2 document series, 1 journal series, 1 period, 1 entry, the audit lock, 3 sessions | 0.42 M | refines `GaplessSeries`, circles only through the audit lock |
| `once` | 2 intents, 2 keys, 2 sessions, 3 attempts | 0.34 M | refines `ExactlyOnce`, answers agree, every request ends |
| `delivery` | 3 events, 2 workers, batches of 2, 2 attempts, 1 crash | 0.31 M | copies bounded by attempts and crashes, every event settles |
| `books` | 2 sessions, 3 entries, 2 periods, 2 dates, 3 accounts | 1.6 M | reversals cancel, locked periods and what was reported for them stand |
| `refresh` | 2 requests, timeout 2, lock 3, wait 4, 1 expiry, 1 crash | 0.40 M | tokens rotated once, session survives, revocation is final, every request ends |
| `trade` | 1 product, 2 warehouses, negative stock, 1 customer, 1 supplier, 1 order each way, 6 documents with the orders, 2 dates, VAT returns for two overlapping periods | 0.78 M | subledgers, counters, stock, GRNI, VAT accounts and filings agree |
| `tills` | 2 requests, 2 terminals with a warehouse each, 2 sessions, 1 sale of two lines at two rates, 2 refunds, 1 held cart, 1 arrival at another cost | 0.66 M | drawer count final, refunds within the sale, ledger follows the tills |
| `index` | 1 document, 2 workers, 1 retry, 1 clean-up retry, 1 re-index, 3 faults | 0.12 M | searches are sound, deleted vectors go for good, no task waits for ever |
| `access` | 3 users, 2 founders, 2 custom roles, 1 invitation, 2 branches, 2 writing requests and 1 reader | 1.28 M | cache current, no member of a deleted role, invitations decided once, trail verifies |

Bounds. Two sessions, workers or requests are enough for every race listed, since
each is between two holders of one row; `gapless` uses three so that a wait can be
handed on, and `access` adds a reader that fills the cache between two writers.
In `trade`, six documents reach the longest chains whose amounts interact: on one
side an order and five more (shipment, invoice, payment and two credit notes; two
receipts, two bills and a payment; VAT returns between them), over both sides two
orders and four more (receipt, shipment, invoice and a restocking credit note);
ordered quantity 2 in parts of 1 and unit costs of three halves make
every partial document round. The cart of `tills` has a net and a tax that do not
divide by the quantity. In `index`, one document suffices because tasks and rows
of different documents never meet; three faults allow a crash, a lost connection
and a failed call in one run. The names starting with `Max`, and the sets `Entry`
and `Request`, stop new requests and faults, never a started one: runs say
`CHECK_DEADLOCK FALSE` because an instance that has used its bounds stops, as the
system does when no client asks for anything. The timers of `refresh` keep the
proportions of the defaults (10, 15 and 20 seconds). Symmetry is used in safety
runs only.

Fairness. `once` assumes strong fairness of a started session's steps: PostgreSQL
queues lock requests, so a lock that becomes free again and again is granted.
Crashes, refusals, retries and clients owe nothing. `delivery` assumes that time
passes, that the scheduled drain task runs (`workers/celery_app.py`) and that a
worker that drains goes on. `refresh` assumes that a started request and a started
transaction go on and that time passes; upstream calls may fail or time out at any
point. `index` assumes that workers take tasks and go on with them, that a call
which cannot succeed (the bytes are gone) fails, and that beat starts the
reconciliation again and again; nobody has to upload, delete or fail. What the
outbox gives up, and a task lost with its child process, is owed nothing.

What some properties do not show. `OrdersTrace` says that a quotation becomes one
order at most; with one quotation and one order this is shown by its theorem only.
`GrniClears` speaks of receipts at the order's cost. `SessionSurvives` speaks of runs
in which nothing failed, lapsed or was overwritten. `ChainVerifies` speaks of tenants
without audit rows from before the migration. `SearchIsSound` takes the scanner's
verdict on the same bytes to be the same at every run.

## 4. Findings

`cost_documents`: a goods receipt averages from a product it read without a lock,
so a receipt that commits in between is lost from `cost_price`
(`purchasing/service.py:104`). The average it is measured against is the code's own.
`fulfil` and the restocking credit note read the product in the same way
(`sales/service.py:501`, `:932`) and may post a cost that is out of date, without
writing it back.

Other disagreements between documents and code, and weak points of the code, met
while modelling and left without a run:

Inventory and catalogue
* `create_transfer` locks products in request order, `docs/ARCHITECTURE.md:493`
  says in id order; deadlocks are broken by PostgreSQL.
* A receipt averages over the stock of the receiving warehouse
  (`inventory/service.py:142-148`), `docs/ACCOUNTING.md:189` says per product; into
  stock of zero or below it still averages, and with a denominator of zero leaves the
  cost alone, where `docs/ACCOUNTING.md:197-198` says that the received cost is taken.
  For these reasons, and for the stale reads above, the stock at its average cost and
  the inventory account drift apart, and no property equates them.
* `docs/ARCHITECTURE.md:480-487` describes a transfer as one transaction; shipping
  and receiving are two.
* A goods receipt that read its product before its deletion posts a movement to the
  deleted product ("Products with inventory movements cannot be deleted.",
  `catalog/service.py:283-285`).
* Adjustments and opening stock post nothing to the ledger, so the inventory account
  follows purchases and sales only.

Numbers, keys and delivery
* `docs/ARCHITECTURE.md:523` and `numbering/service.py:12` say that a number is
  allocated last; `sales/service.py:656` posts to the ledger after it.
* Number, period and journal are taken in one order, the audit chain's lock is not:
  a fulfilment takes it before the period (by the flush of `_bootstrap`) and an
  issued invoice after the journal number, so the two can wait for each other and
  PostgreSQL rolls one back, against `docs/ARCHITECTURE.md:493-494` ("acquires them
  in a **deterministic global order** to prevent deadlock").
  `CirclesNeedTheAuditLock` says that this is the only way.
* A replay returns the document as it is now, not the stored response
  (`docs/ARCHITECTURE.md:550`); 409 `REQUEST_IN_PROGRESS` (`:553`) is never sent,
  since the second request waits for the first to commit.
* The checkout form draws a new Idempotency-Key per press (`pos-panel.tsx:55`), so a
  retry after a lost answer sells twice ("a client retrying after a timeout must
  not be able to pay twice", `idempotency/service.py:5`); so do the forms of sales
  and purchasing (`trading-panel.tsx:54`, `purchasing-panel.tsx:50`). In `Idempotency`
  a client draws the same or another key for each attempt, and what is shown is once
  per key.
* One slow send delays its whole batch (`outbox/dispatcher.py:107`, against its
  own docstring).

Ledger and reports
* An account with posted lines can get children, and `reverse` then refuses its
  entries (`accounting/service.py:175`, `docs/ACCOUNTING.md:42`); a privileged
  reversal may go into a closed period (`:402`, `docs/ACCOUNTING.md:269`).
* The balance sheet (`accounting/service.py:458-470`, `docs/ACCOUNTING.md:281`
  "Assets = Liabilities + Equity at a date") counts the earnings of the period of
  its date only, so revenue and expense of earlier periods leave it unbalanced
  until they are closed to equity by hand.

Sales, purchasing, VAT
* A credit note restocks at the product's current cost ("Restock uses the **original
  sale's cost**", `docs/ACCOUNTING.md:164`, `:334`), and may restock what was never
  shipped.
* `line_totals` taxes the unrounded net, its docstring says the rounded one; credit
  notes unit by unit can exceed their invoice by the rounding.
* GRNI does not clear after a receipt at another cost than the order's, for products
  that are not tracked, or by more than the rounding that `GrniClears` states
  (`docs/ACCOUNTING.md:333` says zero, and `:252` that a rounding difference is
  posted, which no code does). A bill of zero cannot be issued.
* `cancel_order` looks at what was shipped only, so an order that is invoiced and not
  shipped can be cancelled (`sales/service.py:401`).
* A period with nothing but credit notes cannot be prepared or filed, and the
  taxable sales of a return add the base of a credit note instead of subtracting it.
* `QuotationStatus.EXPIRED` is never set.

Point of sale
* The expected cash of a drawer ignores cash refunds; every tender posts to CASH.
* Refunding unit by unit can be blocked by rounding at the last unit, and can
  reverse slightly more VAT than was charged (`LedgerFollowsTills` bounds both).
* A sale with a total of zero is refused; an inactive product cannot be refunded; a
  held cart of a closed session can never be resumed.
* Checkout locks balances before products, refund the product first: the two can
  deadlock, and PostgreSQL rolls one back.

Documents
* The comment in `upload` (`documents/service.py:163-166`) says that an orphaned
  object is found by the reconciliation job; that job sweeps vectors only.
* `documents/service.py:10-12` promises that object and vectors of a deleted document
  go "guaranteed eventually". The vectors do (`DeletedLeavesNoVectors`); the object
  stays when the clean-up uses up its retries, as `workers/tasks/documents.py:257-258`
  admits, or the outbox gives its event up.
* `documents/service.py:174-175` says that a failure "cannot leave a half-indexed
  document visible as INDEXED". A reconciliation that reads between the stored vectors
  and the commit of their rows deletes them, and a second run that fails after erasing
  leaves the old status: INDEXED without vectors, in both.
* A document can stay PENDING for good: the outbox gives its event up
  (`outbox/dispatcher.py:97`), `_mark_failed` fails (`workers/tasks/documents.py:236`),
  or the child process is killed with its task.
* Re-indexing that finds malware, when the scanner has learned of it since the first
  run, leaves the old chunks and vectors searchable (`docs/SECURITY.md:188-189`); `_mark_failed` reads without a lock and can
  overwrite INDEXED with FAILED.

Access control and audit
* Each removal counts the other owners without a lock, so two owners who each remove
  their own membership, or are removed by two other members, can both go, and so can
  the last two branches ("a tenant always has >=1 ACTIVE membership with the OWNER
  role", `docs/ARCHITECTURE.md:344`). Two owners who remove each other deadlock
  instead: the audit row of each has a foreign key to the membership that the other
  has locked (migration 0005, line 46).
* A restricted member all of whose branches are deactivated becomes unrestricted
  (`get_branch_scope` returns None).
* A removed member cannot accept a new invitation (unique constraint), an expired
  pending invitation blocks the next one, and a role that any invitation names
  cannot be deleted.
* Audit rows older than the migration have no sequence number and fail verification,
  and so does every later row of such a tenant: the trigger's `ORDER BY chain_seq
  DESC` (0024:102) sorts NULL first, so each new row finds an old one as its
  predecessor and gets `prev_hash` NULL. `AuditChain` starts without such rows.

Sessions
* The refresh lock is released before the session is cleared
  (`bff-upstream.ts:107`), an abort of switch-tenant drops tokens that were already
  rotated (`:88`), a response of switch-tenant may overwrite a rotation (`:167`),
  and refresh and switch-tenant together may take 20 seconds under a lock of 15
  (`:62-65` "Keeps the critical section inside the lock's lifetime",
  `bff-session.ts:55-61`): the next request then replays the token and the session
  is revoked. `SessionSurvives` excludes these by its history variable `trouble` and
  does not cover them.

Anomaly detection (not modelled)
* Two overlapping runs of `run_detectors` can both write the alerts of a day ("a
  retried or re-triggered run does not duplicate"): the look-up takes no lock and
  no unique index backs it.

## 5. Proofs

All theorems hold for every value of the constants under the named assumptions of
the modules, which say that bounds are natural numbers, that sets of ids do not
overlap and that the settings satisfy what the code asserts when it loads.

* `Inventory_proofs` (`StockInv`): the chain and the stock bounds are not
  inductive, because a commit writes an image. The invariant adds that a balance
  row has at most one holder, that the holder's image is the committed row plus
  its own movements (`HeldRowsAreCurrent`) and that requests are well formed.
  Proved: types, `NoOversell`, `HeldRowsAreCurrent`, `LedgerAppendOnly`; the chain of
  a row's movements (`LedgerChain`) is a part of the invariant. `PostingInv` follows
  each session (`WorkInv`): what it holds of a balance row is the committed ledger and
  at most one movement more, that of a unit of work it has done, and while it ships or
  receives it holds the transfer's row in the status it found. It gives `KeyPostsOnce` and `TransferMovesEachLineOnce`.
  `HoldInv` says what a session has taken or given back of `reserved` in its image,
  and that the reservations it gives back are locked by it and ACTIVE until it
  commits; with the movements added up it gives `CachedSumsMatch`, for finitely many
  reservations.
* `Platform_proofs`, for `Numbering` (`NumberingInv`): one holder per row, the counter is one
  beyond what is issued, what is taken continues what is issued, and each plan's
  rows but the audit lock ascend in `Rank` (document or entry, period, journal).
  Refinement of `GaplessSeries` follows, and that a circle of waiting sessions has one
  that waits for the audit lock (`CirclesGoThroughTheAuditLock`): without such a one,
  the session that waits for the highest row waits for somebody who waits for a higher.
* `Platform_proofs`, for `Idempotency` (`IdempotencyInv`): a session works under a key exactly
  while it alone holds the key's uncommitted row and no row is committed
  (`WorkHoldsKey`). Refinement of `ExactlyOnce`, `KeyIffDocument` and `AnswersAgree`
  follow.
* `Platform_proofs`, for `Outbox` (`OutboxInv`): held rows are due, and their image is the row or
  the row with one attempt more; deliveries are counted against attempts and
  crashes.
* `Platform_proofs`, for `DocumentIndex` (`DocumentsInv`): the row that a connected run
  holds is there, a run past the scanner has clean bytes (`WorkFits`), chunk rows are
  of documents that exist and passed, and INDEXED has chunk rows. Each action is
  reduced to its effects on one worker, one status and the queue; `SearchIsSound`
  follows.
* `Accounting_proofs` (`AccountingInv`): a session that has locked its period or
  its original still holds it, and the check it made is still true
  (`PeriodStaysGood`, `OriginalStaysGood`); periods are disjoint. From the same
  invariant every step keeps the reports of locked periods (`LockedReportsStand`):
  a date has one period, and a locked period takes no entry.
* `Identity_proofs`, for `Access`: `ChainInv` (rows not yet committed are of one transaction,
  numbered after every committed row, and each follows from those before it) gives
  `ChainVerifies`. `AccessInv` says of each request what it may rely on while its
  transaction is open (`RowInv`: the row locks that what it is to write needs, what
  it counted, the roles its rows name, what it read for the cache), of each two
  requests that their locks do not conflict and that they write different rows
  (`PairInv`), and what is committed and cached (`TablesInv`, `CacheInv`). The
  argument about other transactions is made once, for `Commit`: the rows they rely
  on are locked against it. It gives `CacheIsCurrent`, `DecidedOnce` and
  `HeldRolesLive`. `TypeOK` of `Access` is proved and not model-checked:
  TLC cannot enumerate its sets of partial functions.
* `Identity_proofs`, for `SessionRefresh`: `RefreshInsideLock` (the lock outlives the refresh by
  `LockTTL - RefreshTimeout`) gives `OneRefreshInFlight` from the inequality
  asserted in `bff-session.ts`; `RotationInv` (row locks of the rotations, and no
  request changes the token it carries while its transaction runs) gives
  `RotatedOnce` and `RevokedMintsNothing`; `SessionInv` adds that while nothing is
  disturbed the stored token is unused or its replacement is about to be stored,
  and gives `SessionSurvives`.

* `Trade_proofs`. `Tables` (types, table constraints, and that an invoice or a bill
  carries the amounts of its quantities at the prices of its order) is inductive and
  carries the rest. On it stand `Filed` (what a filed return claims, for
  `FilingIsFinal` and `FiledMatchesClaimed`), `VatBooks` (the rows of a document are
  its tax, gathered by rate, and no two documents share a row, for
  `VatAccountsMatchRegister`), `SalesCounted` and `PurchasesCounted` (for
  `CountersMatchDocuments`), `SalesTraced` and `PurchasesTraced` (for `OrdersTrace`),
  `SalesBooked` and `PurchasesBooked` (a control account is issued less credited less
  paid, for `SubledgersAgree`; with the counters it is the sum over parties).
  `StockFollowsDocuments` is inductive with `Tables`: every request that moves goods
  moves the count of one warehouse by the quantities of the document it adds, and a
  shipment or a restocking note takes from one account what it puts on the other,
  whichever of the committed costs it has read. `GrniKept` gives `GrniClears`,
  which speaks of the cleared states only and is not inductive: in every state the
  account is the net of the issued bills less the posted costs of the receipts, and
  at the prices of the orders the receipts are worth what the lines count as
  received and the bills what they count as billed (`Valued`). Where the two counts
  agree, both sums are within half a unit of money per receipt and per bill line of
  the same value (`CostsReceived`, `NetsBilled`, `RoundedSum`, `RoundedApart`). Each
  request is first reduced to what it changes (`IssueInvoiceEffect`,
  `ReceiveEffect` and so on), so that every later invariant argues from that alone.
  Products, customers and suppliers are assumed finite in number.
* `PointOfSale_proofs`. `Tills` (types, table constraints, that a locked session or
  sale is still what its request has read, and that a sale is paid in full) is
  inductive. `Counted` adds that a closing request counts exactly the sales of its
  session, since the session's lock keeps checkouts out, for `ClosedCountIsFinal`.
  `RefundsCounted` (the counters of a sale are the sums over its returns, stock is
  what arrived less what was kept) gives `RefundsWithinSale`. `LedgerKept` gives
  `LedgerFollowsTills`: a refund pays the rounded share of a line and posts the
  rounded shares of its net and tax, which differ by one unit at most
  (`RoundSplits`). `Reversing` gives `RefundReversesSale`: there are tables of what
  was given back of each line's net and tax, each within half a unit per refund of
  the exact share (`Backed`), that add up to the accounts; a line that is all back
  has given its amount back to within half a unit per refund. No product, cart,
  cost, rate or number of requests is fixed.
* `Books_proofs`: what `Trade_proofs` and `PointOfSale_proofs` both need of `Books`
  (line totals, rounding, moving average, rows of the VAT register by rate) and what
  stock and documents are worth.
* `Sums_proofs`: sums over tables, for the modules above. Lemmas
  on `SumFunction` (one element more, one replaced, gathered by a key) are proved by
  taking a least set on which they fail (`FiniteSubsetInduction`), which needs no
  induction theorem with an operator as its parameter.

Only model-checked: all liveness properties (fairness and ENABLED are beyond the
prover), and `CostFollowsReceipts`, which is violated. Every other property of the
runs, each invariant among them, is a theorem.

## 6. Not modelled

* AI assistant: the answers of an external model change no state of this system but
  a conversation log.
* Anomaly detection, forecasting, reporting: statistics and reads over committed
  rows, with one table of alerts (section 4).
* CRM, categories, units, tax rates, customers, suppliers: edits of one row in a
  transaction of its own behind unique keys; there is no interleaving to check.
* Sign-up, login with its backoff, MFA, verification and password reset: one row
  under a row lock each; what they share with other requests, the sessions and
  tokens they revoke, is in `SessionRefresh`.
* Tenant isolation: row-level security is the database's own; each model is of one
  tenant for that reason. Creating an organization is the initial state of `Access`.
* Decimal widths, wording, layout, cookies, CSRF and encryption.
* Two first requests of a tenant that both run `_bootstrap`
  (`accounting/service.py:106`): a unique key lets one of them fail.
