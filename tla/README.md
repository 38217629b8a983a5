# Verifi: models and proofs

Verifi sells human verification to software agents. An agent pays a small x402
*entry* payment, its claim enters a queue, an associate answers in Telegram,
and the agent pays a second, larger *unlock* payment to read the answer. This
directory holds TLA+ models of that program, TLC configurations that check
them, and TLAPS proofs about them. Source paths are relative to `src/`.

Everything the program must get right is about money, people's time and
interleavings: one payment must buy one answer, no more and no less, although
payments settle on a blockchain, are reported late or twice, race with a
ten-minute sweep, an expiry loop, a Telegram bot and restarts.

## 1. Inventory

### Core API (`core/api/server.py`, `core/windows.py`)
FastAPI process over PostgreSQL. State: `verifies` (one row per chain, status
`admission_pending -> pending -> accepted|rejected|refined` or `expired`, or
`failed`), `wallet_entitlements` (free numbers and failure credits),
`settlement_journal`. Operations: `create_verify`, `record_payment`,
`entitlement_unlock`, `get_verify`, `quota`, `terms_current`, and four loops:
expiry (60 s), settlement reconciliation (30 s), webhook delivery (5 s), gas
watch. Hard: every operation is one or several transactions on a pool of ten
connections; settlement, answer, expiry and retry of the same chain come in any
order; a Telegram call is made inside the admission transaction; a restart may
fall between journal and apply. Correct means: one live chain per wallet; each
admission funded exactly once; each payment neither lost nor used twice; each
answer priced by its window; outcomes final; every chain and journal row ends.

### verify-api (`instances/verify-api`)
Express front end, no database: preflight on `quota`, x402 payment middleware,
`handleVerify`, and a capture hook that reports each settlement to the core with
up to eight attempts held in memory. Hard: a facilitator settles *after* the
handler has produced its answer; reports are lost, repeated and late. Correct
means: charged only for work that exists; every settlement is reported or alarmed.

### Routing (`core/routing/pool.py`, `core/notify.py`) and bot (`core/bot`)
The core picks the available associate with the fewest open verifies and sends
the card; the bot handles `/available`, `/busy`, `/add`, `/remove`, buttons and
replies, one update at a time. State: `verifies.associate_id`,
`telegram_message_id`, `associates`. Hard: reads outside the transaction that
acts on them, Telegram calls between statements, refused or raising calls.
Correct means: the one who answers is paid, answers reach the right chain,
nobody is assigned a card they never saw.

### Earnings and payouts (`core/payments`, `core/bot/payments.py`)
Append-only `associate_earnings`, one row per answered verify, and `payouts`;
`mark_paid` compares a balance and writes under a row lock. Correct means: one
earning per answer, never more paid than earned, per asset.

### Pricing and quotes (`core/pricing.py`, `core/fx.py`)
Terms built from configuration and exchange rates in exact decimals, stored as
quotes that stay valid for a while and are bound to a chain at admission. Hard:
rates, commissions and configuration change between quote, admission, answer and
payout; every conversion rounds. Correct means: a chain costs and earns what its
quote said; a cheaper window never becomes the dearer one; an SLA answer earns
its commission in full and never more than its unlock brings.

### Webhooks (`core/webhooks.py`)
A loop that posts each finished chain to its callback URL: three attempts, with
a minute and five minutes between them. State: four `callback_*` columns. Hard:
the post precedes the record of the attempt, so a crash between them repeats it
uncounted; a pass works through rows it fetched together; an exception in one
row's handling ends the whole pass, which has no order. Correct means: nobody is
woken early or after the end, a repetition has a lost record to explain it, and
every callback ends.

### Migrations (`core/db/migrate.py`) and the core process
The core container runs the migrations and then serves; it is started again
whenever it stops, and somebody may run the migrations by hand. State: the ledger
`schema_migrations` and a session-level advisory lock. Correct means: each file
once, in order, whoever dies where, and nobody serves on an incomplete schema.

### On-chain check and the operator's alerts (`server.py`, `core/wallets.py`, `core/audit.py`)
After the reconciliation a second pass asks the chain about applied journal rows,
ten at a time, stores the verdict and alerts when a transaction is unknown. Three
other loops watch the gas wallet, the exchange rate and the tokens' metadata and
alert at most once an interval, which they read back from `audit_log`. Hard: the
chain changes between the question and the verdict, the verdict commits before
the alert, the audit is best effort, everything may be restarted, and an exception
ends the loop that watches the metadata. Correct means: verdicts are founded, every
row gets one, an alert neither repeats within its interval nor, while its loop lives,
stays away.

### Others
MCP proxy (`core/mcp/server.py`), dashboard (`core/api/dashboard.py`), audit log,
deployment scripts, the placeholder instance `ask-this-finn`.

The hazards of this code, each at its line, are listed in `PROJECT.json` with
the properties that would catch them.

## 2. Modules

| Module | Models | Checked | Proved |
|---|---|---|---|
| `VerifyChain` | life of a chain in the core, one action per transaction | two passing runs, one divergence | yes |
| `PrepaidAnswers` | what the core promises for an entry payment | refined by `VerifyChain` | refinement |
| `AtomicAdmission` | what it promises about admissions: single steps on the books | refined by `Admission` and `VerifyChain` | both refinements |
| `PaidGates` | what verify-api and the core agree on about the two payments of a chain | refined by `VerifyChain` and `PaymentGate` | both refinements |
| `Outcomes` | what the core promises its associates: an answer and what it earns | refined by `Routing` and `Earnings` | both refinements |
| `Admission` | `create_verify` statement by statement, concurrent requests | one passing run | yes |
| `Routing` | admission transactions against the bot and expiry | two passing runs | yes |
| `PaymentGate` | a wallet's requests through verify-api, from preflight to capture | one passing run, two divergences | yes |
| `Pricing` | conversion, rounding, shares | through `Earnings` | yes |
| `Earnings` | quotes, binding, prices, earnings, payouts, while rates and settings change | one passing run | yes |
| `Webhooks` | the delivery loop | through `CoreProcess` | yes |
| `Migrations` | `migrate()`, any number of runners | through `CoreProcess` | yes |
| `CoreProcess` | the core container: migrate, serve, stop, start again | one passing run | yes |
| `ChainWatch` | on-chain check of the journal, throttled alerts | one passing run | yes |
| `VerifyChainProofs`, `PrepaidAnswersProofs`, `AdmissionProofs`, `RoutingProofs`, `PaymentGateProofs`, `EarningsProofs`, `CoreProcessProofs`, `ChainWatchProofs` | | | |
| `MC*` | small instances for TLC | | |

`VerifyChain` is the centre. The other modules open up what it takes as one
step: `Admission` its `Create`, and shows that the transaction's statements
under the wallet lock amount to one step on the books: both modules implement
`AtomicAdmission` (`AdmitsAtomically` in each); `Routing` the part of `Create` and of
`ApplyEntry` that chooses an associate, and who performs `Answer`; `PaymentGate` the
side of verify-api that `VerifyChain` takes as `Settle` and `JournalReport`: its
`SettlesAsCoreExpects` is what `Settle` is guarded by, seen from the requests that
bring the payment about, and both modules implement `PaidGates` (`OpensPaidGates` in
each); `Earnings` the terms that `Create` binds and what `Answer` makes of them:
`Routing` and `Earnings` implement `Outcomes` (`AnswersEarnOnce` in each), which ties
who answers to who earns; `Webhooks` what follows an outcome, and `ChainWatch` what
follows `ApplyReport` and `Reconcile`.
`CoreProcess` composes `Webhooks` and an instance of `Migrations` in one process.

In every module an operator named `Op_Variant`, written next to `Op`, is a
faulty variant that no action uses. It stands for a plausible mistake in the
code; substituting it for `Op` makes the property named in `PROJECT.json` fail,
which shows that the property can fail.

### VerifyChain
State: the columns of `verifies` are functions on row ids (`status`, `agent`,
`entrySource`, `terms`, `createdAt`, `admittedAt`, `respondedAt`,
`appliedWindow`, `resultUnlocked`, `paymentTx`, `unlockTx`), the entitlement
table is `granted`, `creditUsedBy` and `freeUsedBy`, the journal `journal` and
`attempts`. `payFor` and `payKind` are what the blockchain knows.
`accepted`, `rejected` and `refined` are one status, `answered`.

| Action | Code |
|---|---|
| `CreatePaid`, `CreateFree`, `CreateOnCredit` | `create_verify`, server.py:852-1053 |
| `Settle` | the facilitator (external): an entry once its chain exists, at most once per chain; an unlock whenever a check found the chain answered, even if it was unlocked since |
| `JournalReport`, `ApplyReport`, `ReportFails` | the two transactions of `record_payment`, and the second one rolling back |
| `SelectUnapplied`, `Reconcile`, `ReconcileFails` | `_reconcile_settlements_once` |
| `CoreCrash` | a restart: calls in flight are forgotten, tables stay |
| `Answer` | `record_answer`, with deadline check and window |
| `ExpireStale` | the whole pass of `_expire_stale_once`, one transaction |
| `UnlockFree` | `entitlement_unlock` |
| `Tick` | the database clock |

`now()` in PostgreSQL is the start of the transaction; an action takes it as
the current instant. The order of `FOR UPDATE` locks is the order of actions.
Legacy v2 chains appear only as free chains: those bind no quote, and expire
after the fixed default of the column.

### PrepaidAnswers
A payment is `unpaid`, `queued`, `owed` or `spent`; it may lapse and be queued
again any number of times and be spent once. The refinement mapping
(`Holder`, `TokenOf`, `OwnerOf` at the end of `VerifyChain`) follows the money:
from the chain the payment admitted, to the credit that chain's expiry minted,
to the chain that credit is funding at the moment.

### AtomicAdmission
The books are each row's status, wallet and funding, the free uses, the credits
and what each credit funds. An admission is one step, taken while the wallet has
nothing live and something to fund it with; `Lapse` is the sweep and the expiry
of any number of chains at once. `Admission` maps a request to its row once it
has committed (`OwnerOf`); `VerifyChain` has one row per chain and forgets which
number of the allowance a chain holds (`FreeHolders`). The daily budget, which
no lock protects, and the queue cap, which is counted before the transaction,
are not part of the promise.

### Outcomes
A chain waits, enters the queue, and leaves it with an answer or expires; the
associate who answers has an earning from the same step on, and nobody else ever has
one for that chain. `Routing` maps a waiting admission and a verify in the queue,
`Earnings` everything before the binding to `"waiting"`; both map their ledger rows to
pairs of a chain and an associate, leaving out the amounts.

### PaidGates
What is left of a chain without requests, captures, reports and journals: its
status and funding, what was charged for it, and which settlement opened its
entry and its unlock. `Charge` happens only for a gate that is due, for several
requests at once when verify-api stops while it waits for them, and for an entry
once per chain; `OpenEntry` and `OpenUnlock` need a charge for that gate of that
chain and happen once. An unlock that is charged and never let through is allowed:
the code does charge an unlock twice (divergence 2). In `VerifyChain` the charges
are `payFor` and `payKind`; in `PaymentGate` they are the `kind` and `target` of the
requests in `charged`.

### Admission
Each request is a process with a program counter naming its next SQL statement.
Reads see committed rows only; a request's own row, free use or credit appears
at `Commit`. `lock` is the advisory lock, released by commit, rollback and
crash. Statements before the transaction each take a pooled connection for
their own duration, the transaction holds one to its end; `ConnectionFree` is
the pool. The daily budget's clock is `Midnight`: a use counts for the day of its
commit, in the code for the day its transaction began, which the same bound covers.
A restart needs no bound: it drops
requests for good. `Settled`, `Answered`,
`Abandoned` and `Expired` are the other writers of the rows the requests count.

### Routing
An admission transaction runs `Select`, `Assign`, `SendCard`,
`CommitAdmission` and may be rolled back with the card already delivered. The
`associates` row it stamped stays locked until its end (`RowFree`). The bot is
sequential (`build_application` enables no concurrent updates): one handler at
a time, its statements separate steps, each committed at once. `Expire` and
other admissions run between any two of them. Instance filter and
`last_assigned_at`, which only narrow or break ties among equals, are left
open. Telegram delivers, refuses, or raises after delivering.

### PaymentGate
Each request of one wallet is a process; an entry's chain has its number. `pc`
is the place in the handlers: `preflight`, `gate` (the x402 middleware),
`x402` and `entitlement` (`handleVerify` in either admission mode), `free`
(the call to `entitlement-unlock`), `settle` (the answer is buffered, the
facilitator is asked). Every core call may be refused, fail, or do its work and
lose its answer; whatever ends a request before `settle` ends it unsettled.

| Action | Code |
|---|---|
| `PreflightEntry`, `PreflightUnlock`, `UnlockFree` | app.js:158-253, with `proveWallet` (proof.js) |
| `GateEntry`, `GateUnlock` | the middleware's price functions (terms.js) and the unlock handler (app.js:375-397) |
| `Admit`, `RefuseAdmission` | `handleVerify`, verify.js:388-489 |
| `Close`, `Settle`, `Attempt` | verify.js:319-377; the facilitator is external |
| `Restart` | timers and requests are in memory only |
| `Requote`, `Reconcile`, `HumanAnswers`, `Abandon`, `Expire` | the core, as far as its answers tell it apart |

That a failed settlement names no transaction is the x402 middleware's part
(external): `recordSettlementOnFinish` reports any transaction the header names
and looks at no success flag.

`Connected` follows node's http (external): `finish` and `close` are emitted
once, and a response whose connection is closed is never finished.

### Pricing and Earnings
`Pricing` is the arithmetic, in integers: cents, atomic units, a rate scaled by
`RateScale`. `Earnings` follows a chain from the terms it is quoted (`Ask` reads
the commission, `Quote` the rate, as `terms_current` does) to its binding
(`AdmitPaid`, `AdmitOnCredit`), its answer, its ledger row and the payouts,
while `PublishRate`, `SetCommission` and `Restart` change what prices are made
of. A quote is the set of its terms, one per asset. Which chain is answered in
which window, or expires, is left open: `VerifyChain` has the clock. `Restart`
starts the core with another valid configuration; requests in flight are lost,
quotes and chains are rows and stay. The commission has two ceilings: the
dashboard takes the SLA price of the running core, the bot the one in its own
environment (`BotCeiling`), which deploy/docker-compose.yml leaves at its default.
`MarkPaid` is one step: the bot handles one command at a time, the associate's row
is locked besides, and answers only add to a balance.

### Webhooks, Migrations and CoreProcess
A chain's `callback_delivered`, `callback_attempts` and `callback_last_attempt`
are `delivered`, `attempts` and `waited` (the ticks since); `batch`, `at`,
`chain` and `outcome` are the local state of a pass. `raising` holds the chains
whose URL raises when it is taken apart.

| Action | Code |
|---|---|
| `Fetch` | the unordered `SELECT ... LIMIT 10`, webhooks.py:199-212 |
| `Resolve` | `_resolve_pinned`, webhooks.py:107-145 |
| `Raise` | what escapes it: `parsed.port` (121), a host name `getaddrinfo` cannot encode (126) |
| `Post`, `Record`, `Exhaust` | webhooks.py:148-162, the UPDATE of 164-175, that of 187-191 |
| `Fail` | an exception of the database, or the end of the process, between any two of them |
| `TakeLock`, `Check`, `Apply`, `Unlock`, `Stop` | migrate.py:24-54 |
| `CoreStops`, `LoopStep`, `SchemaStep` | the container's command (deploy/docker-compose.yml:103) and `lifespan` |

`posts` and `unrecorded` are history: what was sent, and how often the record of
it was lost. `changed` says which files' changes are in the database; it starts
anywhere, since older databases had files applied manually. Of a migration's SQL
nothing else is modelled.

### ChainWatch
`applied` and `verdict` are columns of the journal, `onChain` what Base knows. A
pass is `Fetch`, `Ask`, `Store` and `Alarm` (server.py:459-510); each alert's loop
is `Observe`, `Read`, `Record` and `Send` (`_alert_once_per`, and `_gas_watch_once`,
which does the same). `age` is the age of the newest row of the alert's event in
`audit_log`, up to the interval; the rows outlive `CoreStops`, the loops do not.
`Record` may store nothing (`audit()` swallows its exception) and `Send` may
deliver nothing. `noticed`, `missed`, `told` and `repeats` are history.

What an exception of `Read` or `Send` does is `Raise`: the gas and the exchange rate
loop log it and go on, `_token_metadata_loop` makes the call outside its try
(server.py:673), so that its task is dead until `CoreStops`. `unguarded` says which
alerts are the token loop's; like `raising` of `Webhooks` it is chosen at the start
and does not change, so that one alert of either kind can be checked in one run.

## 3. Runs

| Run | Instance | Shows |
|---|---|---|
| `chain_paid` | 1 wallet, 3 chains, 2 settlements, 1 restart | safety of payments, credits and unlocks; funding; journal against gates; both refinements |
| `chain_live` | 1 wallet, 2 chains, a free number, quotes with and without grace, 1 restart | chains resolve, journal drains, boundary instants, an allowance that is returned and taken again |
| `chain_settlement_lost` | 1 wallet, 2 chains | divergence, below |
| `admission_race` | 3 requests, 2 wallets, 2 connections, 1 free place a day, any restarts | no interleaving beats the lock; the daily budget is exceeded by less than the pool; requests end |
| `routing_safe` | 2 verifies, 2 associates, 3 messages each | assignment, replies, earnings |
| `routing_live` | 2 verifies, 1 associate | nobody waits for ever |
| `gate_safe` | 3 requests, 2 quotes, 1 attempt per capture, 1 restart | charged only for a row of the core bound to the quote that was paid; gates and journal rest on charges; results leave only when paid |
| `gate_unlock` | 3 requests | divergence |
| `gate_abort` | 2 requests | divergence |
| `earnings_safe` | 3 chains, 1 associate, 2 configurations, 2 rates, 2 commissions | terms outlive what they were built from; fair shares; payouts within earnings |
| `core_process` | 2 chains with any URLs, 2 runners, 2 files, 1 fault, 1 stop | what is posted twice, early or never; migrations alone and in order |
| `chain_watch` | 2 journal rows, a pass of one row, 1 alert of either kind, interval of 2 ticks, 2 faults | founded verdicts, no row starved, one alarm for each missing row, throttle, a dead loop |

Bounds. Three chains and four clock ticks let a paid chain expire, its credit
fund a second chain, that one expire and the credit fund a third; two
settlements let one chain be charged twice for its unlock or two chains be paid
at once. `MaxAttempts` is 1 or 2 instead of 8: it only sets how many failures
precede the same terminal state. Windows are one and two ticks, so that every
boundary instant and the instants on both sides exist. `chain_live` admits chains
until tick 2, when a free chain of tick 0 can have expired, so that its number is
taken by a second chain while the first row is still there. Three requests let an entry be followed by two unlocks of its chain, or
two entries compete for an entitlement or a queue place after an unlock. Two
quotes are one that was paid and a newer one. Two pooled connections
for three requests make the pool a bottleneck; the real ratio, ten to many, has
the same shape; two wallets and one free place a day let both take it at once,
and a third request try a place already exceeded. Three messages per verify allow a lost card, a second card and
a prompt. `earnings_safe` scales
rates by 10 and cents by 3 instead of 10^8 and 10^4, so that every conversion
and every share leaves a remainder; its two configurations, rates (one above,
one below parity) and commissions (one above the lower SLA price) make every
later value differ from the one a chain was bound to; one associate suffices
for a property stated for each, two assets for mixing them. In `core_process` a retry waits for more than no
tick and more than one, the smallest backoffs that tell the two apart; two chains
fill one batch, so that one of them is always handled on what was read before the
other. The limit of the unordered SELECT therefore leaves no due row out in this run:
a third chain puts it beyond the five minutes a run may take. That what a
batch holds stays due is proved for any limit (`BatchStaysDue`); that the turn of a row
left out of a batch comes is not shown. In `chain_watch` the limit is one row for two, so that a pending row stands
before the other in every pass; two faults let a lost row of `audit_log` or a lost
message be followed by a restart, and a dead token loop by the restart that
revives it. Only `admission_race` has
two wallets: what others would show of funding, allowance, journal and active chains
is proved for any number (section 4). The type invariants of `VerifyChain`, `Admission`, `Routing`, `PaymentGate`,
`Earnings`, `Webhooks` and `ChainWatch` are proved and not run.
Symmetry is used only where no liveness is checked. Deadlock is not
checked: an instance whose chains, settlements, requests and messages are used
up stops.

Fairness. The clock advances and the loops of the core take their steps
(`asyncio` tasks that sleep and run; an exception is logged and the loop goes
on, except in the token loop of `ChainWatch`, which an exception ends): weak fairness on `Tick`, `ExpireStale`, `SelectUnapplied` and on each
selected row being reconciled or failing. Agents, facilitator, associates and
verify-api owe nothing. In `Admission` a request whose next statement can run
runs it, weakly fair, because statements return, the pool and lock waits are
first come first served and Telegram calls have a timeout. In `Routing` a row
lock may be free only now and then, and PostgreSQL grants it in order, hence
strong fairness on the statements. In `CoreProcess` Docker starts the container
again and the loop sleeps and runs for ever; a runner by hand need not start, but
one that runs takes its steps. Nothing is assumed of the order of a pass or of the
agents' servers. In `ChainWatch` the pass and the loops that are not dead run, time goes on, and a
transaction is mined or dropped in the end; neither the chain nor Telegram is
assumed to answer, except that the faults are finitely many, and nothing is assumed
to start the core again.

### Divergences found
1. `SettledEntryNeverLost`: `record_payment` promises that a settled payment is
   never lost; one whose application keeps failing until the ten-minute sweep,
   or for eight attempts, ends in neither an admission nor a credit.
2. `CompletedNotChargedAgain`: docs/API.md says a completed chain returns its
   result again without a further charge; whether it is completed is read from
   the core's row, which lags the answer by the capture, so that a second
   request in between is sent to payment.
3. `AbortLosesNoRecord`: the capture is meant to survive an aborted connection;
   its hooks are set only after the core has answered, and a connection closed
   by then fires neither. The charge is not reported and no alert is sent.

More behaviours, not stated as properties: docs/DECISIONS.md says the queue cap
is enforced inside the admission transaction, but the code counts before it
(server.py:790), so that wallets that count together exceed it; a callback URL
that raises (a port that is no number, a name IDNA refuses) is never counted as an
attempt, ends every pass that comes to it, and may keep the rows behind it waiting
for ever, which is why `CallbacksEnd` excludes it; a callback whose host does not
resolve at one moment is given up after that one attempt (`final` of
webhooks.py:163), although three are documented; a transaction "cannot sit in the
ledger unnoticed" (server.py:454-457), but the verdict is stored before the alarm
and no pass comes back to it, so one exception takes the alarm with it
(`MissingToldOnce` counts such a row as `missed`, and says that no other way to lose
or repeat an alarm exists); core-api "alerts the operator" of a token whose metadata
does not match (docs/WALLETS.md:164-166) and is to check it daily (server.py:657), but
the alert is made outside the loop's try (server.py:673), so that one database or
Telegram exception ends the checks until the core starts again, while the row it may
have left in `audit_log` mutes the alert for the rest of its day (`OperatorTold` has a
dead loop as its exception); a settlement is captured whenever the header names a
transaction, and `verify_transaction_onchain` asks whether it was mined and not
whether it succeeded (core/wallets.py:201-210), so that the journal is as right as the
middleware's header; `FREE_DAILY_MAX` is described as a
platform-wide cap (core/config.py:52-54) but counted under a per-wallet lock
(server.py:927), so two wallets both take the day's last free place:
`BudgetNearlyKept` says how far the cap may be exceeded, by fewer than the pool's
connections; `_fx_once` alerts that without a rate EURC still works, but
`build_terms` refuses a partial offer, so nothing is quoted at all unless EURC
is the only asset; the commission is capped at the SLA price when it is set (by the bot, at the SLA price
of the bot's environment) and not compared again when a core starts with a lower one, after which an answer
earns more than its unlock brings; core/routing/pool.py says one query
keeps concurrent verifies from double-booking, but the query counts committed
rows and locks nothing, so two open admissions select the same associate; a
settlement alert is also sent for settlements that failed, since the capture
cannot tell them from those it could not see; in
`/available` a card Telegram refuses leaves its verify assigned to an associate
who never saw it, until it expires; and after Refine has sent its prompt, a
reply to the original card finds no verify and is dropped silently.

## 4. Proofs

All theorems are for arbitrary constants under the named assumptions of the
modules: quotes have a positive SLA window and a longer grace window or none
(`load_config` refuses others), configurations are those it accepts, scales
and rates are positive, `Null` is outside the other sets, bounds are
naturals, and the sets whose cardinalities are compared are finite.

*VerifyChain.* The safety properties are not inductive: `ReleasedOnlyWhenPaid`
needs to know that a transaction standing on a gate was paid for that gate,
`PaymentsConserved` that credits and expired paid chains correspond one to one.
`IndInv` adds `RowsSound` (the columns of a row agree), `GatesSound` and
`JournalSound` (gates and applied journal rows are each other's inverse),
`CreditsSound` and `FreeNumbersSound` (an entitlement has at most one consumer,
that is live or answered, of the same wallet, and every entitlement-funded chain
has one). `VerifyChainProofs` shows that `Init` establishes `IndInv` and every
action preserves it, one lemma per action, and derives eight theorems from it,
among them the action property `DecidedOnce`.

*Refinement.* `PrepaidAnswersProofs` proves `Spec => PaymentBuysOneAnswer`:
each step maps to a `Record`, `Spend`, `Lapse` or `Requeue` step or a stutter.
`ExpireStale` is the interesting case: it lapses all payments whose holder is
overdue, directly or through a credit, in one step. `PaymentsConserved` and
`FreeAllowanceKept`, the two counting properties, follow from `IndInv` by
exhibiting bijections and injections, with the library's cardinality theorems.
`EntriesPlaced` is what stands of the promise that divergence 1 refutes: with
`EntriesSound` (an entry is charged once per chain) a settled entry has its chain
in the queue or answered, or is the credit of its expiry, or its chain still waits,
or the sweep has failed it; there is no other way to lose one.

*Admission.* `IndInv` says that a lock's holder is the one request past
`TakeLock` for its wallet (`LockProtects`), so that what it has counted stays
true until it commits: nobody else inserts for the wallet, and settlements,
answers and expiries only ever make the counts smaller or credits more
(`CreditHeld`, `AllowanceHeld`). `OneActivePerWallet` follows. For the refinement
two facts about the books are needed as well: what is about to commit has chosen
its funding (`CommitsFunded`), and an entitlement in use is held by a chain that
is in the queue or past it (`UsesHeld`), so that what a chain gives back when it
expires is what the abstract `Lapse` gives back. `AsIfAtomic` then shows that
`Commit` is an admission of `AtomicAdmission` and every other statement a stutter;
`EntitlementsKept` states for all requests and wallets what `AdmissionsArePaid` and
`FreeAllowanceKept` state of `VerifyChain`. No lock protects the daily budget, and
`BudgetHeld` is what is left of it: the day's uses and those that open transactions
count on are together below budget plus pool, because every transaction holds a
connection, and a use is counted on only while the budget is open. `BudgetKept`
follows, for any number of wallets. `WaitingEnds` is the part of `RequestsEnd` that
a proof can reach: a lock's holder is past every wait (`LocksHeld`), so a request
that waits for a connection or a lock waits, in the end, for one that can go on. With
it a circle of waiting requests is excluded for every number of requests, wallets
and connections; that those who can go on do so is fairness, and stays with TLC.

`PrepaidAnswersProofs` proves the second refinement of `AtomicAdmission`, that of
`VerifyChain`, from the invariant of section *VerifyChain*. What `Admission` proves
of statements and locks is thereby what `VerifyChain` assumes of `Create`, and the
two meet in one specification instead of in prose.

*PaymentGate.* `SettlesAsCoreExpects` speaks of the state at the settlement,
several steps and a round trip after the request was admitted. `ChargesDue`
carries it there: an unlock at its gate names an answered chain that is not a
free one, and nothing in the core takes that back; an entry waiting for its
settlement has its row, bound to the quote it was signed for. It says the same
of everything already charged, so that a report that comes late, repeated or
after a restart still lands on its own gate (`GatesRestOnCharges`).
`CapturesSound` accounts for every capture that has ended or has not begun, from
which `ChargesAreFollowed` follows; the one silent case is visible in it, the
client that was gone when the hooks were set.

*PaidGates.* `GatesOpened` of `PrepaidAnswersProofs` maps a report or a repair to
`OpenEntry` or `OpenUnlock` the first time and to a stutter ever after, because a
gate that stands on a settlement is never waiting any more. `GatesOpened` of
`PaymentGateProofs` does the same for requests; it needs, besides `IndInv`, that a
free release is still due when the call for it is made and that an opened gate stays
open (`GatesSound`). The step with several charges at once is `Restart`: every one
of them is due by `ChargesDue`. What `VerifyChain` assumes of the facilitator and
of verify-api is thereby what `PaymentGate` does, up to the same specification.

*Pricing and Earnings.* The first lemmas of `EarningsProofs` bound a conversion
(up, by less than a cent) and a share (down, by less than an atomic unit) for all
amounts and scales; from them follows what each window's price is worth when
a quote is built (`TermsSound`). `IndInv` carries that from the quote to the
binding and the answer (`QuotesSound`, `PricesSound`), so that a share computed
much later, under other rates and settings, is still a share of the price that
was quoted (`EarningsSound`). `ShareIsFair`, `WindowsAreOrdered`, `BoundForLife`
and `CreditKeepsAsset` follow. `PaidWithin` is about a sum over a ledger that only
grows. The sum is a fold, of which the prover knows no more than its recursive
equation, and an induction over finite sets cannot be instantiated; the lemmas take
a smallest counterexample instead, a subset at which the equation of the sum
first fails, and derive from its smaller subsets that it does not. What is
needed of the sum is then little: adding a row with an amount adds that amount, so
that a balance compared under the row lock stays a lower bound while other chains
are answered.

*Routing.* The properties speak of rows, but they hold because of where the bot
and the open admissions are. `QueueHeld` and `HandHeld` say what the bot's handler
still knows of the verify it read some statements ago; `CardsFirst` and
`LastSent` what an admission has sent before it may commit; `MessagesMapped` that
the message a reply is resolved through is in its assignee's chat; `AnswersOwned` and
`AnswersBooked` tie outcome, answerer and ledger together. With
`AdmissionsOpen` they are inductive, and the properties of the run follow.
`AnswersEarn` is the refinement of `Outcomes`: of all the statements of the core and
of the bot only a commit, an expiry and a resolution the statement itself has found
pending change status or ledger, whatever the handler had read before. `AnswersEarn`
of `EarningsProofs` is the other one; there a restart only moves what still waits.

*The core process.* `BatchStaysDue` is the point of `Webhooks`: only the pass
writes callback columns and waiting only adds to what is due, so what a pass read
stands until it comes to the row. `PostsCounted` balances posts against recorded,
unrecorded and current attempts. `LockProtects` gives `Migrations` its order: up
to the file a runner is at, the ledger is complete, and only the lock's holder is at
one. Every step of the process is a step of the loop or a stutter, by construction,
so that what is proved of the loop holds of it under every start, stop and migration.

*ChainWatch.* `AnswerStands` carries an answer over the gap to the verdict: what
was mined stays mined. `ThrottleHolds` says that a loop past its read has found no
recent row and that a fresh row has no message after it yet; `AlertsThrottled` is not
inductive without it. `ToldOnce` needs `AnswerStands` as well: a row is stored only
while it has no verdict, so that a missing row is in the hands of the pass, was told of
once, or had its one message lost.

Only model-checked: the liveness properties (`ChainsResolve`, `JournalDrains`,
`RequestsEnd`, `NobodyWaitsForEver`, `CallbacksEnd`, `JournalChecked`,
`OperatorTold`), which the prover does not handle under
fairness. Every invariant and every action property of a passing run is proved. Some theorems
are about properties that no run repeats; TLC found each of them to hold on the named
instance before it was proved: `OpensPaidGates` of `PaymentGate` (`gate_safe`),
`AdmitsAtomically` of `VerifyChain` (`chain_paid`, `chain_live`), `AnswersEarnOnce` of
`Earnings` (`earnings_safe`), and the invariants `EntitlementsSound` and
`WaitingEndsSomewhere` (`admission_race`) and
`SettledEntriesPlaced` (`chain_paid`). `OutcomeKept` follows from `AnswersEarnOnce`
and is proved as well.

## 5. Plan

1. `VerifyChain`, `PrepaidAnswers`, `PaidGates`, proofs: done.
2. `Admission`, `AtomicAdmission`, proofs: done.
3. `Routing`, `Outcomes`, proofs: done. Left: registration and payout settings of associates.
4. `PaymentGate`, proofs: done. Left: the cold probes.
5. `Pricing`, `Earnings`, proofs: done. Left: v2 paid chains and the opening
   balances of the migration.
6. `Webhooks`, `Migrations`, `CoreProcess`, proofs: done.
7. `ChainWatch`, proofs: done.
8. `Quotes`: the reuse of a stored quote under its advisory lock, with half its
   validity left, against the time a payer takes to sign.
9. Legacy v2 chains.

## 6. Not modelled
The MCP proxy keeps nothing between calls, retries nothing and makes one request
to verify-api per tool. The dashboard reads; its one write, the commission, is in
`Earnings`. Of the audit log only the rows that a throttle reads are modelled; the
others are read by no decision, and the daily DELETE of old request audits is one
statement. Also left out: formatting of cards and JSON views, input validation,
the instance lookup, the stored quotes' reuse, paid v2 chains, which the current
front end cannot create, the deployment scripts and `ask-this-finn`, a placeholder.
Audit writes that fail after a commit matter only in the reconciliation pass, where
they count as a failed attempt of a row that is already applied; `attempts` of an
applied row is read by nobody.

## 7. Running
`tlc -config <cfg> <module>` for each run in `PROJECT.json`;
`tlapm <module>Proofs.tla` for the proofs.
