# pipayment in TLA+

A TLA+ development of the pipayment gateway: specifications of the parts of the
NestJS back end (`src/src/`) that keep money, stock, accounts and permissions,
TLC configurations that check them on small instances, and TLAPS proofs of the
properties that matter most for instances of any size.

## 1. The system

The back end is one NestJS application on Node 20. It keeps its state in
PostgreSQL through TypeORM repositories and in a Redis cache; `kubernetes/deployment.yaml`
runs **three replicas**. Three facts make almost all of its behaviour hard:

* A request handler is a sequence of `await`s. At each of them every other
  request, on the same replica or another, may run. Nothing is locked, and with
  one exception (`OrderService.create`) nothing is in a database transaction.
* `repository.save(entity)` compares the entity that was loaded, perhaps long
  ago, with the row as it is now and writes every column that differs. A stale
  entity silently undoes what others wrote; a loaded one-to-many collection
  takes the parent from the children that are not in it.
* The cron jobs (`@Cron`) fire in every replica at the same instant. Retries of
  outgoing webhooks are timers in a replica's memory.

| component | state | operations | talks to |
|---|---|---|---|
| payments and ledger | `payments`, `transactions` | create, updateStatus | everybody saves payments through it |
| refunds | `refunds` | create (check, save, transaction, status), webhook status | payments |
| payment processor | `metadata.piPaymentId` | processPayment with its rejection, error and catch paths | fraud check, Pi network, mail |
| inbound webhooks | – | payment, refund and dispute events | payments, refunds, disputes |
| disputes | `disputes` | create, updateStatus | payments |
| outbound webhooks | `webhook_endpoints`, `webhook_deliveries`, timers | create/delete endpoint, notify, deliver, retry | merchants' servers |
| settlements | `settlements` | midnight run, hourly check, create | payments, mail |
| subscriptions | `subscriptions`, `subscription_payments` | create, updateStatus, hourly run, billing dates | payments |
| marketplace orders | products, orders, items | order, inventory, update, deactivate | payments |
| marketplace sellers | sellers, splits | add, remove, commission rate, payment with its splits | payments |
| system configuration | `system_configs`, cache entry, one copy per replica | getConfig, setConfig, updateConfig, loadConfig | cache |
| merchants and KYC | `merchants` row (balance and settings share a column), `kyc_verifications` | balance, verification, suspension, settings, events, profile, KYC review | API keys through the shared save |
| API keys | `api_keys` | create, deactivate, rotate, KYC approval's save | merchants |
| accounts | `users`, `merchants` and their addresses | register, createAdmin, deleteAdmin, forgot and reset password, creation of a merchant, profile | merchants, API keys |
| customers, invoices, links, templates | a table each | create, default payment method, invoice number, deactivate, update | – |
| fraud prevention | `risk_scores`, `fraud_alerts` | amount, velocity and history rules, alerts, verdict | payment processor |
| HTTP layer | rate counters and answers in Redis | rate limits, answers by method and query string, failure filter | every handler |
| batches, buttons, QR codes, digital products, notifications, dispute trail, monitoring, analytics, backup, i18n, SDKs | their rows | see §8 | – |

What makes each component correct is stated with its module in §3.

## 2. How the code becomes TLA+

*An action is the code between two `await`s of one handler*; where a handler is
between them is a program counter (`pc`, `step`, `at`). A *worker*, *request* or
*call* is one handler in flight on some replica. What it has loaded is kept as
it was loaded (`frame.row`, `read`, `run.found`), and `save` writes that, so
lost updates and orphaned children are behaviours of the models and not remarks.
Every `await` may also fail: the request ends and what it has saved stays
(`Abort`, `Fails`, `Crash`, `RunFails`, `AccountCallFails` ...).

Names, messages, amounts of fees, mail and logging are left out. Ids, secrets
and contents are model values; `Absent` declares the one that stands for a
missing value. *History variables* (under the comment `History`) are read by no
action; they record which overlap or crash has happened, so that a property can
say *unless* exactly as weakly as the code needs. Operators marked `Mutant` are
slips a programmer could make in the definition that follows; replacing the
definition by its mutant must make the property they were written for fail,
which shows that the property depends on the code. Type invariants are not
checked by the runs: they are proved where a module has proofs (§6).

## 3. The modules

**PaymentLedger** (`payments.service`, `transactions.service`, `refunds.service`,
`payment-processor.service`, the inbound half of `webhooks.service`). State: the
three tables, the sum of each payment's refunds, the transactions that have lost
their payment, what Pi has answered, and per worker the next await and its
locals. Correctness: refunds never exceed the payment unless two of them passed
the amount check together (`RefundsWithinPayment`); only completed payments have
them (`RefundsFollowCompletion`, which the runs check within `RefundsKeepBook`);
REFUNDED is only written when the whole amount is refunded
(`RefundedMeansCovered`), and then is written (`FullRefundMarksPayment`); every
row has its transaction, which keeps its payment (`LedgerComplete`); an answered
Pi payment is recorded (`PiPaymentRecorded`).

**RefundBook** is what refunding promises, written as if one clerk kept the book:
a payment is entered once with an amount that stays, money goes back only on a
payment that was paid, and only as far as the amount reaches unless two refunds
were looked at side by side. `RefundsKeepBook` is the refinement of it, by the
ledger alone and with disputes: the amounts are those of the payment rows, the
paid payments those ever COMPLETED.

**Disputes** extends the ledger with `disputes.service`, which writes payments
through `updateStatus`: a resolution reaches the payment before the dispute
(`ResolutionReachesPayment`), a disputed payment gets no refund (`NoRefundInDispute`).

**WebhookDelivery** (`webhooks.service` outbound, `webhook-delivery.service`).
State: endpoints, one loop per notification, one chain of attempts per
notification and endpoint. An acknowledged event is not sent again
(`NoRepeatAfterAck`); a failing endpoint does not keep the others from being
tried (`EveryTargetTried`); an older update after a newer one comes only from a
retry or from overlapping loops (`LateOnlyByRetry`); every update is acknowledged
at last unless a crash or failed save loses it (`EventuallyAcked`).

**Settlements** (`settlement.task`, `settlement-schedule.service`,
`settlement-processor.service`, `settlements.service`). Time is in ticks, a day
has `DayLength` of them, so that midnight and the last instant of a day are both
there. **OnceOnly** is the abstract promise of a periodic job: an item falls due
and is paid at most once. `SettlesOnceOnly` is the refinement: with `times` the
number of settlements of a payment that the code's two known reasons (a race of
two runs, an instant that two periods share) do not explain, `Settlements`
implements `OnceOnly`. A payment's status goes from any to any, as `updateStatus`
and the webhooks let it, so what is due is what has ever been COMPLETED
(`completed`, a history variable). A run lists the merchants it finds active,
which is any set of them: `EveryMerchantTried` is about the loop over the listed.
The hourly check marks pending settlements COMPLETED; `CompletedStays` says they
stay so and fails (§7).

**SubscriptionBilling** (`subscription.service`, `subscription.task`) keeps of time
only how much of each paid period is left, which makes it finite without a bound
on time: `ChargedOncePerPeriod`, `ActiveIsBilled`. **BillingCalendar** is
`calculateNextBillingDate` with the carry of JavaScript's date setters, as pure
operators compared with a closed formula for day numbers. **BillingRows** is the
rows of one subscription by date: each starts at `new Date()`, the day a run finds
the last period over, which is the day it ended, any number of days later, or the
last start again when two replicas' runs overlap. Dates drift, but never closer
together than the terms say (`RowsKeepApart`); each row's period is of the terms,
and between punctual rows a date is kept but for the days a month lacks
(`BillingDatesKept`).

**MarketplaceOrders** (`order.service`, `product.service`). The order's database
transaction holds the order and its items, not the stock or the payment. Stock
never negative, no unit sold twice without overlapping saves, a visible order
whole and with its payment (`StockNeverNegative`, `NothingSoldTwice`, `OrdersAreWhole`).

**MarketplaceSellers** (`marketplace.service`, `payment-split.service`). Sellers
are looked up and then saved; a payment is saved before its two splits, whose
amounts come from the rate loaded before it. The splits add up to the payment
and only a failure leaves it without both (`SplitsMakeThePayment`); a removed
seller stays out but for overlaps the property names (`RemovedSellerIsOut`).

**Accounts** (`auth.service`, and the writers of a merchant's address in
`merchants.service` and `merchant-profile.service`). Registration is three saves
without a transaction, a reset of a password saves the whole row loaded by its
token. An administrator makes merchants that have no user, and a profile changes
an address; both are actions. `MerchantsHaveAccounts` is therefore about
registrations: one that has saved its merchant ends with the account of its
address, whatever the merchant's address is later, unless it died in between,
overlapped with another creation, or the account was removed. A password is that
of the last reset and a used token does not come back unless a save wrote over a
changed row (`ResetsHold`).

**MerchantDocuments** (`customers.service`, `invoicing.service`,
`payment-link.service`, `checkout.service`): four tables with one pattern, look
up, await, write. The body of a template update is not validated: it may name the
id of another row, which is then written over with the loaded one, or another
merchant. `NamesTakenOnce`, `InvoicesNumbered`, `OneDefaultMethod`,
`DeactivationHolds` say which of this the code keeps apart.

**FraudPrevention** (`fraud-prevention.service`, `fraud-rules.service`). Evaluations
of a merchant's payments overlap; each counts the rows the others have saved so
far. Scores are in tenths as in the code; windows of five minutes and a day move.
An approval is on record with all its alerts (`ApprovedIsOnRecord`); the rows
there were before a payment's evaluation weigh on it (`BurstIsRejected`).

**RequestPipeline** (the rate-limit and cache middleware, the failure filter). A
handler is only the fact that it ran. `Key` is what the cache sees, the method and
`req.url`: bound by `forRoutes('*')` the middleware is mounted with `app.use('/*')`,
where Express leaves of the URL `/` and the query string, so all paths of a method
share an entry. That routing belongs to Nest 10, which `package.json` asks
for and the repository does not contain, and the Express 4 under it; the middleware of the three limited routes
is mounted with `app.all`, which leaves the path alone. Who is told of success ran,
or another of the same method and query string did, and never a failure; without
having run nobody is told what only a 201 says (`AnswersAreEarned`).
`WebhookProcessed` is what a controller's documentation says and fails (§7).

**SystemConfiguration** (`config-management.service`, `system-config.service`,
`cache.service`) for one key: the row, the cache entry, each replica's copy.
`CacheCoherent` and `ReplicaCurrent` name every reason for which the cache or a
copy may be behind the row; `CacheCatchesUp` says it does not last.

**Merchants** (`auth.service` administration, `merchant-settings`, `-profile`,
`notification-preferences`, `kyc.service`): all writers of one merchant's row.
`BalanceAddsUp`, `ApprovedIsVerified`, `SuspensionHolds`.

**ApiKeys** (`api-keys.service` and the KYC approval, which saves the merchant
with the keys it loaded): `TwinsExplained`, `OrphansExplained`.

The `MC*` modules instantiate these for TLC; `MCBackOffice` explores seven modules
whose variables are disjoint, one part per behaviour, and `MCSales` two. The
`*Proofs` modules hold
the proofs. `PROJECT.json` maps every definition to its lines of source.

## 4. The runs

| run | instance | states | shows |
|---|---|---|---|
| `ledger` | 2 requests, payment of 2, 2 refunds of 1 or 2, late COMPLETED webhooks, processing | 2.3 M | the properties of PaymentLedger |
| `disputes` | 2 requests, 1 dispute, payment of 2, 2 refunds of 1 or 2, webhooks | 1.3 M | the properties of Disputes; the ledger with disputes implements RefundBook |
| `webhooks` | 2 notifications, 2 endpoints, 1 replica that crashes | 1.5 M | the safety properties of WebhookDelivery |
| `webhooks_live` | 1 endpoint, under fairness | 5 k | `EventuallyAcked` |
| `settlements` | 2 replicas, 2 merchants, 1 payment, 2 midnights, 1 manual settlement | 960 k | the loop over merchants and the refinement of OnceOnly |
| `settlements_daily` | 1 replica | – | a violation, §7 |
| `settlements_check` | 1 replica, 1 manual settlement | – | a violation, §7 |
| `billing` | 2 replicas, 2 subscriptions, period of 2 hours, fairness | 52 k | SubscriptionBilling |
| `sales` | 3 requests, 2 products, orders of 1 and 2 items, deactivation, 3 kinds of update; 2 evaluations on top of earlier rows | 780 k | MarketplaceOrders, FraudPrevention |
| `config` | 2 replicas, 2 requests and both replicas' restarts, 2 updates, fairness | 400 k | SystemConfiguration |
| `back_office` | 3 calls in each part on 2 rows (4 about sellers, 2 about keys, 3 users), limits of 2 and 1; billing rows from 731 first dates, 0, 1 or 40 days late, 12 punctual ones in a row | 670 k | ApiKeys, MerchantDocuments, MarketplaceSellers, Accounts, RequestPipeline, Merchants, BillingRows |
| `webhook_answered` | 2 requests | – | a violation, §7 |

**Why the bounds are enough.** The hazards are pairwise: a load, somebody else's
save, a save. Two requests show each of them; the third or fourth, where there
is one, shows that a pair is not protected by the end of another call (a seller
added twice and then paid, a template updated across a deactivation, a user
removed between two resets). A payment of 2 with refunds of 1 and 2 has the
partial, the exact, the complementary and the excessive refund. Two settlement
periods are the least that share an instant; `DayLength = 2` has a first and a
last instant of the day that differ. A billing period of two hours has an hour
that is neither its first nor over. A catalog with a counted and an uncounted
product, and a basket with the same product twice, reach both branches of every
inventory check. One dispute is resolved any number of times; the theorems say
the same of any set of disputes.
The earlier rows of `sales` stand one below the thresholds
of twenty and fifty scores and five alerts, so that a concurrent evaluation is
what passes them; the limits of 2 and 1 requests of `back_office` are passed by
three. The code's limits of 100 and 30 and its thresholds are otherwise its own.
A leap year and the year after, in which rows start, have every kind of month end
and 29 February; twelve punctual rows are a year of months. Counters are bounded by `MaxWrites`, `MaxClock`, `MaxManual`, `MaxSecret` and `PostCap` (a cap,
not a guard), tables by their sets of rows. `MaxRetries` is the code's constant.
The runs without a deadlock check are those whose one-shot requests, or whose
clock, really end.

`back_office` and `sales` take the initial states part by part; the parts share no
variable, so every state of each is reached without multiplying them, and what is
checked is what a run per part would check.

**Symmetry** is used only in runs without liveness, over ids the code treats alike;
in `back_office` they are the calls, which its parts share.

## 5. Fairness

Only `webhooks_live`, `billing` and `config` assume any. A Node event loop resumes
a handler when its awaited call has settled, and a call settles, with an answer or
an error: weak fairness of each handler's steps (`Step(p)`, a delivery's `Service`
or `Answer`). Nothing is assumed of requests coming in, of crashes or of restarts.
Three assumptions are stronger, and are assumptions about the environment: an
endpoint that is asked again and again answers with success some time (strong
fairness in WebhookDelivery), a database call that is made again every hour
succeeds some time (strong fairness of the three calls of a billing run, for each
subscription and over all replicas), and Redis drops an entry whose lifetime has
ended (weak fairness of `CacheExpires`). Time goes on and the cron fires every
hour (`Hour`, `ProcessSubscriptionPayments`).

## 6. What is proved

TLAPS checks these for every value of the constants that satisfies the named
assumptions, hence for any number of requests, replicas, rows, amounts (of either
sign), updates and crashes. Each proof module has an inductive invariant, one
lemma per action or group of actions, and theorems that combine them.

* **PaymentLedgerProofs.** `TInv` adds to `TypeOK` that a frame at a label holds
  the payment and refund the label needs. `LInv` adds that what a request has
  loaded as COMPLETED, or has checked, was recorded as completed: that gives
  `RefundsAfterCompletion`, since a refund is saved long after the status was
  read. `BInv` adds `RefundBound`, which relates the total each request summed to
  the refunds that exist: without a race at most one request per payment is
  between its check and its save, the refunds have not grown since, and what it
  is about to add fits. `RefundsStayWithinPayment` follows; no induction over
  sums is needed because `refunded` changes by the amount saved.

  The rest of the module is about payments that nothing overlaps. `Alone` says
  that such a payment has one request in flight, `Holders` and `Sole` that what
  this request has loaded is the row and all its transactions, `Recorded` which
  transaction each step has still to save: `LedgerIsComplete`. `PiHeld` says who
  holds Pi's answer until it is saved (`PiPaymentsAreRecorded`), `Marked` who is
  about to mark a payment whose refunds have come to its amount
  (`FullRefundsAreMarked`), `Covered` that a sum once reached is not lost,
  provided no refund is negative, as `RefundedMeansCovered` says
  (`RefundedPaymentsAreCovered`). A lemma for each invariant shows that it only
  depends on one payment and the requests on it, so that a step concerns a single
  payment. `DInv` adds to these what a dispute's handler holds and has reached:
  `DisputedPaymentsAreNotRefunded`, `ResolutionsReachPayments`.

  The guarantees of the ledger are proved of `Spec`, where no dispute is opened,
  and then of the composition. The disputes service resumes `updateStatus` for a
  payment it has not loaded, so `Good` asks of a request that names a payment
  (`NamedLabel`) only that it exists, and of one that has loaded it
  (`LoadedLabel`) that the amount is the loaded one; `DisputedExist` says that
  the payment of a dispute exists. A step of the composition is a step of the
  ledger, for which the lemmas above hold, or a `DisputeMove`, which writes none
  of its rows and moves no request of its own (`BooksStep`, `BooksKept`):
  `DisputesTypeCorrect`, `LedgerHoldsWithDisputes`.

  The refinement of RefundBook needs `LInv` and `RefundBound`: creating a payment
  enters it, saving a loaded payment pays it or writes nothing in the book
  (`SaveIsPaying`), a passed check may mark it side by side, saving a refund gives
  back (`BookIsKept`), and a `DisputeMove` is a stutter. Theorems:
  `LedgerKeepsBook`, `DisputesKeepBook`.
* **WebhookDeliveryProofs.** `WInv` says that a loop awaits one delivery at a
  time (`Awaiting`), where a delivery's latest attempt is and that nothing comes
  after an acknowledgement (`Attempting`), that what a loop set out to do is to
  do or posted (`Tried`), and that loops under way together are on record
  (`Looping`). Theorems: `WebhooksTypeCorrect`, `AcknowledgedStaysQuiet`,
  `LoopsReachEveryone`, `OldNewsIsExplained`.
* **SettlementsProofs.** `SInv` says what a run has tried and found (`Running`)
  and a check has before it (`Checking`), that the history tells of every completed
  payment (`Completions`), that the settlements of a merchant end
  in the order they were made (`InOrder`) and, from that, that a payment in two
  of them is at the end of the first, unless one was made from an outdated last
  settlement (`Explained`). The lemmas under it are about `\div` and `%` of
  instants and days, and about the least and greatest of a bounded set. Theorems:
  `SettlementsTypeCorrect`, `RunsTryEveryMerchant`, and
  the refinement `RunsSettleOnce`: the initial states map to OnceOnly's and every
  step to paying one item, to an item falling due, or to a stutter.
* **SubscriptionBillingProofs.** `BInv` says that one run bills a subscription
  that is not contested (`OneBills`) and that what was charged is covered or
  about to be (`PaidFor`). Theorems: `BillingTypeCorrect`, `PeriodsAreChargedOnce`.

  The other half is the calendar, for every year from 0 on. `EveryStep` is
  induction over the steps of a recursive function, stated for a set of numbers
  instead of a predicate: the set of steps at which the fact fails has a least
  member. `IteratesExist` gives from it the function that a recursive definition
  chooses, hence what `addDays` is. `LeapCount` and `MonthLength` show that the
  closed formula of `DayNumber` gives every month the days `DaysIn` says, across a
  year's end; `DayAfterCounts` and `MonthCounts` that a day and a month, carried
  over or not, are as long as they should be; `Overflow` that a month too short
  for a day is followed by one that is not. `MonthlyDay` and `YearlyDay` are one
  period of a row, `PeriodsPass` is what is between two rows however late the
  second, and `RowsInv` says that the row at hand is of its terms and the punctual
  rows so far have kept their day. Theorems: `PeriodLengths`, `BillingDatesAreKept`,
  and the action property `RowsStayApart`.
* **SystemConfigurationProofs.** `CInv` strengthens `CacheCoherent` with who may
  save and clear (a replica's start only loads), and `ReplicaCurrent` with
  `CopyRead`: for a replica outside `unread`, every reload under way holds the
  present row, and with none under way so does the copy. Theorems:
  `ConfigTypeCorrect`, `CacheStaysCoherent`, `ReplicaStaysCurrent`.
* **MerchantsProofs.** `MInv` adds `ApprovalPending`: an approval that has still
  to save the verification finds the merchant verified. Theorems:
  `MerchantTypeCorrect`, `BalanceIsSum`, `ApprovalVerifies`, and the action
  property `SuspensionStays`.
* **MarketplaceOrdersProofs.** `Ready` says what a request holds where it is: an
  item to look at, and at its save a stock, however stale, that covers the item.
  `Whole` says its transaction is a beginning of its basket until it is all of
  it, and that nobody sees an order before. Theorems: `OrdersTypeCorrect`,
  `StockStaysNonNegative`, `OrdersStayWhole`, for baskets of any length.

  `StockIsSoldOnce` needs what the orders add up to. The library's sum over a
  set chooses a recursive function; `SumExists` shows by a smallest counterexample
  that there is one. From it follow that a sum takes its terms one at a time
  (`SumSplits`), is at least its parts' and grows with its terms (`SumOfPart`,
  `SumAtMost`, `SumSame`). `Held` is what a request has been through of its
  basket, while it may still place the order, or the units of its order row;
  `SoldInv` says that, for a product without stale saves, the stock and what all
  requests hold stay within the catalog's stock (`Kept`). A step moves units from
  the stock to one request (`TakeSold`), turns what it holds into its order
  (`CommitSold`) or loses it (`EndSold`). The sum is over the requests that have
  begun, finitely many at any time: nothing is assumed of how many there may be.
* **BackOfficeProofs** has one section, with an invariant of its own, for each of
  Accounts, FraudPrevention, MarketplaceSellers, RequestPipeline, ApiKeys and
  MerchantDocuments.
  - *Sellers*: `Money` ties a call's payment and first split to the rate it
    loaded; `OneRow` says that without overlapping additions the seller has one
    row and at most one call is about to add it, and only when there is none.
    Theorems: `SellersTypeCorrect`, `SplitsAddUp`, `RemovedStaysOut`.
  - *Accounts*: `Holding` says what a call at a step has loaded; `SetBy` that a
    token in a row was put there by a call on that row, so that a new one is never
    one that was spent; `Alone` that without an overlap a creation under way is
    the only one of its address. The address a registration held stays with the
    call, so that no later change of a merchant's row is in the way. Theorems: `AccountsTypeCorrect`,
    `MerchantsKeepAccounts`, `ResetsStay`.
  - *Fraud*: `OnRecord` says which rows are saved at each step, `Weighed` that for
    a payment during whose evaluation no window moved what the rules count is at
    least what there was when it began (cardinalities of growing finite sets),
    `Judged` what that makes of the score. Theorems: `FraudTypeCorrect`,
    `ApprovalsOnRecord`, `BurstsRejected`.
  - *Requests*: what is remembered, or about to be, is the answer of a request
    that ran, of the same method and query string and of a kind that is kept
    (`Remembers`, `Answered`), and an exempt request never looks (`NotExempt`).
    Theorems: `PipelineTypeCorrect`, `SuccessIsEarned`.
  - *Keys*: `KeysInserted` says that a creation under way meets its name only in a
    creation that overlapped it or a key that was brought back, `KeysCollected`
    that an approval misses only keys created since it loaded. Theorems:
    `KeysTypeCorrect`, `TwinsAreExplained`, `OrphansAreExplained`.
  - *Documents*: `DocsWork` says which steps write a table and which lead to the
    step before, so that each invariant has few cases: `CustomersTaken`,
    `TemplatesTaken` and `LinksTaken` are about names still to be saved,
    `TemplatesHeld` about the names of stale templates, `InvoicesCount` about the
    number that is about to be given (cardinalities), `DefaultsCount` about the
    one addition that has taken the default away and is to save another,
    `TemplatesRevived` about what stale templates would make active. Theorems:
    `DocumentsTypeCorrect`, `NamesAreTakenOnce`, `InvoicesAreNumbered`,
    `DefaultMethodIsOne`, and the action property `DeactivationsHold`.

The assumptions are those of the modules: `None` is no id or value, id sets do
not overlap, amounts are integers, bounds are naturals, a day has at least one
instant, the evaluated payments and the rows of a table are finitely many.

**What the proofs corrected.** `NamesTakenOnce` used to except only the names a
template update gives. The proof of `TemplatesHeld` failed on a save that had
loaded a template before it was renamed: it brings the old name back, which a
fourth call may have taken meanwhile, one call more than `back_office` has. The
history variable now has the name an update takes as well as the one it gives, and
that of the row whose id its body names.

**Only model-checked.**

* All liveness: `EventuallyAcked`, `ActiveIsBilled`, `CacheCatchesUp`.
* The three properties of §7, which the code does not have.

## 7. Where the code does not do what it says

* `settlements_daily`: the midnight cron looks at the day that has just begun, so
  the payments of the day that ended are in no period, and no settlement is ever
  saved for them (`settlement-processor.service.ts:153`).
* `settlements_check`: the hourly check is to mark a settlement completed ("For now,
  just mark as completed", `settlement-processor.service.ts:173`). It saves it
  COMPLETED and then reads `settlement.merchant.id` for a metric (`:178`); a
  settlement an administrator records has no merchant, the read throws into the
  catch block, and that saves it FAILED.
* `webhook_answered`: `webhooks.controller.ts:17` documents the 200 of an inbound
  webhook as "Webhook processed successfully". The cache keeps 200 answers of
  every method by method and `req.url` (`cache.middleware.ts:10`) and `app.module.ts`
  exempts other paths only: within the entry's lifetime a second webhook gets the
  first one's answer and is not processed.

The following were met while modelling. They are behaviours of the models, and
the properties above name them as their exceptions.

| where | what happens |
|---|---|
| `refunds.service.ts:34` | two refunds pass the amount check together: more is refunded than paid |
| `payment-processor.service.ts:77` | rethrows, where `payment-processor.service.spec.ts:97` expects the FAILED payment |
| `payments.service.ts:57` | a late webhook overwrites DISPUTED |
| `webhook-delivery.service.ts:84`, `:80` | each retry has a row with one attempt: `maxRetries` is never reached, and deleted endpoints are retried |
| `settlement-processor.service.ts:158`, `:178` | two periods share an instant; the check of a manual settlement throws out of the loop |
| `product.service.ts:160`, `:165`, `:119` | stock sold twice; a deactivation undone; a product turned digital is refused for its stock of 0 |
| `order.service.ts:123` | every committed order is answered with an error |
| `marketplace.service.ts:95`, `:173` | a payment is left without its splits; a removed seller is added by an overlapping save |
| `system-config.service.ts:31`, `:37` | the cache keeps the old value; the other replicas keep their copy |
| `config-management.service.ts:79` | the audit record's old value is read after the save |
| `auth.service.ts:313` | one of two balance adjustments is lost |
| `auth.service.ts:91`, `:147` | a merchant is left without its user; an old password or used token comes back |
| `merchant-settings.service.ts:85`, `:91` | sections that are not named are cleared; a suspension is lifted |
| `api-keys.service.ts:37`, `:81` | two active keys of one name; a rotation revives a deleted key |
| `merchants.service.ts:55` | a KYC approval takes the merchant from a key created meanwhile |
| `invoicing.service.ts:112` | two invoices get the same number |
| `customers.service.ts:20`, `:66` | two customers of one address; two default payment methods, or none after a failure |
| `subscription.service.ts:69` | a late run starts its period late: billing dates drift |
| `merchants.service.ts:14` | an administrator's merchant has no user |
| `checkout.service.ts:64` | an update whose body names an id writes over that row; a deactivated template is active again; an update gives it a name that is taken, and a save that loaded it earlier takes the name back, which may be taken by then |
| `fraud-rules.service.ts:80` | overlapping evaluations are judged before each other's rows are saved |
| `cache.middleware.ts:10` | the key has no path: a request is answered with what another path of its method was answered, and does not run |

Mails and notifications that follow a save find their templates by id where they
are named, or read what no query loads, so that registration, the reset of a
password, an invoice and an order are saved and then answered with an error.

## 8. Plan

Done, in this order: PaymentLedger and its proofs, RefundBook, Disputes, WebhookDelivery,
OnceOnly and Settlements, SubscriptionBilling, BillingCalendar and BillingRows,
MarketplaceOrders, SystemConfiguration, Merchants, ApiKeys, Accounts,
MerchantDocuments, MarketplaceSellers, FraudPrevention, RequestPipeline, and the
proofs of every safety property of the passing runs.

Next, by weight: FraudPrevention composed with PaymentLedger's `Process`, which
takes any verdict; Merchants and ApiKeys over the merchant's row they share; the
splits over the ledger's payments; SubscriptionBilling shown to implement OnceOnly per
period, as Settlements is, and that refinement proved from `BInv`.

**Not modelled, and why.**

* *Dispute trail* (`dispute-resolution.service`): rows that nothing reads; adding
  evidence or a public comment reads `merchant.user`, which is undefined, and
  fails after its first saves; `updateStatus` and the check of evidence deadlines
  have no caller.
* *Batches*: the first save always fails, a NOT NULL column being unset. *QR codes,
  buttons, virtual terminal*: at most one payment each, through the service
  PaymentLedger models. *Digital products*: a download is counted on an object
  that is never saved.
* *Single saves* nothing else depends on: product creation, an order's
  `updateStatus`, `resetConfig` (a `setConfig` of the default). The settlement
  report only reads. `SubscriptionService.updateStatus` is modelled although no
  endpoint calls it.
* *Without a caller*: OTPs, two-factor set-up and sessions; the services that
  rotate and validate API keys, and their middleware; the training of the fraud
  forest (its vote is a free choice); the queue's processor. The request-signing
  and IP middleware are not applied to any route; the signature guard of inbound
  webhooks computes on one request.
* *Notifications, templates, mail*: awaits that may fail.
* *Monitoring, analytics, health* record or read; *backup, scripts,
  internationalisation* are I/O around libraries; the *SDKs* are HTTP clients.
