# jobApplicationTracker: TLA+ models and proofs

A verification project for jobApplicationTracker, a Next.js application on
Supabase (Postgres), Stripe and Redis.  It models the parts whose correctness
depends on the order of concurrent steps: how the billing row follows Stripe, how
webhook events are handled exactly long enough, how duplicate Checkout Sessions
and duplicate Stripe customers are prevented, how stored jobs follow the plan, how
the session ceiling counts requests, what a browser call goes through until it
returns, and what the dashboard shows while its requests overlap.  All paths below
are relative to `src/`.

* `*.tla` without a prefix: one module per component.
* `MC*.tla` and `<Module>_<run>.cfg`: instances for TLC.
* `*Proofs.tla`: theorems with proofs for TLAPS; `SumTheorems.tla`: lemmas they share.
* `PROJECT.json`: components, runs, mutants, source map, hazards, findings, theorems.

To run: `tlc -workers 2 -config BillingSync_safe.cfg MCBillingSync` and
`tlapm BillingSyncProofs.tla`.

## 1. The system

### Components

| Component | State | Operations | Model |
|---|---|---|---|
| Billing row synchronisation (`src/server/lib/billingService.js`, migrations 006, 010, 026, 027) | `billing_subscriptions`: one row per user with subscription id, status, period, `last_stripe_event_created`, `snapshot_version` | event-mode sync, deletion, guarded reconcile, authoritative refresh; the event RPC and the compare-and-swap RPC | `BillingSync` |
| Receipts and dispatcher (`src/server/lib/billingWebhookDispatcher.js`, migrations 007, 011) | `stripe_event_receipts`: result and `processed_at` per event id | pre-read, claim, dispatch, storage repair, record, record failure, answer | `WebhookReceipts` |
| Checkout claims (`src/pages/api/billing/checkout.js`, `checkout-status.js`, `billingCheckoutDrain.js`, migrations 013, 014) | `billing_checkout_sessions`: creating / open / complete / expired / failed | claim, wait, create, finalize, fail; polling, webhook and drain that close a row | `CheckoutClaim` |
| Stripe customer mapping (`getOrCreateStripeCustomer`, migrations 005, 012) | `billing_customers`, customers at Stripe, the idempotency key | load, placeholder, create, conditional update, reload | `CustomerMapping`, inside `CheckoutClaim` |
| Storage classification (`classifyConfirmedBillingStatusForStorage`, SQL `resolve_canonical_storage_status_for_user`) | none: functions of the billing rows, the clock and the price list | classify, entitlement, checkout eligibility | `StorageClassification` |
| Job storage (`jobService.js`, `storageTransitionService.js`, migrations 016, 018, 020, 028) | `jobs.storage_state` active / locked, job limits per plan | create, update, delete, lock overflow, restore, bulk delete; each request repairs first | `JobStorage` |
| Job list reading (`jobReadCursor.js`, `jobService.js`, migration 021) | none: pages of rows that change meanwhile | keyset pages, counts, summaries | `JobReads` |
| Dashboard page (`useJobs`, `useJobsQuery`, `useAddJob`, `useUpdateJob`, `useDeleteJob`, `LockedArchivePanel`) | cached list and summary, request numbers, latches | fetch, refresh, add, update, delete, delete archive, and their replies | `Dashboard` |
| Rate limiting, CSRF, authentication order (`withRateLimit.js`, `rateLimit.js`, `csrf.js`) | tokens, quotas of a limiter library, Supabase's sessions | authenticate, check token, charge the day, charge the hour, handle | `RequestGate` |
| Browser calls (`src/client/lib/api.js`, `AuthContext.js`) | cookies, the shared CSRF refresh | send, retry, refresh and retry once, return | `ApiClient` |
| Temporary session ceiling (`temporarySessionCeiling.js`, `temporarySessionRedisScript.js`, `temporarySessionSecrets.js`) | a ring of per-second counters in Redis, a secrets memo | count and admit, `EVALSHA` / `EVAL`, deadline | `SessionCeiling`, refining `SlidingWindow` |
| Stripe runtime, webhook signatures, user tier, administration, resume helpers, qualification scripts, pages | none of their own, or external | | not modelled: sequential and stateless, rendering, or tooling around the program |

### How they interact

```
 Stripe --event--> webhook --> receipts: claim
                                 |-> BillingSync: retrieve, check, event RPC
                                 |-> JobStorage: lock or restore
                                 '-> receipts: record, answer 200
 user --> checkout: billing row read, claim, customer, create, finalize --> URL
 user --> success page polling / drain: close the row, authoritative sync
 page --> apiRequest --> gate: user, token, day, hour --> /api/jobs...:
             resolve status, repair storage, operate
 page --> /api/auth/session --> ceiling: count in Redis --> Supabase
```

The server components share the billing row.  BillingSync writes it.
WebhookReceipts needs to know only that a write happened and which state it
stored; CheckoutClaim only whether the row shows a live subscription; JobStorage
what StorageClassification makes of it.  Every lock, row and claim is keyed by the
user, so each of those models has one user; RequestGate and ApiClient, where one
user's token may meet another's session, have two.

### What is hard

* Each database function is atomic (advisory lock for its whole transaction),
  but a request makes several of them with Stripe calls between, and several
  requests, deliveries and the drain run at once: everything read before a call
  may be stale after it.
* Stripe delivers events late, out of order, several times and at once, and
  `event.created` has whole seconds: different events share one.
* A delivery stores not what the event said but what Stripe returned at a later
  retrieval.
* A remote call may take effect and lose its reply; the Redis client sends such a
  call again by itself; a process may die between
  any two calls, leaving a claim behind.
* Timeouts (five-minute claims, Session expiry, the ceiling's deadline, the CSRF
  token's age) race with the late owner.
* The page keeps several requests in flight and their replies overtake each other.

`PROJECT.json` lists 40 hazards with the line where each bites and the
properties that cover it, or why none does.

### What makes each component correct

* Billing row: writes ordered by event time are sound although contents are
  newer than events; equal seconds never regress; no live subscription is
  replaced by another; once Stripe is silent the row equals Stripe.
* Receipts: an acknowledged event stays settled; a storage repair is not lost;
  every event is acknowledged in the end.
* Checkout: one payable URL at a time, on record, and of the one customer that
  the mapping names; a dead claim is released.
* Storage: limits hold at the moment of each write however stale the request;
  only real overflow is locked; nothing is deleted unasked; storage converges; the
  server's and the database's classification part only where that is harmless.
* Ceiling: never more than the limit in any window, no early refusal while the
  clock is right, and no place of a request beyond its first but by a resend of
  the Redis client.
* Calls: one effect at most, charged in order, a CSRF failure only with a reason,
  and an end.
* Dashboard: paged reads are complete, an applied reply knows what the page was
  told, and a page at rest shows what the server has.

## 2. The modules

Every remote call and every RPC is one action; what happens locally between two
calls belongs to the action of the call before or after it.  Database functions
are one action each because each takes a transaction-scoped advisory lock
before it reads; a Redis script is one action because Redis runs it alone.

### BillingSync

`row` is the user's billing row, `stripe` what Stripe would return, `events`
what it announced, `job` what each invocation is doing.  A subscription's data
is its status and a revision number standing for price, period and
cancellation flags, which the code compares only for equality.  `version` 0 is
the absent row, `ts` 0 a null `last_stripe_event_created`.

| Action | Code |
|---|---|
| `Deliver`, `RetrieveForEvent`, `CheckForEvent`, `EventRpc` | `syncSubscriptionFromStripeAttempt` in event mode, `shouldIgnoreNonCurrentSubscriptionEvent`, the deletion path, `upsert_billing_subscription_if_newer_or_equal` (027) |
| `ReadSnapshot`, `RetrieveAuthoritative`, `AuthoritativeRpc`, `RereadForRetry` | the guarded reconcile and the authoritative modes, `upsert_billing_subscription_authoritative` (026), and its one retry |
| `StartCheckoutSync`, `StartReconcile` | the callers: status polling, drain, storage repair |
| `Fail` | an exception at a call, or the death of the process |

`EventDecision` and `AuthoritativeDecision` are the two SQL functions' decision
tables; they return the functions' own reason strings.

### WebhookReceipts

`receipt` and `lapsed` are `stripe_event_receipts` and which claims are over five
minutes old; `MergeOutcome` is `merge_stripe_event_receipt`.  `job` walks through
`processBillingWebhookEvent`: pre-read, claim, fetch, write, storage repair,
record, respond.  The sync is abstracted to what the receipt and the repair can
see of it (`WriteOutcome`): BillingSync has the detail.  `storage` is the
revision the user's storage was last repaired for.  Left out: envelope checks (an
event id has one envelope) and events without a subscription, which write
neither the row nor the storage.

### CheckoutClaim and CustomerMapping

`rows` is `billing_checkout_sessions`, `sessions` Stripe's Sessions, one per
attempt nonce because creation is idempotent per nonce.  `handed` is the set of
URLs the browser got, `subs` the Sessions paid.  `Claim`, `WaitForOpen`,
`ResolveCustomer`, `CreateSession`, `Finalize`, `FailClaim` are the checkout
route; `Poll`, `Webhook`, `Drain` start a closing job whose calls (`todo`) are
made in the caller's own order: the webhook and the drain sync before they mark,
the success page marks before it syncs.  Failed rows hold nothing and their ids
are reused.

CheckoutClaim extends CustomerMapping, whose steps run between the claim and the
creation of the Session, one remote call each: the placeholder row, the creation
under the user's key, the update that maps only a row whose customer is still
null, and the reload of the winner.  `keyed` is what Stripe remembers under the
key, which it may forget (`KeyForgotten`).

### StorageClassification and JobStorage

`BillingRow` has exactly the fields the classifiers read.  `ServerStatus` and
`DatabaseStatus` are the two decision tables, which differ in the price allowlist
that SQL lacks.  `CreateFlow`, `LockEligibleStatus`, `CanStartCheckout` and
`EntitlementAnswer` are what the services make of a status.

JobStorage extends it: `billing` is a billing row, `Status` what the server reads
from it and `Canonical` what a storage function does.  `rows` holds the state and
status priority of each job.  `Begin` and `Resolve` are what every request does
first; `Reconcile`, `Lock`, `Restore` are the repair passes of
`reconcileStorageTransitionsForUser`, whose order and "one more pass" rules are in
`Proceed` and `ahead`; `Create`, `Access` with `WriteJob`, `BulkDelete` are the
operations.  That a period ends is a change of the row against a standing clock.

### JobReads and Dashboard

JobReads is the server's side of the page: `row` is what the `jobs` table says of
each job, in the order of `created_at DESC, id DESC`; a job may appear anywhere in
that order, because `created_at` is the start of a transaction.  `AfterPage` is
one round of `fetchCompleteJobsList`; each round is an action of its own, so rows
change between pages.  `PageAfter` lists what is left by rank (`Nth`), as the
`ORDER BY ... LIMIT` of the query does.  `steady` and `ever` are histories: what
was there throughout, and what was there at some moment.  The list is that of a user who
is not Premium (`OlderThan` keeps active rows only): for a Premium user
`getJobListPolicy` sets no filter on the storage state, so rows that a restore has
yet to reach are listed too.  No property is about those.

Dashboard is the page.  `fetch[i]`, `refresh[i]` and `mutation[k]` are its
requests, each with a step where the server runs it and one where the page
receives the reply; `current` and `fresh` are `jobsRequestRef` and
`storageSummaryRequestRef` (0 when the counter has moved past every request),
`sequence` is `mutationSequenceRef`.  The page admits one mutation of each kind
at a time, as its latches do.  `Elsewhere` is another tab or a storage transition.

### RequestGate and ApiClient

RequestGate is what `withRateLimit` puts before a handler: `Authenticate`,
`CheckWindow` (the day's, then the hour's), `HandleCreate` or `HandleCsrf`.  Each
is remote, so it may fail, or take effect and lose its reply; `Vanish` is an
invocation that dies.  A request carries the cookies the browser held when it was
sent.  A check of the limiter library is granted, refused or unavailable; `charged`
is the set of windows that were charged, which does not show that the library's Redis
client may send a charge twice (see SessionCeiling).

ApiClient extends it with the browser: `Begin`, `Receive`, `Wake`, `RefreshReplies`
and `Resume` are `apiRequest`, with its retries, its single second round and the
refresh promise that concurrent calls share.  The page's own priming of the token,
sign-outs, other tabs and the token's age change the cookies in between.  The
state-changing route is the create of a job; reads pass no CSRF check and are left
out.

### SessionCeiling and SlidingWindow

SessionCeiling has the Lua script (`Verdict`, `Counted`, `RetrySeconds`,
`RunScript`) over a ring of `Window + 1` slots, the commands of the requests
(`EVALSHA`, after `NOSCRIPT` an `EVAL`), the deadline after which a command is an
orphan that still runs, the secrets memo, the expiry of the key, a flushed script
cache, and a clock that may be set back.  `createRedisClient` (`redis.js:187-191`)
leaves the Upstash client's own retries on, so `ClientResends` sends a command again
when its connection broke: the copy before it may have run, may run later (`late`,
`LateArrives`) or never, and copies that outlive the request become `orphans`.  The
client stops after five resends; the model stops at `MaxFailures`.  `resent` and
`counted` are histories of one request.  SlidingWindow is what a ceiling
promises: at most `Limit` admissions in any `Span` seconds, refusals only when
there were that many, unless the clock was disturbed.  `IsSlidingWindow`
instantiates it with `Span` one second over the window (the ring keeps the current
second and `Window` before it) and is checked as a property of SessionCeiling: the
detailed specification implements the abstract one.

## 3. What the runs show

`gate_calls` checks deadlock; elsewhere `CHECK_DEADLOCK FALSE` because a quiet
system stops, and so does an instance whose bounds are used up.  Symmetry of
workers (and of subscriptions, row ids and nonces where they are interchangeable)
is used in safety runs only.

| Run | Question | Bounds, and why they are enough |
|---|---|---|
| `sync_safe` | is event time a sound order, does an acknowledged change stay stored, does an equal-second write never go back, are only terminal subscriptions replaced? | two subscriptions of two revisions, two seconds, two events, one refresh, two workers: two deliveries of the same or different seconds around a refresh, a terminal subscription and its successor |
| `sync_live` | does the row end up equal to Stripe? | one subscription, three events, an unsupported status and one failure on the way |
| `receipts_safe` | does an acknowledged event stay settled, is every missed repair of a supported status retried, is every event acknowledged? | two events, two failures: a lost claim reply, a lapsed claim and a late `failed` fit in one behaviour |
| `checkout_safe` | at most one payable URL, on record, for the one customer mapped? | two attempts, four row ids (one active, two named by requests, one free), two failures, one forgotten key; users with and without a customer |
| `checkout_live` | is a dead claim released? | one crash, one attempt |
| `storage_safe` | limits, locking and deletion under stale statuses? | limits 1 and 2 with up to 3 jobs, so users start below, at and above both limits; two changes of billing; five billing rows, one of a price off the list; two priorities |
| `storage_live` | does storage follow billing? | the same five billing rows, one failure, one change, and reconciles that change the plan |
| `ceiling_window` | is the ring a sliding window, are extra places of a request due to the client's resends alone, is Retry-After right? | two instances, limit 2, window 2 (three slots), four seconds of real time and a clock set back by one, so a slot comes round again; two failures: a resend and its copy running late, two resends, or a resend and a deadline |
| `gate_calls` | one effect, charges in order, explained CSRF failures, an end? | two users, two calls and their refresh, one retry, two tokens, one change by others |
| `dashboard_safe` | complete reads, fresh replies, a page that settles? | two jobs, page size 1, two fetches, two refreshes, two mutations and one disturbance: every reply can overtake one other |

The branch of `AfterPage` that fails a read over the retained limit is not
reached with two jobs; the same run with three jobs, which is slower, passes too.

Two runs try a claim made by a document or a comment and find it contradicted:

* `checkout_twice`.  One live Session at a time holds (`OneLiveUrl`), but the
  duplicate subscriptions it is meant to prevent are possible: the success page
  marks the paid row complete before the subscription is synced, and the billing
  row is read before the claim and not again.
* `dashboard_mount`.  `useJobsQuery.js:20-22` says the complete list is loaded once
  on mount.  When a create is answered before that list, `invalidateJobsFetches`
  discards the reply and nothing fetches again.

### Observations without a run

The session ceiling:

* `executeTemporarySessionRedisScript` promises that "No uncertain result is
  retried" (`temporarySessionRedisScript.js:220-221`; its test at line 218 mocks the
  client).  It keeps this itself, but the program does not: the Upstash client
  underneath is built without `retry: false` (`redis.js:187-191`) and sends a command
  whose connection broke again, whether or not the script has run.  One request can
  therefore take two places and more.  TLC shows it in seven states when
  `counted <= 1` is checked: `EvalshaRuns`, the connection breaks (`ClientResends`),
  `EvalshaRuns`.  `gate1RestartTransport.test.js` has to block such replays to count
  trials.  What holds is `ExtraSlotsAreResends`: every place beyond the first is due to
  a resend, and the request itself adds none; the window is never exceeded
  (`IsSlidingWindow`), the caller only pays for more than one request.

Billing and receipts:

* "Stale Stripe reads can no longer overwrite a newer local subscription
  snapshot" (`docs/feature-memory.md:622`) holds of authoritative writes, which
  carry the snapshot version.  An event delivery that stalls between its
  retrieval and the RPC overwrites a row that an older event's delivery filled
  from a later retrieval.  The event that announced the lost change repairs it
  (`EventuallyMirrors`), and the row never falls behind its own timestamp
  (`RowCoversItsTimestamp`, proved).
* Failures of the storage repair "then retry through Stripe safely"
  (`billingWebhookDispatcher.js:282-283`), unless the subscription takes a status
  the program does not support before the retry: the retry then ends as
  `unsupported_status_ignored` and is recorded without a repair.  The next
  dashboard request repairs it (`StorageFollowsBilling`).
* The comment in migration 011 that `processing_active` is returned for in-flight
  work does not hold after a late `failed` of a reclaimed owner, which lets a
  third delivery claim while the second still runs (harmless: the writes are
  idempotent and settled receipts stay so).
* `docs/stripe-architecture.md:332-333` still describes last-write-wins for events
  of the same second, which migration 027 replaced.

Checkout and storage:

* A first checkout that is never paid leaves the customer row behind, and a user
  with that row and no subscription is `sync_pending` for good
  (`billingService.js:2020-2023`): creates are refused with "Billing status is
  still updating. Please try again shortly."  `billingService.test.js:1088` asks
  for the status.
* Two checkouts that overlap with different e-mail addresses may leave Stripe with
  one and the local fingerprint with the other (update, update, persist, persist
  crosswise).  The e-mail sync is best effort and is not modelled.
* In the model a request may stall longer than the day an idempotency key lives.
* The create RPC admits a job on a stale `premium_active` when the price has left
  the allowlist, because SQL classifies without it.
* `useBillingActions` never releases its latch once a redirect was handed off, and
  nothing handles a page restored by the Back button.

Calls and the dashboard:

* The catch around the CSRF retry (`api.js:244-247`) also covers the second
  round's request: a create whose reply was lost there is reported as a refused
  token.  The refresh-and-retry acts as whoever is signed in by then.
* A request refused by the hour has already spent a place of the day.
* `Retry-After` of the ceiling is capped at 60 although the ring spans 61 seconds.
* The comment at `csrf.js:9` says 24 hours, the constant 4.
* A rejected or lost sign-out leaves the cookies while the page shows nobody
  signed in; a session check answered after a sign-out shows the user again.
* An overlapping add and delete may leave the older of two summaries
  (`useJobs.js:106`, contrary to its comment at 213-214): a create that was sent last
  and is answered last brings the counts of its own transaction, after the refresh of
  the delete has been shown.  An archive delete takes no sequence number, so the same
  happens whichever was sent first.  `SettlesWhenSequential` does not cover this; `fetchJobs` applies its summary without bumping the
  summary's request number.
* A list reply that already holds the new job, followed by the reply of its
  create, lists the job twice; a job seen in a list and deleted may be prepended
  again by its late create reply.  `SettlesWhenSequential` therefore speaks of
  pages whose mutations overlap neither each other nor a list fetch.

### Mutants

Every property has a mutant in `PROJECT.json`, an operator in the module that
changes one definition the way a plausible bug would (the `>=` ordering before
027, no event-time order, a guard without the version, a last-wins receipt, a URL
returned without finalize, an RPC that trusts the caller's status, a ring with one
slot too few, a refresh promise that is kept, ...); TLC finds the property violated
with it.

### Fairness

* A started invocation runs on: weak fairness of its steps.  It may still die:
  crashes are actions, bounded by `MaxFailures`.
* Stripe redelivers an event until it has a 200: strong fairness of delivery,
  since the handlers are not always free.
* Time passes: weak fairness of the ageing of claims.
* `gate_calls`: a request is answered or its connection ends, and the page's timers
  and promises run.  No user action and no expiry has to happen.
* `checkout_live` and `storage_live` assume a user who keeps trying (strong
  fairness of starting a checkout, of opening the dashboard): no background job
  of the program releases claims or repairs storage by itself.

Nothing makes Stripe or the billing row change.

## 4. What is proved

TLAPS checks these for every value of the constants that meets the modules'
`ASSUME`s: any number of subscriptions, workers, events, rows and failures.

**BillingSyncProofs.**  `Invariance`, `TypeCorrect`, `TimestampIsCovered`,
`EqualTimeNeverRegresses`, `OnlyTerminalReplaced`, `EventTimeMonotone`,
`AcknowledgedStaysStored`.
`RowCoversItsTimestamp` is not inductive: a write takes its content from the job,
which fetched it earlier.  `IInv` adds what a job knows when it writes.  An
event-mode job (`Fetched`) knows its content to be at least as new as every event
of its subscription older than its own; that stays true because new events carry
the current time, which is never less.  An authoritative job (`GuardedFetch`)
knows its content to be at least as new as the row, while the row is still the
one of its snapshot; any write raises the version for good, which makes the
condition false, so other jobs' writes need no argument.  The action properties
then follow from `IInv` and the decision tables: an equal-second write comes from
`EventDecision` only when the content is newly terminal (and then it is Stripe's
last word), and from a refresh only under the guard.  `AcknowledgedStaysStored`
needs a second invariant, `SInv`: a delivery's content is at least as new as its
event, and an acknowledged event is not later than the row's time, so a job of an
older event is refused and a newer or equal one brings newer content.  It assumes
that every status is supported, because an unsupported one is acknowledged without
a write.

**WebhookReceiptsProofs.**  `ReceiptTypeCorrect`, `AcknowledgedStaysSettled` and
`StorageRepairIsRetried`.
`RInv` is `TypeOK`, `JobsHaveEvents`, `RespondsWhenSettled` and
`AcknowledgedIsSettled`.  The key lemma, `SettledStays`, says of
`merge_stripe_event_receipt` that a settled receipt stays settled under any later
result; an invocation answers 200 only after it read or left a settled receipt.
`StorageRepairIsRetried` follows the newest event: it is never stale, what is
retrieved for it is the newest revision, and no later step takes the row or the
storage back from there.  So while storage and row differ, the newest event is
unsettled, and Stripe will deliver it again.

**CheckoutClaimProofs.**  `ClaimInvariant`, `PayerInvariant`, `TypeCorrect`,
`OneLiveUrlHolds`, `HandedOutIsMintedHolds`, `SessionsAreOfTheMappingHolds`,
`OneCustomerPerKeyHolds`.  `OneLiveUrl` alone says nothing of rows.  The inductive
`CInv` adds the three facts the code relies on: a URL that can still be paid is in
an open row; a job that will mark a row knows that its Session is over; and at most
one row is active, a Session being in one row at most.  A release by age touches
creating rows only, whose URL nobody has.  `PayerInv` carries the customer side: a
mapping stays once it is filled, a lookup that ends has what the mapping says, and
every customer made is counted against a key that was forgotten or is remembered.

**JobStorageProofs.**  First StorageClassification, whose two decision tables are
compared over every row, clock and allowlist: `OnlyThePriceDivides`,
`TerminalFreeIsAgreed`, `ServerPremiumIsDatabasePremium`, `TimeOnlyEndsPeriods`,
`CheckoutOnlyWithoutPlan`.  Then JobStorage: `StorageInvariant`,
`StorageTypeCorrect`, `StorageGrowsWithinPlan`, `StorageLocksOnlyOverflow`,
`StorageLosesNothingUnasked`, `StorageWritesAsAllowed`.
The invariant is modest: types, a repair only for the status it is meant for, a
write only to a job that was found, in a state in which the request may write it.
The work is in the steps.  `StepEffect` reduces every step to one of a few effects on the active and locked sets (kept, overflow
locked, best restored, one created, one deleted, archive deleted), and each action
property is then a fact about those effects: `BestAreEnough` and `BestOutrank` say
what the ranking by priority picks, with the library's facts about cardinality,
`TerminalFreeIsAgreed` is why the database deletes an archive only where the
server calls the user Free too, and `OnlyThePriceDivides` why a restore, which looks
at the price, restores only what the server calls Premium.

**ApiClientProofs.**  `ClientInvariant`, `ClientTypeCorrect`,
`OneEffectPerRequest`, `CsrfRetrySuffices`, `GateChargesFit`.  `AInv` says of each
request in flight what it has been charged and whether it may have taken effect
(`GateOK`), of each call that it has made nothing yet while it is at work, and of
the one shared refresh that, while nobody interferes, its token belongs to the
session of now.  A request that took effect is never answered with a code that is
tried again; that gives one effect per call.

**SumTheorems** has no result about the program, only the lemmas that the ring, its
window and the ranking of jobs rest on.  Sums over finite sets (`SumFunctionOnSet`)
fold in an order nobody chose; `SumTakesOut`, `SumChangesAt` and `SumOfPart` say that
the order does not matter and how a sum changes with one term.  The library's
induction theorems take an operator and cannot be used; the induction here is over
sets of numbers instead: a set of naturals that contains a number whenever it contains
all smaller ones is all of `Nat`, because a well-founded relation has a least element
in every set (`LeastNumber`, `NumberInduction`, `SubsetInduction`).

**SessionCeilingProofs.**  `ExtraSlotsAreTheClients`: the slots a request has taken
and those that late copies of its commands may still take (`Due`) are together one
more at most than the client's resends, and no more than these while a command is on
its way or `EVAL` is about to be sent (`CInv`).  A resend makes room for the copy it
leaves behind; `EVAL` follows a reply that has taken no slot.  No arithmetic of the
ring is needed for that.
`CeilingIsSlidingWindow` is the refinement: every step of ring, instances and clock
is a step of SlidingWindow or a stutter.  `WInv` compares two sums: for every
second of the window, no more requests were admitted after it than the ring holds
counters of after it (`Covers`), with equality while the clock was not set back.
Counting adds one to both; a slot is reused only for a second `Slots` later, when
what it held is out of the window; a key expires when all it held is.  With an
undisturbed clock the same equality gives `RetryAfterIsRight`, and
`CeilingTypeCorrect` that the ring never counts past the limit.

**DashboardProofs.**  `DashboardInvariant`, `DashboardTypeCorrect`,
`CompleteReadsAreComplete`, `AppliedListsAreFresh`, `SequentialPagesSettle`.
`ReadFits` says of a read in flight that what it has found is newest first, between
`steady` and `ever`, and misses no steady job at or above its cursor; `PageFacts`
says what one page holds (by rank: `NthLists`), so one round keeps it, and so does
any change of the rows between rounds.  `News` says that the fetch whose reply still
counts began after every mutation the page was told of: applying one puts the
counter past the fetch, which is why an applied list is fresh.
`SettlesWhenSequential` needs an invariant of its own, which holds while nothing
overlapped, failed or happened elsewhere (`Calm`): reads see the rows as they are;
the list shows the rows but for the job of the one mutation whose reply is on its way
(`ListIsRight`); the summary counts the rows unless such a reply, or a refresh that
still counts, is about to correct it (`SummaryIsRight`).  When all is quiet no
exception is left.

Every safety invariant and every action property of the passing runs is proved, and
so is the refinement.  Only model-checked: all liveness (`EventuallyMirrors`,
`EventuallyAcknowledged`, `ClaimIsReleased`, `StorageFollowsBilling`,
`EveryCallReturns`), since fairness is out of TLAPS's reach here; and the two
violations, which are counterexamples.

## 5. Not modelled

* Several users and ownership checks, except at the gate: state is keyed by user.
* Request validation, signatures, logging, wording and rendering.
* Price, period and cancellation as data in BillingSync: one revision number.
* The user's cancellation during a checkout; refunds.
* The lookup of one job in two reads, the CSV export and offset pages.
* The client's billing pages: their polling, filters and latches.
* The middleware's redirects and the session classifier, which decide on one
  request; Supabase's own sessions.
* The limiter library's counting.
* Components marked `not_modelled` in `PROJECT.json`, each with its reason.

## 6. What is left

1. One composition of WebhookReceipts and JobStorage over one billing row, so that
   `StorageFollowsBilling` and `SupportedRepairIsRetried` meet.
2. The billing pages: polling of the success page against the webhook, and the
   latches of the buttons.
3. Proofs: an abstract specification of the checkout claim (one payable URL, handed
   out once or replaced) and of the receipt (settled once and for all), with the
   refinements proved as `CeilingIsSlidingWindow` is.
