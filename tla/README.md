# backend-graphql in TLA+

This directory holds a formal model of the customer API in `src/apps/customer-api`: TLA+
modules, TLC configurations that check them on small instances, and theorems that TLAPS
proves for instances of any size. Every definition is translated from the TypeScript it
names in `PROJECT.json` (`map`), never from its documentation; where the two disagree, the
model follows the code and a run shows the disagreement.

## The system

A NestJS GraphQL API with one HTTP webhook, on PostgreSQL through Prisma. Customers register
with the referral code of another customer, verify their email, keep wallets, and buy tokens
through Coinbase Commerce. Referrers up the line earn commissions by tiers an admin sets.

The process is single-threaded: what is concurrent is *requests*. A request runs until it
awaits a call (database, Coinbase, SES), and any other request may run before it goes on. The
code uses a database transaction in one place only (`performTransaction`). So a model of a
service has one step per awaited call, and the local variables of a request keep what it has
read, stale or not.

| Component (source) | State | Operations | What is hard | What makes it correct |
|---|---|---|---|---|
| Purchase path: `coinbase.service.ts`, `coinbase.controller.ts` | Charge, PurchaseActivity; charges at Coinbase | purchaseTokens, webhook | three writes without a transaction; a rejection, a restart or a lost answer between any two of them; events repeated, and acknowledged whatever becomes of them | only recorded purchases are receipted and confirmed, confirmations come with commissions, no more often than asked for and no less often than told; ledger refinement |
| Commissions: `commission.service.ts` | CommissionTier, Commission, purchaseConfirmed | calculateCommission, CRUD of tiers, transfer | two reads and one write; tiers and statuses change in between; floor of a float | only what was earned, nobody left out or paid twice, deleted tiers stay deleted |
| Wallets: `wallet.service.ts`, `wallet.resolver.ts` | Wallet | create, update, setDefault, delete | checks against reads of earlier calls, two writes for one default | owner only; one ETH wallet; one default |
| Accounts: `auth.service.ts`, `customer.service.ts`, `email.service.ts` (verifyEmail), guards | Customer, Email, tokens | register, verify, suspend, reinstate, reset and change password, login, refresh | statuses and passwords decided from stale reads; tokens of three purposes that serve for one another and are never revoked | a suspension is not undone by a customer's request, and ends the access of who asks for no mail; nobody is admitted without a mail; a replaced password is of no use |
| Resend limits: `customer.service.ts` | in-memory cache | forgetPassword, resend... | count read before a mail is awaited, written after; one count for two operations; lost at a restart | limit per window without overlap |
| Mail delivery: `email.service.ts` | none | send with backoff in the background | retries, mails lost with the process or given up | every mail ends, is logged as what became of it, and whoever keeps asking is let in |
| Referral network: `referral.service.ts`, `referral-code.util.ts` | referral codes | code, network by level | recursion over rows, a loop that relies on their order | levels match distances, nobody missing |
| Settings: `config.service.ts` | TokenPrice, TokenPackage, Config | set, toggle, delete | find-then-create, read-then-toggle, sold while edited | one row with the last values, no lost toggle, sold as read |
| Images: `upload.service.ts` | Image | presign, save | find-then-create | one image per owner |
| Pages: queries with a cursor | none | read | tables that grow, rows that change place, inclusive cursor | every row, and none but cursors again |

Interaction: the webhook is meant to call CoinbaseService and, through it, CommissionService and EmailService,
but fails before it gets to any of them (see Payments below), so that only the admin's mutation reaches
CommissionService. That reads Customer rows whose status AuthService, CustomerService and EmailService write; a
purchase reads the catalog that ConfigService writes; everything else meets only in the database. `PROJECT.json` lists these
parts and the remaining ones (Prisma connection, logging, resolvers, bootstrap, tests)
with their status, and under `hazards` what can go wrong in each, line by line.

## Modules

| Module | What it is |
|---|---|
| `PurchaseLedger` | abstract specification: a purchase is recorded once and receipted only then; it is confirmed together with a batch of commissions, for a calculation that was asked for; no more successes are told than there were |
| `Payments` | the purchase path, call by call, with Coinbase as environment; refines `PurchaseLedger` |
| `Commissions` | calculateCommission read by read, tiers, statuses, transfers |
| `Wallets` | the four wallet operations, call by call |
| `Accounts` | start-up, registration, verification, login, suspension, with the tokens left behind |
| `Passwords` | the password column and the sessions it opens: login, change, reset, refresh |
| `Mails` | mails in the background, call by call to SES, and the limits on asking for another |
| `Network` | the recursive query of the referral map, iteration by iteration, and the loop over its rows |
| `Pages` | the four listings read page by page while rows are added and changed |
| `Catalog` | settings, packages, images, and the reading of the catalog by a purchase |
| `MCPayments`, `MCCommissions`, `MCWallets`, `MCAccounts` | the small instances TLC checks |
| `MCBackOffice` | the instance of the five modules from `Passwords` to `Catalog`, in one run |
| `Payments_proofs` | theorems about the purchase path, with the refinement of the ledger |
| `Commissions_proofs`, `Wallets_proofs`, `Accounts_proofs`, `Network_proofs`, `Catalog_proofs` | theorems about one module each |
| `BackOffice_proofs` | theorems about `Mails`, `Passwords` and `Pages`, and about the composition `MCBackOffice` |

The five modules of `MCBackOffice` share no variable: a behaviour of all of them, restricted to the variables
of one, is a behaviour of that one with stuttering. The variable `part` picks the one that moves, so the run
explores each of them completely and their products not at all.

### Payments

`pc[p]` is the call request `p` awaits next, or where its answer is due; `work` and `event` are the charge and the
webhook event it is about.

* `StartPurchase`, `CreateCharge`, `RecordCharge`, `RecordActivity` are the awaits of
  `purchaseTokens` that write: Coinbase first, then two tables, in no transaction.
* `Receive` is a delivery of the webhook, from first to last line. `log-error.decorator.ts:20` replaces
  `CoinbaseService.verify` by an async function, `coinbase.controller.ts:42` does not await it, and line 53
  reads `event.type.startsWith` of a promise: a TypeError, whatever the event is. Nothing has been awaited,
  so the delivery is one step and what is left of it is the answer of the catch (425-437). A signature that
  does not verify rejects that promise, which nobody handles, and Node ends the process: `UnhandledRejection`.
* `StartCalculation`, `GetCharge`, `PerformTransaction` are `calculateCommission` as the admin's mutation
  calls it. What a batch holds is left to `Commissions`.
* `Answer` is the response; the catch returns an object, which is the body of a 201 (`StatusCode`).
  `LoseAnswer` is a response that does not arrive or is late, `Fail` an awaited call that rejects without an
  effect, `Restart` the end of the process with every request in it. A call that did have its effect may reject
  all the same (`Returned`).
* `CoinbaseAdvances` is the environment: a charge's timeline, one event per entry, events sent
  again until they are acknowledged, in any order. Assumed of it: nobody pays a charge before it has a row
  in table Charge, from which its hostedUrl can be queried.

`sold`, `asked` and `told` are history: what buyers and the admin have been answered and what the admin has asked.

So no row and no mail ever comes from the webhook. The decorator is switched off by `TEST_TYPE=unit`
(`log-error.decorator.ts:16`), and with it off the controller's unit tests run on into `handleChargeEvent`; the
program does not. `coinbase.service.ts:311-545` and `coinbase.controller.ts:53-421` are therefore not
modelled: a model of them would say nothing about what the deployed API does. If `verify` is ever awaited
they are the first thing to add (see Plan).

Abstracted: prices, currencies, networks, purchase codes, and what a batch of commissions contains.

By reading, and without a run: the fields of a charge, its hostedUrl among them (`charge.base.dto.ts:38`), can be
queried as soon as the charge has a row, so a charge whose purchase activity was never written can be paid for; the
admin's calculation then throws for it, and nothing of the payment is known to the API.

### Commissions

`GetCharge`, `GetAllCommissionRates`, `GetAllReferrers` and `PerformTransaction` are the awaits of
`calculateCommission`; `FindTier` and `WriteTier` those of an update or, with `NoRate`, a deletion of
a tier; `CreateCommissionTier`, `UpdateCommissionTransferStatus` and `ChangeStatus` are one call each
here. `Referrals` is the recursive query as a relation (c stands n levels above b), `Depth` its
recursion limit `maxTier`, `Earners` the rows the loop collects, `Share` the floored product, which may
lose a cent because the product is floating point. Without tiers `maxTier` is `-Infinity`; the query
then returns the first referrer or is rejected (`Abandon`). `seen` is history: the rates and
statuses in force at some time, and statuses in force all the time, since a calculation began.

Amounts are cents, rates ten-thousandths (the column is `Decimal(4,4)`). Referrals are
immutable and point to customers registered earlier, which is what `Referrer[c] < c` says; `Accounts` has
`ReferralsEndAtAdmin` for it.
`createCommissionTier` for a tier that exists and reads that find nothing change no state and have
no step.

### Wallets

`CreateWallet`/`WriteCreate`, `FindWallet`/`CheckOthers`/`WriteUpdate`/`WriteDelete` and
`ClearDefaults`/`SetDefault` are the awaits of the four operations; `Reject` is a write to a wallet that is
gone, `Abandon` a rejected call or a crash. `job` holds the arguments and what was read.
The resolver admits the owner or an admin, so a request stands for the customer it names. Types are ETH and
another one; an address appears only in an input that is refused for it (`badAddress`), rows have none.
`overlapped` is history: requests whose customer's wallets another request has written since they read them.

Two things the model shows by reading it and that have no run. `isDefault: true` in a create or an
update makes a second default wallet and `isDefault: false` takes the default away, while
`update-wallet.input.ts:55-56` calls the wallet "primary" and says that false changes nothing. And an
update of the address alone is not validated, so an ETH wallet can end with any address, while line 35
of that file asks for a valid one.

### Accounts

`boot` is the call `bootstrap()` awaits next: `FindAdmin`, `CreateAdmin`, `SendAdminRegistrationEmail`, then requests are
served; `Restart` ends the process anywhere. `DecodeReferralCode`, `CreateCustomer`, `SendMail` are `register`, and
`RegisterWithoutCode` one that is refused because a code is required (`CodeRequired`: the setting is or-ed with true).
`FindForMail` stands for the three operations that only send
a mail; none of them looks at the customer's status. `FindUnsuspended`/`WriteVerified` are `verifyEmail` and
`resetPassword`, which read and write the same
columns, `FindMailedAdmin`/`WriteVerified` `registerAdmin`, `FindCustomer` with `SuspendCustomer` or `ReinstateCustomer` the admin's
two mutations, `FindForLogin`/`IssueTokens` and `FindForRefresh`/`CreateAccessToken` the session's.

There is one kind of token. Access, refresh and email tokens have the same payload and are signed with the same
`JWT_SECRET`; `JwtStrategy` (`jwt.strategy.ts:10-16`), `verifyRefreshToken` (`auth.service.ts:79`) and
`verifyEmailToken` accept each of them, and none looks at a type or at the customer's row. So a token that was mailed is
an access token from the moment it is asked for, and an access token can be exchanged for a new one. `valid` holds the
tokens, each a customer and a role; `Sign` adds one, and nothing but time ends one (`Expire`).
The model is of a deployment with `ADMIN_EMAIL` set: without it nobody has a referral code and nobody can register.
`mailed`, `overtaken` and `reinstated` are history: customers a token was mailed to, requests whose customer was suspended since
they read the row, and customers an admin has reinstated.

What the properties say of it. `AdmittedWereMailed` is what remains of "only verified customers are admitted": whoever
holds a token was mailed one at some time. `SuspendedGetOnlyMails` and `SuspensionTakesEffect` are what remains
of "a suspension ends access": a suspended customer that keeps asking for mails keeps a token, so the second is about
one that does not.

`description.constant.ts:3` says that the referral code is optional if the admin unsets the flag; run `CodeOptional` has
the flag unset and a registration refused. The check is or-ed with `NODE_ENV !== 'test'`, so it is only under
test that a customer registers without a code; the row then has no referrer, and `ReferralsEndAtAdmin` is not about it.

By reading, and without a run: `auth.service.ts:50` says that a customer turns ACTIVE after the email is
verified; a reinstatement makes an unverified one ACTIVE, which is the exception `AdmittedWereMailed` names. And
`description.constant.ts:105` says one needs to log in to access a protected method, for which the token of any
mail is enough.

### Passwords

One customer's row and sessions; its status is left to `Accounts`, and every operation touches the row of one
customer only. `visit[v]` is a request with its inputs and the password it has read: `FindForLogin`,
`FindForChange` (behind FreshTokenGuard), `FindForReset` (for `resetPassword` and `registerAdmin`) and
`FindForRefresh` read, and after argon2 has been awaited `IssueTokens`, `ChangePassword`, `ResetPassword` and
`CreateAccessToken` sign or write, or `EndInError` refuses. `PasswordVerified` compares with what was *read*. A hash is the
password it verifies. Tokens of all purposes serve for one another here as in `Accounts`; what counts of one is how it came
about and its age: `signed` by a login or for a mail less than ten minutes ago, `renewed` by `refreshTokens` less than ten
minutes ago, or `old`. `GrowOld` and `ExpireOld` are the time that passes, `MailToken` a mail. `outdated` is
history: requests whose row's password was written since they read it.

`refreshTokens` deletes `iat`, so the token it signs is fresh for another ten minutes. Run `Relogin` shows it against
`description.constant.ts:91`, which says that after ten minutes one has to log in again. The renewed token can be renewed in its
turn, and sessions need not end; no property says they do.

### Mails

`caller[r]` is a request that asks for a mail, with the count it has read; `mail[s]` a mail in the background, its phase
and its calls to SES so far. `Join` stands for `createAdmin` and `register`, which commit the row before they ask for
the mail; `Request` for the three operations with a limit, two of which share a count (`CacheKey`);
`SendEmail` starts the mail and returns without awaiting it, `CountAttempt` writes the count afterwards, `FailToCompose` is the
rejection in between. `CallSucceeds`, `CallFails` (SES may have taken the mail all the same), `Retry` are the backoff; `Notify` the mail
without a limit; `Expire` the hour of a cache entry; `CrashMails` the end of the process with everything in memory.
`letIn` (whose invitation SES took), `granted` (counted mails since the count began) and `overlapped` (two counted requests at
once since then) are history. Addresses, links and templates are left out.

The notices that the webhook's handler would send are never asked for, so the one mail without a limit is the
welcome of `verifyEmail` and `registerAdmin` (`Notify`). By reading, and without a run: if they were, the callback has no case for
`ADMIN_UNRESOLVED_OTHER` (`email.service.ts:337`) and would log its outcome under the message of a verification mail.

### Network

`members`, `referrer` and `pending` are the customers' table, `Refer` and `Activate` change it between requests.
`GetReferralMap` starts the query, `Recurse` is one iteration of the recursive term (`Expanded` joins the last
iteration's rows with the referrals of their referees), `EndQuery` the filter on PENDING, `BuildRow` one turn of the loop in
the order of the query, `ReturnMap` the answer. A statement reads one snapshot, so the table stands still during a
request. `ReferralMapCorrect` compares the map with a definition by paths (`Below`) that knows nothing of the recursion.

By reading, and without a run: `referralViewLevel` 0 means 3 levels, a negative one gives an empty map, and a depth of d shows
the d + 1 levels from 0 to d.

### Pages

A row is its id, the place of its `updatedAt` and whether the filter takes it (`settled`). `Precedes` is the `orderBy` of each
listing, `Matching` the `where`, `From` Prisma's cursor, `GetPage` a request for the next page with `take` of
one more than the limit. `AddRow` and `ChangeRow` edit the table between the pages. `shown`, `again`, `cursors`, `steady` (rows
that matched at the start and have not changed) and `moved` (a row changed its place while it was the cursor) are
history. Times of creation grow with the ids, and no two are equal.

An activity changes by `performTransaction` only, which confirms it: a settled one stays settled. By reading, and
without a run: with a limit of 1 a reader never gets past the first row, since the cursor's row fills the page;
and a commission that is transferred while it is the cursor takes the reader with it, past rows not yet shown.

### Catalog

`FindRow` and `SaveRow` are the two calls of `setOrEditTokenPrice`, `setReferralViewLevel`, `setReferralCodeEnabledStatus` and
`saveUploadedImage`, over a sequence of rows that is meant to have one; `Refused` is the unique column of an image. `ReadStatus` and
`ToggleStatus` are the calls of a toggle, the other changes of a package one call each. `PreparePackage`,
`PrepareTokens`, `CreateCharge` and `RecordPurchaseActivity` are the awaits of a purchase that read the catalog, charge, and
write down what was read. `told` (the last value written), `forked` (tables in which a row was created next to
another), `wanted` (the status completed requests ask for) and `crossed` are history.

By reading, and without a run: two first calls at once leave two rows in Config or TokenPrice, after which the rows a
request updates and another reads may differ (`forked`); and a package that is deleted but still active can be bought, since
`coinbase.service.ts:131` does not look at `deletedAt`.

## Runs

Passing runs, in `PROJECT.json` order:

| Run | Instance | Shows |
|---|---|---|
| `Payments` | two charges, two requests, one rejection, one restart or lost answer, two calculations asked for each charge, three events | a purchase is confirmed exactly when commissions were granted, at most as often as asked for and at least as often as told (`CalculationsAccounted`); refinement of `PurchaseLedger` (`ImplementsLedger`) |
| `PaymentsLiveness` | one charge, two requests, one rejection, one restart or lost answer, one calculation, three events | every event is acknowledged in the end (`EventsEndAcknowledged`), although, as the counterexamples show, nothing is done for any of them |
| `Wallets` | two customers, two requests, two wallets | `OnlyOwnWalletsChange`, `LastEthLostOnlyByOverlap`, `SetDefaultLeavesOne` |
| `Commissions` | a line of three customers, two tiers, rates 0 and 10%, two requests, one batch, two changes | `OneGrantEach` (nobody is paid twice from a batch), `CommissionsEarned`, `NobodyLeftOut`, `DeletedTierStaysDeleted` |
| `Accounts` | an admin and a customer, two requests, one restart, the flag for referral codes unset | `AdmittedWereMailed`, `ReferralsEndAtAdmin`, `SuspensionStands`, `SuspendedGetOnlyMails`, and `SuspensionTakesEffect` under fairness |
| `BackOffice` | see below | `LimitHolds`, `LogTold`; `ReferralMapCorrect`; `NothingMissed`, `OnlyCursorsAgain`; `OneRowTold`, `TogglesCount`, `SoldOnTerms`; `ReplacedPasswordUseless`; under fairness `MailsEnd`, `LetIn`, `PagesEnd` |

Runs that end in a counterexample, each for a sentence of the code's own comments or messages:

| Run | Property | What happens |
|---|---|---|
| `NeverConfirmed` | `CompletedPaymentConfirms` | the event of a completed payment is delivered, fails at controller line 53, is acknowledged, and the purchase is not confirmed |
| `ErrorAcknowledged` | `FailedIsNotAcknowledged` | the failed delivery is answered with 201, and the event never comes again |
| `LastEthWallet` | `EthWalletRequired` | a deletion and a change of type, or two deletions, each count the ETH wallet the other one takes |
| `CodeOptional` | `CodeOptional` | the flag is unset and a registration without a code is refused |
| `PageRepeats` | `PicksUpWhereLeft` | the last row of a page comes again as the first of the next, in a table nobody changes |
| `Relogin` | `ReloginForChange` | a token older than ten minutes is renewed, and the new one admits a change of password |

Bounds. In Payments `MaxEvents` 3 is NEW, PENDING and COMPLETED for one charge, or a payment for one and a NEW
event for another; two charges are the least for which two purchases, or a purchase and a calculation of another one, overlap;
`MaxAsked` 2 lets two calculations of one charge overlap, or one be asked for again after its answer was lost;
`MaxCrashes` covers a restart or a lost answer between any two steps, `MaxErrors`
one rejected call anywhere, with or without its effect. Two requests are enough for every pairwise race in the services, which never
wait on each other. Two wallets are the least for which the last ETH wallet and a change of
default have an interleaving; two customers show a request that touches the wrong one. Two tiers
above a buyer with two referrers give a gap (tier 2 without tier 1), a tier with rate 0 and a
recursion that must go past the first level; two changes put one change of tier and one of status in
any gap between the reads. In Accounts one
customer next to the admin is enough for a second registration with the same email, a referral to oneself and
a suspension by and of an admin, and two requests for each pair of a decision and a suspension. Symmetry is over requests, charges and, in
Wallets, customers, and never in a run with a liveness property.

`BackOffice` has, for `Mails`, one customer who is the admin (so that all three operations apply and two share a
count), two requests, one mail at a time, a limit of 2, one retry and one restart; for `Network` four members, which
give a chain with a PENDING one in it and a fork, view levels -1, 0 and 1, and levels that start at 1; for `Pages` each
of the four listings, pages of 2 rows of at most 4, and two edits while a reader is at it, one for the cursor and one
for another row (one for the activities, whose rows come in every order; their theorems hold for any number); for `Catalog` the three kinds of one-row tables, two editors, one purchase, one package, two values and three
changes, enough for two overlapping pairs of calls and an edit between them; for `Passwords` two passwords and two
requests. Deadlock is off where a bounded environment can run out of moves.

Fairness (`FairSpec`). In Payments Node runs every request that can run, so a request makes progress (WF on
`Progress(p)`), and Coinbase repeats an event that is not acknowledged, so each event that is
deliverable again and again is delivered (SF on `Deliver(e)`, because the request slots of the model may be
taken for a while). Nothing is assumed of customers, the admin, failures or the timeline. In Accounts a request
that can go on does (WF on `Progress(p)`) and every token expires (WF on `Expire(t)`: it is signed with an expiry);
failures and restarts are allowed.

In Mails (`MailsFairness`) requests go on, a call to SES is answered one way or the other, backoffs and cache entries run
out; SF where a request waits for a slot, since slots are the model's and the code has as many mails as it needs. For `LetIn`
a customer without the mail keeps asking, its requests do not all fail before the mail, and SES does not refuse every
call for it: without these the code promises nothing. In Pages the reader asks for the next page (WF on
`GetPage`). In Passwords nothing is assumed.

## Theorems

Proved by TLAPS for every value of the constants, from the named assumptions on constants only.

* `Payments_proofs`: `TypeCorrect`, `CalculationsAnswered`, `PaymentsRefineLedger`. The invariant adds to the
  types what a request knows at each step (`RequestOK`: behind `GetCharge` the purchase has a row, before `CreateCharge` the
  code belongs to no charge, a request with an event is about to answer an error) and that purchases in progress are
  *apart*: no two of them have one code, and one past its charge has no activity yet (`Apart`), without which the ledger's
  `Purchase` could happen twice for a code. `CalculationsAccounted` is not inductive: of the calculations asked for some have not
  committed and of the batches some have not been told. `Accounts` counts both (`Calculating`, `Granted`) as sets of requests,
  and each step that begins, commits or answers moves one request from one count to the next. It needs the set of requests to be
  finite (`RequestsAssumption`). The refinement has one lemma for the
  moves of the ledger (`LedgerMoves`) and one that every step is one of them or a stutter (`Implemented`): its guard
  `commissions[c] < asked[c]` and that of `Tell` come from the counts.
* `Commissions_proofs`: `TypeCorrect`, `GrantsEarned`, `EveryReferrerPaid`, `DeletedTiersStay`, `NobodyGrantedTwice`. The invariant follows
  a calculation: what is in force is in `seen`, what was read is in `seen` (`SnapshotOK`), and a
  collected batch is justified and complete with respect to it (`DataOK`). The lemmas before it are about the
  operators: bounds of `Share`, every rated tier lies within `Depth`, and `Collect` returns all of and
  only what the properties speak of. For `NobodyGrantedTwice` two lines above one buyer agree as far as both
  go (`LinesAgree`, by the least level where they would not) and ids fall along a line (`LineFalls`), so a level has one
  customer and a customer one level; the invariant `Distinct` carries that from a batch's grants to the table.
* `Wallets_proofs`: `TypeCorrect`, `WalletsChangeForOwner`, `LastEthKeptWithoutOverlap`,
  `OneDefaultWithoutOverlap`, `OneRequestKeepsEth`. The invariant ties the row a request found to its owner (`JobOK`: a wallet never
  changes hands and ids are not reused) and, for a request that was not overlapped, what it read to the
  table (`FreshOK`). `OneRequestKeepsEth` assumes that requests do not overlap and proves `EthWalletRequired`, which run
  `LastEthWallet` refutes with two: the checks of the four operations are complete (`CreateOK` for a first wallet), and
  what is missing is their atomicity.
* `Accounts_proofs`: `TypeCorrect`, `AdmittedAnsweredMails`, `ReferralsWellFounded`, `SuspensionHolds`, `SuspendedRefused`. The
  invariant adds that rows are numbered without gaps, the first is the admin's and nobody else has the admin's address
  (`TableOK`), that nothing is served before start-up is done (`BootOK`), and what a request still knows: for good that its
  customer exists, was mailed a token, and is an admin if an admin's token is going to be signed (`Knows`), and until it
  is overtaken that the customer is not suspended (`Fresh`).
* `BackOffice_proofs`: `MailsTypeCorrect`, `LimitEnforced`, `LogTruthful`: a read count leaves room for a mail
  (`RoomLeft`), and while no two requests of a budget overlap the mails granted are those counted and the one being
  counted (`Quota`). `PasswordsTypeCorrect`, `ReplacedPasswordRefused`: whoever is not outdated has read the password in
  force (`ReadsCurrent`). `PagesTypeCorrect`, `EveryRowShown`, `OnlyCursorsShownAgain`: the order is that of a number
  (`Rank`), hence total, so that `FirstOf` takes rows without a gap and one row beyond the limit tells whether there is more
  (`NothingBeyond`); steady rows up to the cursor are shown (`Progressed`) and shown ones are not ahead of it (`NotAhead`).
  `PartsBehave`: in the composition of `MCBackOffice` every module behaves by its own specification, since a step of one leaves
  the variables of the others alone; hence `BackOfficeTypeCorrect` and `BackOfficeCorrect`, all the safety properties of run
  `BackOffice` for the specification the run checks.
* `Network_proofs`: `NetworkTypeCorrect`, `MapReturned`, `RecursionStops`. Referrals grow with the ids (`Forest`), which also makes the order
  of the loop right; the rows of the query are sound (`NetworkRowsOK`), after each iteration complete up to its level
  (`Levels`), and the map is right for the rows the loop has passed (`MapOK`). The
  recursion stops, whatever depth is asked for, because the ids it reaches grow with each iteration (`Climbing`); `UNION ALL`
  alone would follow a circle for ever.
* `Catalog_proofs`: `CatalogTypeCorrect`, `OneRowPerTable`, `EveryToggleCounts`, `SoldAsRead`: a row that a request
  found still exists, and an empty table has told of no row (`CatalogRowsOK`), a toggle still knows the status unless it was crossed
  (`StatusOK`), a purchase carries one reading (`TermsOK`).

Only model-checked: the liveness properties (`EventsEndAcknowledged`, `SuspensionTakesEffect`, `MailsEnd`, `LetIn`, `PagesEnd`),
which with ENABLED are out of the prover's reach, and the counterexamples. Every other property of a
passing run is a theorem, for any number of requests and rows. Theorems of properties that no passing run checks:
`RecursionStops`, `PartsBehave` and, under the assumption of one request at a time, `OneRequestKeepsEth`, whose property run
`LastEthWallet` refutes without it.

## Plan

Done, in this order: `PurchaseLedger` and `Payments`; `Wallets` and `Commissions`; `Accounts`; `Mails`; `Network`, `Pages` and
`Catalog`; `Passwords`; each with its runs and proofs.

What could be added: the handler behind `coinbase.controller.ts:53`, once `verify` is awaited there (payment rows,
statuses, notices, and what overlapping or reordered deliveries do to them); the purchase path and the catalog in one state
(a purchase of `Payments` that reads `Catalog`), status
changes of `Accounts` as the environment of `Commissions`, and a property for the defaults that `createWallet` and `updateWallet`
write.

## Not modelled

Reasons are in `PROJECT.json`. In short: the handling of webhook events behind `coinbase.controller.ts:53` is never
reached; signing of tokens, S3, SES and Coinbase themselves are
external and appear only as what they can answer; formatting, templates and logging are output; `price * 100`
in ConfigService is floating point; the Prisma connection loop interacts with nothing.
