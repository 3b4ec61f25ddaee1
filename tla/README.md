# Verification of Crossborder-ERP

TLA+ models, TLC checks and TLAPS proofs for Crossborder-ERP: the backend
(`backend/apps`, Django and Django REST framework) and the four front ends that
use it (`admin-web`, `user-web`, `mobile-h5`, `web-app`: React). The business is parcel
consolidation: members forecast parcels or have them bought, a warehouse
receives them, members group them into waybills and pay from a wallet, the
warehouse ships waybills alone or in batches.

Paths below are relative to the repository; `services.py:N` is in the app that
is named.

## 1. The system

Almost every state change is a function in some app's `services.py`, decorated
with `@transaction.atomic`: it locks the row it is about
(`select_for_update`), checks its status, writes, and commits. A function that
raises rolls back. Views find the row, call one function and answer. There are
no background jobs and no message queues; what runs concurrently are the
requests of members and administrators, each in a worker of its own. SQLite is
the database of development, where writers take turns; production is meant to
run on PostgreSQL (`docs/adr`), where only the locked rows exclude each other.
The row-lock behaviour is listed as not verified by the repository itself
(`docs/known-issues-and-roadmap.md:15-19`).

| component | state | operations | talks to | what makes it correct |
|---|---|---|---|---|
| Parcels (`parcels`) | parcels and unclaimed parcels, each unique by tracking number; inbound records | forecast, import, inbound, scan, claim, approve, reject | waybills and purchases write parcels | a number is received once, for one owner |
| Waybills (`waybills`) | waybills, the parcels of each, tracking events | create, review, set fee, cancel, ship, receipt, event | parcels (status), wallet (payment) | goods are on one waybill at most and follow its status |
| Shipping batches (`waybills`) | batches and the batch of each waybill | create, update, add, remove, lock, ship, event | waybills | one warehouse and channel, a frozen list, whole shipments |
| Wallets (`finance`) | wallets, transactions, payment orders, recharge requests | recharge, deduct, remit, review, pay | waybills, purchases | every balance explained, nothing charged or credited twice |
| Payables (`finance`) | suppliers, cost types, payables | create, update, confirm, settle, cancel | none | settled once, from a confirmed row |
| Purchases (`purchases`) | orders, procurement tasks | create, pay, review, procure, arrive, exception, cancel, convert | wallet, parcels, cart | no unpaid work, task in step, one parcel per order |
| Catalogue and cart (`products`) | categories, products, SKUs, cart rows | edit, add to cart, check out | purchases | stock and prices as checked |
| Members (`members`) | users, profiles, reset tokens, points, referrals, rebates | register, login, reset, freeze, adjust, refer, rebate | all | tokens used once, points explained |
| Addresses, files, tickets, content, regions, warehouses | one or two tables each | edit, publish, delete | several read them | one default address, usable files |
| Audit and approvals (`audit`) | log rows, approval requests | log, request, approve, reject | called by middleware only | two persons for one approval |
| Administrators (`iam`) | roles and permissions | login, permission check | every view | who may call what |
| Sessions of the front ends (`features/auth/store.ts`, `api/client.ts`) | token and user in memory and localStorage, the query cache | login, logout, 401, reload, save profile | every request | sessions kept apart, dead ones end |
| Pages of `admin-web`, `user-web`, `mobile-h5` | lists in a query cache all pages share (TanStack Query); dialogs, forms, selections; mutations on their way | load, open, type, upload, confirm, dismiss, success and error handlers | backend over HTTP, other pages by the cache | what was done is shown, offered controls work, requests go where they were meant, once |
| Pages of `web-app` | lists in the state of each page, forms | the same, with load functions of their own | backend over HTTP | the same |
| Scripts, deployment | - | - | - | not part of the models |

The front ends are where most of the program's own concurrency is: requests,
answers and loads of one page overlap each other, the answers change lists,
dialogs and forms that may show another record by then, other people change the
same records, and a list that is cached keeps its old statuses.

The hard behaviours, in the order the models take them up: rows of several
tables that must agree after every operation (parcel, waybill, batch, event);
scopes and copies that depend on the order of calls (a batch's channel, its
transfer number); two tables that share a key without a constraint between
them (parcels and unclaimed parcels); repeated and raced payments and reviews;
lock order between a payment and a review; partial failure of a transaction;
then, in the front ends, overlapping loads, late answers, forms reused for
another record, double clicks and retries, and sessions that end anywhere.
`PROJECT.json` lists the hazards at their lines, the ones no property covers
yet included.

## 2. Modules

| module | models | source |
|---|---|---|
| `Custody` | what the warehouse promises about goods, as an abstract specification | none: it is what `Fulfilment` is compared with |
| `Fulfilment` | parcels, waybills, batches, events | `waybills/services.py`, `parcels/services.py`, the waybill side of `finance/services.py` |
| `MCFulfilment` | symmetry for TLC | |
| `Fulfilment_proofs`, `Custody_proofs` | theorems on both | |
| `Intake` | parcels and unclaimed parcels by tracking number | `parcels/services.py`, `parcels/import_export.py` |
| `Purchases` | extends `Intake` by purchase orders and procurement tasks | `purchases/services.py` |
| `MCPurchases`, `Purchases_proofs` | TLC symmetry, theorems | |
| `Wallet` | wallets, transactions, bills, payment orders, requests | `finance/services.py`, the payment in `purchases/services.py` |
| `MCWallet`, `Wallet_proofs` | TLC symmetry, theorems | |
| `WalletRace` | extends `Wallet`: its transactions taken apart into locks, reads, commit | lock statements of `finance/services.py`, PostgreSQL |
| `MCWalletRace`, `WalletRace_proofs` | the competing requests; theorems | |
| `ERP` | extends `Fulfilment` and joins it with `Purchases` and `Wallet` over the same rows | the functions that write to two sides: both payments, conversion, intake |
| `MCERP`, `ERP_proofs` | TLC symmetry, theorems | |
| `Session` | tabs of one browser: tokens, localStorage, query caches, calls on their way | `api/client.ts`, `features/auth/store.ts`, logout handlers |
| `MCSession`, `Session_proofs` | TLC, theorems | |
| `PageParts` | how a page is described: lists, panels, effects, forms | antd, TanStack Query as the pages use them |
| `Backend` | what the server does with an operation, as far as a client can tell: statuses accepted, status left, lists changed | `services.py` and `views.py` of all apps |
| `AdminPages`, `AdminSetupPages` | the pages of `admin-web` | `admin-web/src/features` |
| `MemberPages`, `MobilePages`, `WebAppPages` | the pages of the other three | `*/src/pages` |
| `FrontEnds` | all pages together | route tables |
| `Desk` | a page at work: its lists, loads, form, requests; its user, the server, other people | the load functions, mutations and dialogs of all pages |
| `MCDesk`, `Desk_proofs` | the known exceptions, TLC symmetry; theorems | |

State and code. A table is a function from row names to records; a row that is
not inserted has status `"NONE"`. A service function is an action of the same
name in camel case: its early `raise`s are the guards, its `save` and `update`
calls the primed variables. A call that returns the row unchanged (shipping a
shipped batch again, paying a paid bill again, scanning a number that is
registered as unclaimed) is a stuttering step and is said so at the action.
Operators called `X_Y`, commented `mutant`, are deliberately wrong versions of
`X`; no action uses them. They are what each property is tested against.

Composition. `Purchases` extends `Intake`, so that forecasts, scans, claims
and conversions compete for the same tracking numbers. `Intake!Core` is
`Fulfilment` with no waybills: every step of the intake and of the purchases
is an arrival as `Fulfilment` knows it, which is why `Fulfilment` can do
without unclaimed parcels. `WalletRace` uses the variables of `Wallet` as the
committed rows, and `Wallet!Spec` is the property it is checked against: the
atomic actions of `Wallet` are justified by that run. Payment is in two
modules: `PayWaybill` of `Fulfilment` is the status half and `Pay` of `Wallet`
the money half of one transaction; `PayPurchaseOrder` likewise.

`ERP` joins the halves. The parcels and waybills are the rows of `Fulfilment`.
`Purchases` is instantiated with `Stock`, the same parcels without what waybills
do to them (intake and conversion never look at that), and `Wallet` with
`BillRows`: a waybill is a bill once a fee above 0 is asked for and settled from its
payment on, a purchase order is one from the start. `PayForWaybill` is
`PayWaybill` and `Wallet!Pay` in one step, `PayForPurchase` and
`ConvertPurchase` likewise; every other operation is that of one side and leaves
the others alone. The property `ImplementsParts` says that nothing was lost by
looking at one side at a time: every step of the whole is, for each of the three
specifications, a step of its own or none. That is not a matter of form. It fails
if a paid waybill can be cancelled, because `Wallet` has no step that takes a
settled bill back.

Pages. The front ends repeat a few patterns some hundred times, so a page is
data and `Desk` is the machine that runs it. `PageParts` says what a page is; a
definition in the page modules stands for one part of one component (the
queries, one table with its controls, one group of modals, the `onSuccess`
handlers) and is named after it. Read with its lines it answers: which lists
does this load, in which statuses does a row show this control, which lists
does a success write or load again, when is this button disabled, is the form
emptied before it opens for another row. `Desk` has one action per thing that
happens: `ServerReads`, `Arrives`, `LoadFails` for a load; `Open`, `OpenNew`,
`StartUpload`, `EndUpload`, `Dismiss`, `Confirm` for the user; `Runs`,
`Refuses` for the server; `Succeeds`, `SucceedsAway`, `Rejected`, `Lost` for
the answer; `Foreign` for other people; `Go` for navigation. Lists do not
influence each other, so a behaviour watches one list (`desk`): the table the
operations stand in, or a list they change elsewhere. `Desks` enumerates all
such places of all pages, and TLC starts from each of them.

`Backend` repeats, per operation, the guard and the outcome of functions that
`Fulfilment`, `Intake`, `Purchases` and `Wallet` have in full; for the other
apps (payables, catalogue, members, tickets, content, configuration,
administrators, regions, addresses) it is all there is, and their components
are therefore "partly".

What the page modules leave to `Desk` is the difference between two caches.
A query cache drops a load that is on its way when the list is invalidated,
unless it is the first; a list that nobody shows is only marked; a list older
than 30 s is loaded again when a page shows it. `web-app` has none of this: its
load functions run next to each other and the last answer wins.

Known exceptions. Four constants of `Desk` name the places where a page does
not do what the properties say: `Stale` (a list an operation changes and the
page does not load again), `Denied` (a control shown for a status the server
refuses), `Slips` (a form that may send to another record, or what was typed
for another), `Repeats` (a form that can take effect twice). `MCDesk` lists them
by page and operation, 56 entries in a dozen patterns; the properties hold for
everything else, and the `ASSUME`s of `Desk` state what a page must look like to
need no entry. They are what a reviewer of a page would want to know:

- the wallet is kept under three keys by three pages, and a payment renews one;
- shipping one waybill renews neither batches nor parcels; converting a
  purchase does not renew parcels;
- the profile is put into the cache while an older answer may be on its way;
- `web-app` offers shipping for a draft batch, adding to a locked one, receipt
  for a signed waybill and replies to a closed ticket;
- replies, notes, claims and uploaded photos can end in the form of the next
  record; a saved member comes back into the drawer of another;
- the action dialogs of `web-app` have no lock against a second click.

Abstractions. Weights, sizes, prices other than the amount due, addresses,
texts, operators and times are left out. Amounts are small naturals: cents. A
disabled warehouse or channel is refused when a row is made and read nowhere
later, so the constants are the active ones. Permissions are left out: anyone
may call anything, members only for themselves where the code compares the
owner. `cancel_waybill` has no HTTP endpoint but is tested and modelled.

## 3. Runs

| run | instance | distinct states | shows |
|---|---|---|---|
| `batch` | 2 members, 2 parcels, 2 waybills, 2 batches, 2 warehouses, 1 channel or none, 2 transfer numbers, 1 note | 139 thousand | goods, waybills, events and batches agree; scope of a waybill; locked lists, fees and contents are frozen; refinement of `Custody` |
| `erp` | 2 members, 2 parcels, 1 waybill, 1 batch, 1 warehouse, 1 purchase, 1 request, 2 keys, one balance limit | 184 thousand | what leaves or was bought is paid for, once and in full; refinement of `Fulfilment`, `Purchases` and `Wallet` |
| `wallet` | 2 members, 2 currencies, 1 waybill, 1 purchase, 2 requests, 2 keys, amounts 1 and 2, balance to 3, 3 rows a wallet | 142 thousand | explained balances; charged once, credited once |
| `race` | 3 workers, 7 kinds of request on one wallet, 2 bills, 2 request rows | 182 thousand | no stale write, deadlocks only with a review, refinement of `Wallet` |
| `race_ends` | the same with 2 workers, liveness | 79 thousand | every request ends |
| `sourcing` | 2 tracking numbers, 2 members, 2 warehouses, 2 orders | 119 thousand | one receipt, one owner, tasks and payments in step, refinement of the arrivals of `Fulfilment` |
| `session` | 2 tabs, 2 people, 2 tokens, 1 reload, 1 profile save at a time | 360 thousand | data crosses between people only over a 401 or a late save; liveness: dead sessions end, the name heals |
| `pages` | every page of the four front ends, 2 records, 2 requests, 1 trouble | 2.2 million | own writes shown, offered controls accepted, intent kept, one effect |
| `foreign_data` | 1 tab, 2 people, 2 tokens, no reload, no profile save | violation | finding 4 |
| `mixed_channel` | 2 parcels, 2 waybills, 1 batch | violation | finding 1 |
| `stuck_batch` | the same | violation | finding 2 |
| `unmatched` | 1 number, 1 member, 1 warehouse | violation | finding 3 |

Bounds and why they are enough to be interesting. Conflicts here are between
two rows of one kind (two waybills over a parcel, two batches over a waybill,
two conversions over a number), so two of each. Two transfer numbers, one of them
the empty one, show a stale copy. `MaxNotes` bounds free-text events, which
nothing reads. In `Wallet`, `MaxRows` bounds the transactions of one wallet: 3
allow a credit, a payment and a second charge; `MaxBalance` stands for the
limit of `decimal(12, 2)` and is reached. In the races the amount is 1 and the
balance at most 2, so that the wallet covers one of two bills: the case in
which a double charge hurts. A purchase is paid with the key of a waybill, so
the unique index on keys matters. In `erp` the
conflicts are between sides, so one waybill and one purchase that want the same
parcels, members and money: two keys, a balance that covers one of two bills, a
fee of 0 and one above. The proofs need none of these bounds. Symmetry is over
sets of model values that no constant tells apart, in runs that check no
liveness.

In `session`, two tokens are a session and the next one, or the sessions of two
tabs; a profile save may be on its way in one tab while everything else
happens. In `pages`, two records tell "the record meant" from "the one shown
now"; two requests let one overtake, repeat or close the dialog of the other;
`MaxTroubles` counts what a user does not do themselves: a failed load, a lost
answer, an operation of somebody else, a visit to another page. The number of
loads and of openings of a form is not bounded. With `MaxTroubles` 2 the run
leaves its five minutes; the same properties were checked with 2 on the pages in
which troubles can combine (`MemberUnclaimed`; `WaybillOps`; `WebTickets` and
`WebAdminUnclaimed`; `MemberPurchases` and `ParcelWms`), and the proofs below
need no bound.

Deadlock checking is off in every run: all rows may be used up (every waybill
signed, every order completed, no row left to insert), and then the system
rightly has nothing to do. In `Session` and `Desk` all tokens may be used up, or
all requests sent.

Fairness is assumed in `WalletRace` and in `Session`. In `Session` a user who
stays signed in keeps using the page, so the "me" query is sent again (weak
fairness of `Send`); a query that is sent again and again is answered one day
(strong fairness of its answer; the queries retry once by themselves, and every
page that mounts loads); the effect that compares the cached user with the
stored one runs (weak fairness of `SetUser`). Nothing makes people sign in or
out, tokens expire, or a mutation be answered. `Desk` has no liveness property:
a load or a request may stay on its way.

In `WalletRace`: a lock in PostgreSQL has a queue, so
a request that can take its next lock again and again gets it: strong fairness
of `Acquire` and of `Commit` for each worker. The deadlock detector runs after
`deadlock_timeout`: weak fairness of `ResolveDeadlock`. Nothing makes clients
send requests and nothing makes a connection break: no fairness on `Start`,
`Abort` or `Elsewhere`. The mutant without a detector shows that the assumption
carries the property: payment and review then wait for each other for ever.

### What the code does not live up to

1. **Mixed channels** (`waybills/services.py:100`). A draft whose first waybill
   has no channel keeps channel NULL, and NULL is not compared; a waybill with a
   channel then joins. The check's own message says that a batch holds one
   channel only. The test of that message adds both waybills in one call.
2. **Stuck batch** (`waybills/services.py:531`). `ship_waybill` does not look at
   the batch of a waybill. Afterwards the batch cannot be locked or shipped, and
   a locked one cannot release the waybill either.
3. **Unclaimed but matched** (`parcels/services.py:88`). A number registered as
   unclaimed can be forecast by a member, and a forecast number scanned in
   another warehouse becomes unclaimed. The row stays on offer to all members,
   and a claim on it can never be approved. The run has one warehouse and shows the
   first way: the scan, then the forecast. The second way needs two warehouses and
   ends with the same two rows.
4. **Data of another person** (`user-web/src/api/client.ts:35`, the same text in
   `admin-web` and `mobile-h5`). The logout button empties the query cache, a 401
   does not, and login does not either. The keys of the cache hold no user, so
   the next person to sign in in that tab is shown what the cache holds of the
   one before. Saving a new password leads there directly: it ends the token it
   was saved with. The run has one tab and no profile saves and shows this case: a
   login, a load and its answer, a token that expires, a 401, the login of another
   person. There is a second way, which is not in that run: the button is pressed
   while a profile save is on its way, and `onSuccess` puts the answer into the cache
   that the button had emptied. `CleanAfterSignOut` says that these are the only
   two.

A further fact the models keep, without a statement to hold it against: a paid
purchase that is cancelled out of `EXCEPTION` is not paid back
(`PaidMeansSettled` says exactly that much), and a fee of 0 is accepted and can
never be paid.

Two statements of the docs that no property contradicts, and that the code does
not implement. `docs/ai-dev-baseline/02-domain-model-state-machines.md:172-173`
lists the statuses `REJECTED` and `ARCHIVED` of unclaimed parcels; the table
(`parcels/models.py:21-24`) has neither, and `reject_unclaimed_claim` makes the
parcel `UNCLAIMED` again, which is what `Intake` models. The same document (`:254`)
lets a purchase return from `EXCEPTION` to `PENDING_REVIEW` or
`PENDING_PROCUREMENT`, and `08-qa-security-deployment.md:53` asks for a test of
that; no function does it, and an order only leaves `EXCEPTION` by being cancelled.

One thing the models cannot show, because they describe what the functions do
where they run. Several queries join `select_for_update()` with `select_related()`
over a relation that may be missing: the batch of a waybill
(`waybills/services.py:73-74`), the claiming member of an unclaimed parcel
(`parcels/services.py:275`, `:320`), the profile of a user
(`members/services.py:260-261`, `:393`, `:433`, `:513`). SQLite ignores the lock;
PostgreSQL refuses `FOR UPDATE` on the nullable side of an outer join, so there these
calls would raise before they do anything. `select_for_update(of=("self",))` is the
usual form. Like the locks themselves, this was not run on PostgreSQL here.

## 4. Proofs

All theorems hold for every value of the constants under the named `ASSUME`s:
`Null` is no member, warehouse, channel or batch; amounts, fees and bounds are
naturals; the empty transfer number is one of the transfer numbers; waybills,
purchases and requests are distinct as references. In `WalletRace`, recharges,
deductions and remittances ask for positive amounts (the services check that
before they lock anything), a review names a request and a payment a bill, and
the owner of a free lock is no client. In `ERP`, `Null` is no row and no key, and
amounts and references are as in `Wallet`; `ERP_proofs` derives the assumptions of
the instances from these.

- `TypeCorrect`: `Fulfilment` is well typed.
- `CustodyCorrect`: the invariant of goods. `SoleCustody` and
  `GoodsFollowWaybill` are inductive only together: a second waybill cannot take
  a parcel because its status says it is taken, and the status says so because
  exactly one waybill holds it. `NeverEmpty` (a live waybill has goods) is added
  for the refinement. Every action is first classified by what it does to goods
  (announce, arrive, pack, unpack, leave, or nothing), in lemmas of their own;
  the invariant is then proved per kind of step.
- `FulfilmentImplementsCustody`: initial states map to initial states, each kind
  of step to the custody step of that name or to a stutter.
- `CustodyOnePlace` and `CustodyKeepsGoods` are about `Custody` itself: goods are
  in one place, none are lost, and what has left stays out. `StockIsKept` brings the
  second down to the rows through the refinement: no sequence of waybills,
  cancellations and batches makes received goods unreceived.
- `BatchesCorrect`: `BatchScope`, `TransferNoFollowsBatch` and `BatchShipsWhole`,
  strengthened by `RowsFilled`: an inserted row names its warehouse (so that an
  empty warehouse means an empty batch) and a batch that is not inserted has no
  members.
- `AlwaysWaybillScope`. To the owners of goods a step either picks stock of one
  member and one warehouse for a new waybill or changes no owner, warehouse or
  contents. Strengthened by `LinksFilled`: nothing is on a waybill before it is
  inserted, and no parcel before it is.
- `AlwaysShippedOnce`, by itself: only `ShipWaybill`, `ShipShippingBatch` and
  `ConfirmReceipt` write the events it counts, each with the status it goes with.
- `LockedListCorrect` and `FrozenCorrect`, the two action properties of
  `Fulfilment`, from the types alone. A waybill changes batch only between none
  and one that is not locked (`OnlyMoves`).
- `LedgerCorrect`: balances stay in range and every ledger explains its balance.
  One lemma on `Post` carries all five money operations. Strengthened by
  `RowsFilled`: bills and requests name an existing wallet.
- `AlwaysPaidMeansSettled`, by itself over well-typed states.
- `MoneyCorrect`, which is `ChargedOnce` and `CreditedOnce` together. A movement of
  money appends one row to one ledger (`PostAddsRow`), so the rows of every other
  bill and request stay what they are; a bill that is paid has no order yet, by
  `PaidMeansSettled`, and so no row.
- `RaceCorrect`. A running client holds exactly the locks of the part of its plan it
  has done, and what it read or checked under a lock is still so (`Seen`), because
  only the holder of a row writes to it. From this, `RaceImplementsWallet`: a
  commit is one step of `Wallet`, every other statement changes no row. It holds
  for any number of clients and requests; TLC has three. `RaceKeepsBooks` carries
  the theorems of `Wallet` over, and `AlwaysNothingStale` is what the step used.
- `AlwaysOnlyReviewsDeadlock`. Bill, wallet, payment number: whoever waits holds
  only earlier rows, so that a circle of clients without a review would have a
  last one that waits for nobody. `AlwaysSomebodyProceeds` is the same argument for
  all requests that run: not only is there no circle, there is always one that can
  go on.
- `SourcingCorrect`: the invariant of parcels, claims, orders and tasks. An
  order's parcel is in stock and never claimed; stock is never touched by the
  intake (`StockKept`), which is what keeps `ConvertedOnce` true across modules.
  `RowsNamed` supplies owner and warehouse of what is inserted.
- `OwnershipCorrect`, the action property of the intake, and `ArrivalsCorrect`: with
  no waybills and no batches, every step of intake and purchases is one of
  `Fulfilment`'s parcel steps or changes no parcel.

- `ERPInvariant`, of the whole. The invariants of `Fulfilment` and of `Purchases` had to
  be joined, because each needs a fact of the other: that a converted parcel gets a
  member, which its type in `Fulfilment` wants, is known to `Purchases`
  (`RowsNamed`), and that waybills are shipped or given back from what was
  received, so that `Stock` stays, is known to `Fulfilment` (`GoodsFollowWaybill`). `FeesAsked` is
  added: a waybill has no fee before one is asked for, and is not past its payment
  without one above 0. So a waybill with the fee 0, which nobody can pay, is also
  never shipped.
- `ERPImplementsParts`: one lemma per side (`GoodsNext`, `SourcingNext`, `MoneyNext`)
  shows that every step of the whole is a step or a stutter of that side. For
  `Wallet` it classifies every step by what it does to bills: at most one bill is
  presented, settled or called off, the rest stay.
- `AlwaysGoodsArePaid` then needs no induction: `ChargedOnce` and
  `PaidMeansSettled`, proved of `Wallet`, hold of the whole by the refinement, and
  meet `GoodsFollowWaybill` and `ConvertedOnce` in one state (`PartsMeet`).
  `WholeKeepsParts` lists further invariants that are carried over in the same way.

- `Desk_proofs!TypeCorrect`, strengthened by what form and requests know of each
  other: a form has a record if and only if its operation needs one, a request
  that still belongs to the form finds it open, and an answer for a row brings a
  status of its kind.
- `OwnWritesCorrect`: what the user saw succeed is in the list at rest. The
  invariant is `LastBrings` (the load that was asked for last brings everything
  owed, once it is read, or is marked late) and `ListBrings` (so does the list
  while nothing is on its way). It uses `StaleAssumption`.
- `OfferedCorrect`: form and request remember a status in which their operation
  was offered, and `DeniedAssumption` says that the server accepts those.
- `IntentCorrect`: the open form holds what was typed for its record, and no
  answer or upload changes that, on pages that meet `SlipsAssumption`.
- `EffectCorrect`: what was confirmed takes effect once. The invariant has one part for
  each reason why a second effect cannot happen: repeating the operation changes
  nothing (`OnceIdem`); the record has left the statuses that accept it
  (`OnceFinal`); or the form is locked, has one request on its way and no error told
  the user to try again (`OnceLocked`). `RepeatsAssumption` says that every page has
  one of them or is an exception. Somebody else may bring the record back to a status that
  accepts the operation (freeze, unfreeze, freeze): that makes it a record the form
  has not acted on yet, which is what `Reopened` in `Desk` says.
- `SignOutKeepsApart`: another person's data is only met in a tab that was cut,
  which is to say that, since its cache was last emptied, a 401 ended a session of
  the tab or the answer to a profile saved in another session came in. It does not
  say that the button is enough: a save that is out when it is pressed cuts the tab
  when it is answered. The invariant gives what a tab holds to a session: in a tab that
  was not cut, the loads that may still enter the cache, and the cache, are those of
  the token the tab has.

These hold for any pages, server, records and bounds that meet the named
assumptions; TLC evaluates the assumptions on all pages in the run `pages`.

Every invariant and every action property that a passing run checks is proved,
and so are the four refinements (`ImplementsCustody`, `ImplementsWallet`,
`ImplementsArrivals`, `ImplementsParts`). Only model-checked are
`DeadSessionLeaves`, `NameHeals` and `EveryRequestEnds`: liveness under fairness is
out of the prover's reach. `AlwaysSomebodyProceeds` is the part of the last one
that is safety.

## 5. Not modelled

See `PROJECT.json`, "components", for the reason of each. In short: files,
approvals, the points ledger and referrals are not modelled; payables,
catalogue and cart, members, addresses, tickets, content, regions,
configuration and administrators only as far as `Backend` goes; parsing,
exports and scripts are left out. Refunds, the statuses `PACKED`, `PROBLEM` and
`CANCELLED` of parcels, `PROBLEM` of waybills and `CANCELLED` of batches exist in
the models of the code and are written by no function.

Of the front ends: pages that only read (content, points, referrals, rebates,
audit log, dashboards, help), registration and password reset forms, filters,
paging, exports, print previews, permissions that hide controls, and the bodies
of requests. The last hides a fault the model cannot have: the two forms of
`web-app/src/pages/TicketsPage.tsx` name their fields `subject` and `message`
where `tickets/serializers.py` wants `title` and `content`, so that every ticket
of that page is refused.

Hazards without a module: the order in which batch operations lock several
waybills, the stock of a SKU that is compared and never taken, a proof of a
remittance that is deleted before its review, crosswise locks of two members
who refer each other, a category below itself, and the number on a procurement
task that is scanned before its conversion.

## 6. Plan

Done: goods, batches, money and its races, intake, purchases, the three sides
together, sessions, all pages of the front ends, and the proofs of all safety
properties. Left, in this order:

1. *Back office in full*: payables with suppliers that are disabled meanwhile;
   approvals by two administrators; catalogue and regions as trees; cart and
   stock.
2. *Members*: reset tokens, the points ledger, one default address per type.
3. The batch operations statement by statement, against `Fulfilment`, as
   `WalletRace` is against `Wallet`.
4. `WalletRace` under `ERP` instead of `Wallet`: the statements of a payment with
   the status of the waybill among them.

## 7. Running

    tlc -config Batch.cfg MCFulfilment        (MixedChannel.cfg, StuckBatch.cfg)
    tlc -config Wallet.cfg MCWallet
    tlc -config Race.cfg MCWalletRace         (RaceEnds.cfg)
    tlc -config Sourcing.cfg MCPurchases      (Unmatched.cfg)
    tlc -config ERP.cfg MCERP
    tlc -config Session.cfg MCSession         (ForeignData.cfg)
    tlc -config Pages.cfg MCDesk
    tlapm Fulfilment_proofs.tla               (Custody_, Wallet_, WalletRace_, Purchases_,
                                               ERP_, Session_, Desk_proofs)
