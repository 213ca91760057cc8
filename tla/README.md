# Verification of the invoicing and tracking Worker

TLA+ modules, TLC runs and TLAPS proofs kept beside the code. Paths are relative to the
repository; `BS` is `src/modules/billing/service/billing-service.ts` and `BR` is
`src/modules/billing/repo/billing-repo.ts`.

## The system

A Cloudflare Worker scrapes packages from two courier sites into a PostgREST-like database,
answers the public "where is my package" page, and gives agency staff an invoicing panel.
There is no in-memory state between requests and no transaction spans two database calls:
every handler is a chain of HTTP calls, and anything can happen between two of them.

| Part | State it keeps | Operations | Talks to |
|---|---|---|---|
| Invoice lifecycle (`modules/billing/service`, `repo`) | `invoices`, `invoice_line_items`, `invoice_payments`, `invoice_packages` | create (guided, bulk), edit, close, pay, void, archive, link, unlink, share | database; clients, prices, packages |
| Pricing (`billing/catalog`, `domain/calc`) | catalogue, rate cards | quote, tier choice, rounding | invoice lifecycle |
| Receipts, reports, share links (`routes/public`, `receipt-pdf`) | `share_token` | read, render | invoice lifecycle |
| Historical import (`billing/ingest`) | invoices | parse sheets, upsert | database |
| Package ingest (`services/ingest`, `lib/insforge`) | `packages`, `events`, deep-walk offset | list walk, refresh, deep walk, one guide | courier session, database |
| Courier session (`CargotrackClient`, `lib/session`) | cached cookie, login block key | login, fetch with one re-login | Redis |
| Worker entry and cron (`index.ts`) | none | schedule ingest and deep walk | ingest |
| Limiter and cooldown (`lib/ratelimit`) | Redis counters with expiry | check | tracking and staff routes |
| Public tracking (`routes/track`) | none | look up | limiter, database |
| Staff refresh of one guide (`routes/staff`), e-mail hook (`index`, `routes/hooks`) | none | check, start a job | cooldown, ingest |
| Configuration (`modules/config`) | agency, rate cards, concepts | rename, new version, delete | database, audit |
| Customers (`modules/customer`) | `billing_clients` | create, update, soft delete | database, audit |
| SQL functions and tenancy (`migrations/`) | unique keys, RPCs | | all of the above |
| Auth, admin, photo; legacy scraper | none | check, forward, parse | |

What is hard here: two staff members on one invoice, a stale bundle used after other writes,
a chain of calls cut off half way with a compensation that may itself fail, the unique
indexes as the only real arbiter between racing checks, and long legal sequences of edits
that leave tables disagreeing; scrapes that act on a page, a routing and a pre-check that
are all stale by the time they write. `PROJECT.json` lists each such hazard at its line.

What makes each part correct:

- invoices: a package is billed by at most one live invoice; an invoice exists whole or not
  at all; the header's totals and status are those of its rows; a closed invoice does not
  change its amounts; VOID and archived invoices are final and hold no package; numbers are
  unique.
- ingest: one row per guide and tenant, never merged across providers; every open package
  is refreshed eventually; manual overrides survive; a package reaches the right tenant;
  a row reports what its own courier shows.
- session, limiter, cooldown: a dead cookie costs one retry; no login storm after a failure;
  the deep walk sweeps its pages; nobody is refused for an earlier minute; a cooldown ends.
- prices: a card on the list can price, a save does not lose a table, references stay valid,
  and a line is charged by the rate that its request resolved.
- customers: one row per person, and no invoice for a client that is deactivated.

## Modules

| Module | What it is |
|---|---|
| `BillingService` | The invoice lifecycle: tables, requests in flight, one action per remote call. |
| `PackageLedger` | The abstract promise about packages: hold, release, never two holders. |
| `BillingRequirements` | The properties that hold however requests overlap and fail, and the mapping of the link table to the ledger. |
| `AtomicRequirements` | All or nothing: what a creation leaves behind. Adds the history `stranded`. |
| `BooksRequirements` | Totals, paid amount, status and links of an invoice. Adds the histories `mixed` and `leaky`. |
| `PackageIngest` | How packages get into the database: scraping jobs, staff, couriers. |
| `IngestRequirements` | The properties of the ingest. |
| `CourierSession` | The login session that scrapes share, the login block and the deep-walk offset. |
| `RedisGate` | The limiter of the tracking page and the cooldown of the refresh button. |
| `AgencyRates` | Rate cards, legacy tables, defaults, a charge concept, and the backfill script. |
| `PriceQuote` | Extends `AgencyRates` with a request that prices a line while rates change. |
| `ClientDirectory` | Clients, the merge of similar ones, and how an invoice finds its client. |
| `BillingProofs`, `IngestProofs`, `CourierProofs`, `GateProofs`, `RatesProofs`, `ClientProofs` | Theorems and proofs for every value of the constants; `RatesProofs` covers `PriceQuote` too. |
| `AtomicProofs`, `BooksProofs` | The same for the two modules of requirements, on top of `BillingProofs`. |
| `MCBilling`, `MCBooks`, `MCIngest`, `MCCourier`, `MCRates`, `MCQuote`, `MCClients` | Instances for TLC. |

`PriceQuote` composes pricing with the configuration, because they share tables. The other
groups share no state in the model: billing sees packages, clients and prices as ids and
units, the ingest neither reads nor writes an invoice, `CourierSession` ends where the page
begins, and an admitted refresh of `RedisGate` is a job `one` or `any` of `PackageIngest`.

### How BillingService corresponds to the code

The tables are functions from invoice ids: `status`, `closed` (`closed_at` is set),
`archived` (`deleted_at` is set), `number`, `total`, `paidUsd` are columns of `invoices`;
`lines` holds the line rows with the request that posted them (so that two posts of the
same item are two rows); `payments` is the sum of the payment rows; `link` is the row of
`invoice_packages`: none, active or released. `pc[r]` is the next remote call of request
`r` and `loc[r]` what it has been given or has read.

| Endpoint (method in `BS`) | Actions |
|---|---|
| create (`createInvoice`) | CreateResolve, ReadNumber, InsertHeader or HeaderRefused, InsertLines, LinkBatch, GuardLinks; on failure UndoLinks, UndoArchive |
| bulk (`createBulkInvoice`) | BulkPreview, then as create |
| edit (`updateInvoice`) | EditReadHeader, EditReadRows, EditResolve, EditDelete, EditInsert, EditLink*, EditUnlink*, EditPatch |
| close (`closeInvoice`) | CloseRead, CloseCas |
| pay (`applyPayment`) | PayReadHeader, PayReadRows, PayInsert, PayStatus, PayTotals |
| void (`voidInvoice`) | VoidRead, VoidStatus, ReleaseLinks |
| archive (`archiveInvoice`) | ArchiveRead, ArchiveStamp, ReleaseLinks |
| link, unlink | LinkRead, LinkCheck, LinkPost; UnlinkRead, UnlinkPatch |
| any | CreateCallFails, CallFails, Crash |

Faults are of three kinds. A call that throws inside the `try` of a creation starts the
compensation (`CreateCallFails`). A call that throws anywhere else ends the request
(`CallFails`), and so does one of the two writes of `rollbackPartialInvoice`, whose error is
logged and swallowed (`BS` 472-496). The Worker may be cut off at any call (`Crash`).

A remote call and the local code up to the next call are one action. A guard that throws
has no action of its own when nothing was written and nothing else was read: the request
just does not start. The database's own rules are operators: `LinkConflict` is the partial
unique index of `20260907010000`, `NumberTaken` the unique key on tenant, year and number,
`Upserted` PostgREST's merge, which leaves `active` alone on an existing row because the
payload does not name it (`BR` 700-706).

Abstracted: one tenant and one fiscal year; every line costs one unit, so a total is a
number of lines and `EPS` is below the unit; clients, prices, weights and package
attributes (a `Package` passes those validations); the plain header fields of an edit (an
edit that changes no lines writes nothing the properties see); event and audit rows.
`Loose` and `Other` are freight lines without package and other charges. `Amounts` holds 0
for a C$ payment without a rate, which counts as nothing (`BS` 224-229).

### How PackageIngest corresponds to the code

`IS` is `src/services/ingest.ts` and `IF` is `src/lib/insforge.ts`. The table `packages` is a
function from tenant and guide, its unique key since `20260929051106`: `prov`
(`provider_id`, or no row), `scraped` (`status`), `manual` (`manual_status`), `deleted`, and
`older`, the set of rows with an older `scraped_at`, which is all the refresh asks of the
timestamps. `site` and `box` are what each courier's site shows of a guide. A job `j` is one
invocation of the Worker with its own locals `loc[j]`; `late[j]` is history, written by every step
(`Recorded`).

| Code | Actions |
|---|---|
| `ingestProvider`, `ingestPage`, `ingestAll` | Walk, one page at a time: FetchListed per row, PreCheck, Post per key signature |
| `refreshOpenPackages` (cron, admin) | Refresh, then FetchSingle, PreCheck, Post per guide |
| `ingestOne`, `ingestOneAnyProvider` (hook, staff, admin) | One, AnyProvider, then as above |
| any | FetchFails, CallFails, Cut |
| `create_package`, `set_manual_status`, `delete_package` | Create, SetStatus, Delete |
| the courier | Arrive, PickUp |

`ResolveProviderOrg` is the routing by casillero prefix; `Tenants` adds `canScrape`. A site
answers an unknown guide, and a lost session, with a page that has no field: `Empty`. The
parser gives such a page the status "desconocido", here `"unknown"`, and no casillero.

Abstracted: seven statuses to open, delivered and unknown; descriptive columns, which the
trigger `packages_tenant_guard` keeps; events and notes, which nothing reads back; a prefix
to the set of casilleros that start with it; the pre-check's one GET per tenant to one call
for the batch. Routing rules, scrapable flags and which clients are deactivated
(`Inactive`) do not change. Provider rows are all active and have credentials.

### How CourierSession corresponds to the code

`cached`, `blocked` and `offset` are the Redis keys `ct:session`, `ct:login_block` and
`ct:deepwalk_offset` of one courier, `live` the sessions that the courier knows. A request
is one Worker invocation that needs one page.

| Code (`IS`) | Actions |
|---|---|
| `fetchListPage`, `fetchDetail`; `deepWalk` from `index.ts` | Scrape; Walk, ReadOffset, Advance |
| `getCookie` | GetCookie |
| `login` | ReadBlock, Login or LoginRefused, then Save or SetBlock |
| `fetchHtml` | FetchPage, Drop, and getCookie again |
| faults | CallFails (a call throws or the Worker dies), OffsetMisread, CookieMisread, BlockMisread (`UpstashRedisClient.get` turns an error into null), writes that are lost (`Written`) |
| Redis, the courier | SessionExpires, BlockExpires; SessionEnds, and Login, which may end other sessions |

A login whose answer is a page other than the agent area is LoginRefused. `ended`, `tries`
and `age` are history. A misread offset starts the rotation over, and `age` with it.

### How RedisGate corresponds to the code

| Code | Actions |
|---|---|
| `RateLimiter.check` from `GET /track` | Track (reads the clock), Hit, HitExpire, Answer |
| `Cooldown.check` from `POST /staff/packages/:guia/refresh` | Refresh, Cool, CoolExpire or Remaining, ScrapeDone |
| INCR or TTL throws: fail open | HitFails, CoolFails, RemainingFails |
| EXPIRE is lost or throws | HitExpireLost, CoolExpireLost |
| the Worker dies | Cut |
| time, Redis | NextMinute; HitsExpire, CoolKeyExpires |

A counter of 0 is a key that is absent. The key of a minute does not expire before that
minute is over, because its 60 seconds start within it. `asked`, `served`, `admitted` and
`hiccup` are history.

### How AgencyRates and PriceQuote correspond to the code

A card is its row in `rate_cards`, its version and its two prices: `stage` says how far the
three inserts have come (bare, unpriced, whole). A table is a legacy `rate_tables` row with
the tiers that have a price. `dfltCard` and `dfltTable` are the defaults of one client and
the override of one package; `concept` and `billed` a charge concept and a line that names
it. Amounts are left out.

| Code | Actions |
|---|---|
| `rates/v2`: create, rename, delete, entries | CreateRateCard, PostCard, PostVersion, PostEntries; then RequireRateCardInOrg and UpdateRateCard, DropRateCard, or ReadVersion, UpsertEntries |
| `rates`: create, delete, rows, assign, override | CreateRate, PostTable; then RequireRateInOrg and DropTable, UpsertRows and PruneRows or ClearRows, PatchDefaultTable |
| `PATCH /clients/:id` with a card | AssignCard, ValidateRateCard, PatchDefaultCard |
| `charge-concepts`, an invoice line that names one | CreateChargeConcept; DeleteChargeConcept, IsConceptInUse, DropConcept; BillConcept, ConceptBelongsToOrg, InsertLine |
| `backfill-rate-cards.ts` | Backfill, ReadTables, ReadKeys, then Post... for each card of the plan, ReadClients, PatchDefaultCard |
| any | Abandon: a call throws or the process dies |
| pricing in `createInvoice` and in the bulk preview | BillPackages, ReadDefaultCard, ReadDefaultTable (bulk), GetOrgRateCards and GetOrgRates in either order, Price, Answer |

The database's rules are in the guards of the writes: unique names and source keys, foreign
keys with their `SET NULL`, `CASCADE` or refusal. `ResolveOrgRate` and `QuoteOrg` return the
set of rates that may price a line: the code takes the first of rows it asked for in no
order.

### How ClientDirectory corresponds to the code

`row` is `billing_clients`, `inv` the client and the voiding of an invoice. A `Name` is a
`name_normalized`; `Match` is `clientMatchKey`, which sends names that differ by accents or
a HAZMAT tag to one `Person`. The `rated` of a row says which of the two defaults, card and
table, are set; a PATCH sets and clears them independently. `moved[r]` is history: the row of some
client, not always the one that `r` is about, was written since `r` last read rows.

| Code | Actions |
|---|---|
| `createClient`, `updateClient`, `deleteClient` | CreateClient, PostClient; UpdateClient or DeleteClient, ReadBefore, PatchClient or RemoveClient |
| `merge_similar_clients` | Merge, one transaction |
| `resolveInvoiceClient` by id | BillById, ReadClient, InsertHeader |
| `resolveInvoiceClient` by name | BillByName, ListClients, UpsertClient if nobody matches, InsertHeader |
| `voidInvoice` | VoidInvoice (a merge leaves a void invoice where it is) |
| any | Abandon |

## Runs

Users need not call anything and ids run out, so deadlock is not checked. In `MCBilling` and
`MCBooks` invoices, packages and requests are symmetric: the code orders none of them (invoice
numbers are values of a variable, not ids). The other symmetries are likewise over ids; a run
with liveness uses none.

| Run | Question | Bounds |
|---|---|---|
| `books` | Are totals, paid amount, status and links of an invoice right at rest, and closed and archived invoices frozen, under races, failing calls and cut-off Workers? | 1 invoice, 1 package, 1 loose line, amounts 0-1, 2 slots, every endpoint but bulk, every fault |
| `money` | Do status, lock and money agree under races, failing calls and cut-off Workers? | 1 invoice, 2 packages, amounts 0-1, 2 slots, every fault |
| `ledger` | Is no package held twice and no number used twice? Does the link table implement `PackageLedger`? | 2 invoices, 2 packages, 2 slots; both creations, archive, link and unlink; every fault |
| `atomic` | Is a creation all or nothing, no package billed twice, and does each creation settle: whole, reverted, or at a fault that nothing compensates? | 2 invoices, 2 packages, 2 slots; both creations and close; every fault |
| `ingest` | Does a scrape write in the right tenant, say only what its courier shows, keep the staff's override, and take over no other provider's row that it could have seen? | 2 couriers, 2 tenants, 1 guide, 1 job beside staff and couriers, every kind of job and fault |
| `rotate` | Under the cron, is every open package scraped again and again, and is a delivery noticed? | 3 guides, batch of 2, 1 deactivated client, 1 job |
| `courier` | Does one retry recover from a dead cookie, a block stop the logins, and the deep walk sweep its four pages? | 2 requests, 3 cookies, every fault |
| `gate` | Do the counters let no more through than they count, refuse only for cause, and does a cooldown end? | 2 requests, 1 address, 1 guide, limit 2, 2 minutes, every fault |
| `rates` | Do references stay valid, cards whole and tables priced while the panel and the script edit them? | 2 requests at once, 3 in all; 2 cards, 2 tables, 2 tiers; nothing but tables to begin with |
| `quote` | Is a line charged by the rate it resolved while the agency edits? | the pricing request and 1 edit at a time; any 2 cards and 2 tables to begin with |
| `clients` | Does a typed name make no second row, and a deactivated client get no invoice? | 2 requests, 3 clients, 3 names of 2 persons, 2 invoices |
| `v_relink` | Does a billed line have an active link? **No** | 1 invoice, 2 packages, 1 slot |

Why the bounds suffice:

- billing: a conflict needs two invoices that want one package, and a batch that conflicts
  in part needs a second package; every race of the code is between two requests, each of
  which keeps one snapshot; a payment can be short, exact or, as a PAID invoice accepts more,
  over the total, or count as 0. `MaxPaid` stops payments from *starting* on an invoice that
  already has that much; `RoomForInvoice` stops creations when ids run out, counting those
  about to take one. A loose line does what another charge does and may stand alone at a
  creation as well, so no run has both.
- `books` has one invoice, because the books of one do not depend on another, except that an
  edit may be refused a package that another invoice holds. That case (`LinkRefused`) is left
  to the theorems, which hold for any number of invoices.
- `atomic` leaves out the endpoints that may end an invoice which a creation has just made,
  because `CreationSettles` is about what the creation itself leaves. `WholeOrReverted` and
  `NoDoubleBilling` hold with archivings and manual links too, and with either payments or
  voids: that is their theorem (see Proofs).
- ingest: one guide is enough because rows of different guides meet only in the refresh
  queue, which `rotate` is about, with three guides so that more are open than the batch of
  2 (it stands for the 6 of `index.ts`). The two couriers of `ingest` differ as the real
  ones do: one has a mailbox filter and one tenant, the other is shared by a default tenant
  and one with a prefix. One job races the staff, who may create the same guide, so that a
  row can be given a provider between its pre-check and its POST; races between jobs are left
  to the theorems, which hold for any number of jobs.
- `courier`: three cookies are one in the cache and one in each request, and a cookie that
  nobody holds is new again, so nothing bounds the length of a behaviour.
- `gate`: `MaxNow`, `MaxAsked` and `MaxCool` stop requests from starting; a limit of 2 is
  exceeded by the third, and two minutes are one to begin a request and one to end it.
- `rates`, `quote`, `clients`: `MaxAsked` counts requests begun. Three in `rates` are a
  creation and two edits, two of which overlap. In `quote` one edit may move any of
  the rows that pricing reads in three calls; `Init` holds any state that earlier edits have
  left, so two requests in `clients` meet any two rows. All their properties are also proved
  without these bounds.

**What the histories exempt.** The code does not serialise requests, and some of its promises
fail when two of them overlap or one stops half way. A property is then stated under the
overlap and the fault, for everything that they have not hit. What they have hit is recorded
by a history variable, which restricts no step:

| History | Records | Exempts it from |
|---|---|---|
| `stranded` | an invoice whose creation met a fault that nothing compensates: the Worker was cut off in the creation or in its compensation, or a write of `rollbackPartialInvoice` failed | `WholeOrReverted`, `NoDoubleBilling`; an outcome of `CreationSettles` |
| `mixed` | an invoice on which two requests that write amounts (creation, edit, payment) overlapped, or one of which wrote some of its amounts and then stopped or was refused a link | `TotalIsSumOfLines`, the equality of `PaidIsSumOfPayments`, `StatusMatchesMoney` |
| `leaky` | an invoice on which two requests that link or release overlapped, or whose release did not get through | `DeadHoldsNothing` |
| `late` | a row that was given a provider between the pre-check of a job and its POST | `MergedOnlyLate`, for that POST |
| `ended` | a session has ended, or its drop was lost, while requests were under way | `RetryRecovers` |
| `hiccup` | one of the two calls of a cooldown was hit by a fault | `CooldownEnds` |
| `broken` | a card whose creation was cut off | `CardWholeOrBroken` |
| `overlapped` | a table whose rows were last upserted while another save of them had still to prune | `PricesLostOnlyByOverlap` |
| `moved` | a request since whose last read of clients some client row was written | `NoSecondRow`, `InactiveGetsNoInvoice` |

`ClosedTotalFrozen` and `ArchivedIsFrozen` need none: they begin where the requests that
passed the guard earlier are over (`Locked`, `Sealed`) and say that this stays so.

**Known counterexamples.** What the exemptions let through is behaviour of the code, seen
with TLC on a variant of the run without the exemption unless noted; `v_relink` has a run and
is described under `findings` in `PROJECT.json`. Of invoices:

- a creation that fails after its header leaves a live half invoice, without lines or links,
  when the Worker is cut off, because the compensation is code of the request that died, and
  also when only a call of the compensation fails: `rollbackPartialInvoice` gives up at the
  first of its writes that throws, a failing release leaving out the archiving as well (`BS`
  472-496). After a refused batch of links such an invoice has its lines, and bills a package
  that another invoice holds (`WholeOrReverted`, `NoDoubleBilling`);
- an unlink leaves the line that bills the package, so that `NoDoubleBilling` fails once
  `unlink` joins `atomic`;
- an edit that passed its guard before a close changes the total of a closed invoice, and so
  does a payment that read other lines than those of the total (`ClosedTotalFrozen`, without
  the last conjunct of `Locked`);
- two edits at once insert both line sets under one total; an edit that stops between its
  lines and its PATCH, or is refused a link there, leaves the new lines under the old total
  (`TotalIsSumOfLines`);
- two payments at once: both rows are kept but `paid_usd` is that of one (`BS` 1065), and the
  status with it. It is never more than was paid, which `PaidIsSumOfPayments` states without
  exemption;
- a payment that computed a status before a void writes it after (`BS` 1068), so VOID is not
  terminal; `VoidLeftOnlyByPayment` says that this is the only way out;
- a link, edit or creation under way posts its link on an invoice that is archived or voided
  meanwhile; an archive whose release fails cannot be repeated, as the invoice is not found
  any more; either way a dead invoice holds a package (`DeadHoldsNothing`);
- a voided draft accepts a manual link (`BS` 1123), so a VOID invoice holds a package.
  `DeadHoldsNothing` says of a VOID invoice only that it holds none if it was closed, or if
  nobody links by hand;
- the bulk preview goes on with a line of zero when nothing prices a package, which
  `catalog.ts` 40-41 means to rule out (seen by reading).

Of the ingest (`IS` and `IF` as above):

- two jobs that scrape one new guide at two couriers merge their rows (`IF` 256), and so do
  one job and staff who create the package by hand between the check and the POST.
  `MergedOnlyLate` says that nothing else does;
- `EveryOpenReached` fails with a tenant that is not scraped but has open packages of the
  courier, or when the deactivated clients have as many as the batch is long: they are
  dropped after the limit (`IF` 181-186), never scraped, and so always the oldest;
- `EveryOpenReached` with faults: a failed detail fetch in a list walk routes a package to
  the default tenant as well (`IS` 383-390), and that copy is never refreshed again;
- two jobs that read a site at different times may put a delivered package back to open;
- `AnyProvider` leaves a row of unknown status with the first courier that has no mailbox
  filter, even if the guide belongs to the other one.

Of the rest:

- a lost EXPIRE leaves the cooldown key for ever, and the guide can never be refreshed from
  the panel again (`ratelimit.ts` 87-88, against the comment at 74-75). A request that
  crosses its minute is counted in the minute that is over;
- Redis answering a read with an error makes a login ignore the block and the deep walk start
  over; a login page taken for an empty list still moves the walk on (`IS` 191-199);
- two saves of one table with different tiers delete each other's rows (config-repo.ts
  237-242), the case `PricesLostOnlyByOverlap` names;
- a card that is created up to its row only can neither be priced nor replaced by the script:
  between card and version the next run is refused by the unique name, between version and
  prices it skips the card, though its header says that it may be run again;
- a client whose own card prices nothing is charged by some other card of the agency;
- two invoices that type one new name at once, in two spellings, make two clients; a merge
  leaves both names, so that a typed name may find two; an invoice that types the name of a
  deleted client is given to that row (`upsertClient`, `BR` 456), though the migration for
  soft deletes says otherwise;
- seen by reading: `rate_override_id` is written and shown, but pricing never reads it;
  `price_model` of a legacy row is read under another name (`catalog.ts` 62 and 72, `BR`
  373), so that its price always counts by weight.

**Fairness of the gate.** `FairSpec` assumes weak fairness of a request's next step and of
the expiry of a cooldown key that has a TTL: the runtime runs a request on, and Redis
expires what it was told to. Nobody has to ask.

**Fairness of the ingest.** `FairSpec` assumes weak fairness of the next call of a job, as
for billing, and strong fairness of the refresh of each provider: the cron starts it every
six hours whatever else is running (`index.ts` 153-158), while the model's bounded set of
jobs makes it wait for a free slot. A list walk is never owed.

**Fairness of billing.** `AtomicFairSpec` assumes weak fairness of the *next call of an
accepted request* (`Continue`), per request: the runtime runs a handler on once it is started,
and every remote call returns or fails. Nothing obliges anybody to send a request, and nothing
keeps a call from failing or a Worker from being cut off. Such a fault ends the creation too,
and `CreationSettles` says in what state: whole, reverted or stranded.

Each property of a passing run has a mutant: the definition named `Bug...` beside the real
one is the plausible mistake it would catch.

## Proofs

`BillingProofs` proves, for any sets of invoices, packages and requests that meet
`BillingAssumption` (finite packages, requests and extra lines, disjoint kinds of lines, a
`NoInvoice` that is no invoice, natural amounts), under any `Ops` and `Faults`:

| Theorem | From |
|---|---|
| `TypeCorrect` | `TypeOK` is inductive. It includes that a request past the header knows its invoice. |
| `OneActiveInvoiceHolds` | Inductive with `TypeOK`; the only step that can break it posts links, and `LinkConflict` guards that. |
| `ServiceImplementsLedger` | Refinement mapping `Holder`; `LinkWriteIsLedgerStep` shows each write of the link table is a Claim, a Release or a stutter. |
| `NumbersUniqueHolds` | Inductive; `NumberTaken` guards the one step that numbers an invoice. |
| `ClosedIffIssuedHolds`, `MoneyOnlyAfterLockHolds` | From the invariant below. |
| `VoidLeftOnlyByPaymentHolds` | Action property, one case per action, with the same invariant. |

Neither `ClosedIffIssued` nor `MoneyOnlyAfterLock` is inductive: a payment writes status
and totals long after it looked at the invoice. The inductive invariant `LockInv` adds
`AbsentUntouched` (an id not handed out has no money, lock or lines) and `RequestsSound` (a
creation announces DRAFT or ISSUED only; a request past the header works on an existing
invoice; a payment under way is on a locked one and holds a money status). It works because
nothing in the code ever unlocks an invoice. TLC was run on `LockInv` before it was proved.

`AtomicProofs` and `BooksProofs` prove what the histories of `AtomicRequirements` and
`BooksRequirements` make sayable, for any number of requests, invoices and packages and any
`Faults`. Only the first two have a hypothesis beside `BillingAssumption`:

| Theorem | From |
|---|---|
| `WholeOrRevertedHolds`, `NoDoubleBillingHolds` | `AtomicInv`. Assume `AtomicOps`: no edit, no unlink, not both payments and voids. |
| `ArchivedIsFrozenHolds`, `ClosedTotalFrozenHolds`, `VoidIsTerminal` | `BaseInv` with `LockInv`: each of `Sealed`, `Locked` and `Voided` is kept by every step. |
| `TotalIsSumOfLinesHolds`, `PaidIsSumOfPaymentsHolds`, `StatusMatchesMoneyHolds` | `MoneyInv`, with `AloneInv` |
| `DeadHoldsNothingHolds` | `HoldInv`, with `AloneInv` |

- `AtomicOps` leaves any number of requests and every fault. The hypothesis is needed: an edit
  or an unlink moves links by itself, and a payment under way when a void releases the links
  writes its status afterwards and leaves a live invoice without links.
- `AtomicInv` says, call by call, what a creation has achieved of its invoice (`Parts`), that
  only its creator is in the `try` block of an invoice or compensates it (`OneCreator`), that an
  id not handed out has no lines (`AbsentBare`), that nothing is void where nobody
  voids (`NothingVoid`), and that an invoice whose creation is over and was not stranded is
  whole while it lives (`WholeOnceCreated`). `GuardLinks` carries the proof: a creation ends
  well only if it reads back an active link for each package. `NoDoubleBilling` then follows
  from `OneActiveInvoice`.
- `BaseInv`: a request before its header names no invoice, a close has read a status other
  than VOID, an id not handed out is blank, and `paid_usd` is at most what was paid, in the
  table and in every snapshot.
- `AloneInv`: two requests that write amounts, or two that link or release, are on one invoice
  only if it is recorded.
- `MoneyInv`: an unrecorded invoice that no request works on has a total, a paid amount and a
  status computed from its rows, and a request under way is at a known distance from there:
  what it has read is still true, and what is not yet written is the only difference. A close,
  void, link or archive beside it keeps that, which is where the proof is.
- `HoldInv`: an unrecorded invoice that ended has links only while a request is still to
  release them, and nobody is about to link to it.
- `VoidIsTerminal` says of `Voided` (VOID, and no payment under way has read anything else)
  that it is never left: late payments are the only exception, and none can become late.

TLC was run on each of these invariants before it was proved.

`IngestProofs` proves, for any couriers, tenants, guides, routing rules, jobs, `Ops` and
`Faults` that meet `IngestAssumption` (finite guides and routing rules, markers that are no
members, a batch of at least one):

| Theorem | From |
|---|---|
| `IngestTypeCorrect`, `DeliveredIsRealHolds` | The invariant below. |
| `OverrideKeptHolds`, `RightTenantHolds` | Action properties. Only Post writes rows on behalf of a job, and it writes rows of its batch (`PostWrites`), which are sound. |
| `MergedOnlyLateHolds` | Invariant `CheckedInv`: a job past its pre-check has in its batch no row of another provider but those in `late`. |

`DeliveredIsReal` is not inductive: a job writes what it read several calls ago, for a tenant
it looked up since. `IngestInv` adds `JobsSound` (each row a job carries is `Sound`: its
status and its note are still true of the site, and its tenant takes the package),
`BoxKnown` and `EmptyRows`. It is kept because a site never takes back a delivery or changes
a casillero, the only assumption about couriers, and because a page without a casillero goes
only to a tenant that would take any (`TenantsServe`, `UnknownServes`).

The modules of the other components have theorems of the same kind, for any sets of requests
and ids and under any faults. Each assumes only the `ASSUME` of its module.

| Theorem | From |
|---|---|
| `CourierTypeCorrect`, `RetryHolds` | Types with `AtRest`. A retry that no session's end preceded holds a live cookie, or the cache has none or a live one (`Recovering`). |
| `NoLoginStormHolds` | `Storm`: logins tried against the block and requests that have passed the check are together fewer than the slots. |
| `SweptHolds` | `Rotation`: the ages, taken in the order of the rotation from the stored offset, are at most 3, 2, 1 and 0, and only one walk runs. |
| `GateTypeCorrect`, `LimitHolds`, `CooldownHolds` | `GateInv`: while its minute is not over, a counter is at least the requests it let through; a key that is absent has admitted nobody. |
| `RefusalHasCause` | `HitsAsked`: a counter and the requests about to raise it are at most what was asked for in that minute. |
| `RatesTypeCorrect` | Types with `Held`: what a request carries fits its next call. |
| `CardsHold` | `Cards`: with `Versioned`, which ties a creation under way to the stage of its card. |
| `RowsHold` | `Rows`: what a save under way has written is still there unless another overlapped it. |
| `QuoteTypeCorrect`, `ChargedOwnPriceHolds` | Every step of `PriceQuote` is one of `AgencyRates` or leaves it alone (`QuoteRuns`). `Watched`: a card that has prices all along is in what pricing has read. |
| `ClientTypeCorrect`, `NoSecondRowHolds`, `InactiveHolds` | `ClientInv`: what a request has concluded from the rows is still true unless one was written since. |

**Only model-checked.** What is liveness, namely `EveryOpenReached` and `DeliveryNoticed`
(`rotate`), `CreationSettles` (`atomic`) and `CooldownEnds` (`gate`): liveness under fairness,
and ENABLED, are outside what the prover does. Every invariant and action property of a
passing run is stated by a theorem, and only the two with `AtomicOps` have a hypothesis.
Induction over recursively defined data is out of the prover's reach as well; no module needs
it.

## Not modelled, and why

`PROJECT.json` lists every component. Left out are:

- receipts, reports and share links, authentication, photo routes: reads, layout and
  stateless checks. A share token is one column that nothing else touches;
- the arithmetic of amounts (`domain/calc.ts`) and the parsing of the couriers' HTML: pure
  functions over numbers and text with tests of their own;
- the historical import, a script that was run once with nothing beside it, and the legacy
  scraper of single pages, which keeps no state;
- agency info, branding and payment catalogs, the rename of a legacy table: single writes
  that no other operation depends on;
- events, notes and the audit: written and never read back by an operation;
- routing rules, scrapable flags and provider rows that change while jobs run; the count of
  a Worker's subrequests, of which only the effect, a Worker that is cut off, is modelled.

`create_package` is modelled as `20260929051106` defines it. `20261026222000` redefines it
with a conflict target that the former dropped, so that in an environment built from the
files in order a manual creation always fails.
