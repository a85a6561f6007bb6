# CatalogFix: a TLA+ verification of the catalog application

CatalogFix turns a supplier's CSV or Excel catalog into Shopify products.  A
Next.js web application (`src/apps/web`) calls a NestJS API (`src/apps/api`);
the API stores rows in PostgreSQL through Prisma and puts jobs into BullMQ
queues (`src/packages/queue`); a worker process (`src/apps/worker`) takes the
jobs and writes to the same rows.  Almost everything that is hard to test in
this program lives between those four: handlers and processors are sequences of
separately awaited statements, several run at once, any of them may throw, jobs
are retried, and browsers act on what they fetched earlier.  What is left are
the pure functions that make products of cells and cells of products, whose
cases multiply where parsing, grouping, validation and export meet.

The modules here model those parts statement by statement and function by
function, TLC checks them on small instances, and TLAPS proves the main safety
properties for every value of the constants.

## 1. Inventory

| Component | State it keeps | Operations | Talks to |
| --- | --- | --- | --- |
| import API (`imports.controller.ts`, `uploads.controller.ts`) | `ImportJob`, `ImportFile`, `ColumnMapping` rows | create, presign, confirm file, save mappings, process, remove | queues, the rows the worker also writes |
| import worker (`import`, `normalization`, `validation` processors) | `ImportJob.status`, `ColumnMapping`, `Product`, `ValidationIssue`, `UsageRecord` rows | parse, normalize, validate | object storage, queues |
| job queues (`packages/queue`, BullMQ) | job state in Redis | add with a job id, take, complete, fail and retry, stalled-job recovery, retention | API and worker |
| import pages (`dashboard/imports`, `new`, `[id]`) | React Query caches, state of the running mutation, the chosen file | upload, poll, mapping wizard, process, export button | import API, exports |
| exports (`exports.controller.ts`, `export.processor.ts`, export pages) | `ExportJob`, `ExportFile`, the object in storage, `Product.status` | create, export, download, poll | queues, `Product` rows |
| products (`products.controller.ts`, product page) | `Product`, `ValidationIssue.resolved` | get, patch, resolve an issue | the database |
| dashboard (`dashboard.controller.ts`, its page) | none of its own | counts and the last imports and exports | the database |
| billing webhooks (`webhooks.controller.ts`) | `Subscription`, `WebhookEvent` | one handler for all Stripe events | Stripe |
| authentication (`auth.service.ts`, guards) and web API client (`lib/api.ts`) | `User`, `RefreshToken`, reset tokens; cookies and `localStorage` | register, login, refresh, logout, logout-all, reset; the retry after a 401 | each other |
| organizations and membership (`organizations.controller.ts`, `create-admin.ts`) | `Organization`, `OrganizationMember`, `Subscription` | register's and create's organization, rename, the guard; a script | the database |
| administration (`admin.service.ts`, `admin/*` pages, shells) | `User.role` and `.status`, `Subscription.plan` | statistics, lists, three changes; the stored organization `cf_org` | authentication |
| catalog core (`packages/catalog-core`), validation rules, Shopify exporter | none (pure functions) | detect columns, map, normalize, group variants, validate, format | called by the worker |
| marketing tools (`app/tools`) | the text in a box | judge a pasted file | - |
| image worker, stub workers (AI, e-mail, Shopify) | none | the image queue has no producer, the others log and return | - |
| marketing site, storage, configuration, logging | none | static pages, input and output | - |

What makes each part correct, and what is hard about it:

* **import API and worker** - the products of an import are exactly those of its
  catalog, built from the mapping the user confirmed, judged against each other,
  although normalization is a delete followed by one insert per product, retries
  start it again, and the status is written by seven different places without
  looking at its old value.  User-confirmed mapping rows survive late parses.
  What is queued is eventually READY.
* **job queues** - a job id that Redis still holds makes `add` a no-op; a job is
  run at most `attempts` times plus its stalls; an execution whose lock expired
  keeps running beside its successor.
* **import pages** - a tab acts on the status and the rows it fetched last; one
  submit of the form is four requests, each of which may fail or be left behind.
* **exports** - the stored file, its `ExportFile` row, `ExportJob.status` and the
  products' status are four writes that a crash can separate.
* **products, dashboard** - a PATCH writes back every field it read; a page is
  drawn from several queries of different ages, and a save races the fetch that
  is already on its way.
* **billing webhooks** - Stripe delivers at least once and in any order.
* **authentication** - rotation reads, revokes and re-issues in separate
  statements; the browser has two places that hold a refresh token, several tabs
  that use them at once, and answers arrive in any order.  A user who signed in
  stays signed in until signing out, and then no cookie and no refresh token in
  the browser is good (the access token in `localStorage` is, until it expires).
* **organizations** - a user and the organization appear together or not at all;
  slugs are looked for in a loop that sees committed rows only, while other
  transactions insert, so requests wait for and fail on each other; the script
  does in two steps what the handler does in one transaction.
* **administration** - rights are read by the API on every request and cached by
  the browser; the organization the browser sends was stored by an earlier user.
* **catalog core, validation, exporter** - no row is lost or doubled by
  grouping, no two sellable products share a SKU, and the exported file, imported
  again, gives the same variants.
* **marketing tools** - they promise to predict what the application will say.

`PROJECT.json` lists every hazard at its line under `hazards`, with the
properties that cover it or the reason why none does.

## 2. Modules

| Module | What it is |
| --- | --- |
| `JobQueue` | one BullMQ queue as a function from job ids to job states; operators `Add`, `Take`, `Complete`, `Fail`, `Stall`, `Evict` |
| `ImportPipeline` | the life of one import: API handlers, the three processors, their queues and the environment (crash, lost lock, thrown await, eviction, clock) |
| `ImportPage` | `ImportPipeline` driven by browser tabs instead of arbitrary callers; the properties that hold, or should hold, for users of the web application |
| `ExportPipeline` | `ImportPipeline` composed with `POST /exports`, the export processor and `PATCH /products/:id`, which share the product rows and the worker process with it |
| `SubscriptionHistory` | what the Stripe webhook promises: the row shows some state the subscription has had, and only moves on to later ones |
| `StripeWebhook` | the webhook handler statement by statement beside Stripe; implements `SubscriptionHistory` when events are delivered in order |
| `AuthSession` | one user in one browser: `api()` with its refresh and second try in several tabs, and the handlers that issue, rotate and revoke refresh tokens |
| `Accounts` | users, organizations, memberships and subscriptions: register, create and rename, the changes of administrators, the script `create-admin` |
| `Console` | `Accounts` with one browser tab: signing in, up and out, the shells, the stored organization, the billing page and the pages of an administrator |
| `Workbench` | one tab at all the pages of catalogs (overview, lists, upload form, import, product, export), the answers of the API, a worker reduced to what pages see, another client |
| `Text` | the operations on strings the code uses: trim, case, split, join, the numbers `parseFloat` reads |
| `ColumnDetection` | `column-detector.ts`, `column-mapper.ts`: which field each header suggests |
| `CatalogRows` | cells to products: parse, map, the normalizers, `groupVariants` |
| `ValidationRules` | the twelve rules and `validateCatalog` |
| `ShopifyRows` | products to the lines and cells of the exported file, and to its text, quotes included |
| `ToolPages` | what the four tools of the web site compute from such a text |
| `CatalogFlow` | one file through all of these, and its export through them again |
| `MC...` | instances for TLC |
| `ImportPipelineProofs`, `ImportPageProofs`, `ExportProofs`, `StripeWebhookProofs`, `AuthSessionProofs`, `ConsoleProofs` (of `Accounts` too), `WorkbenchProofs`, `CatalogProofs` | the theorems of section 5 |

The modules from `Text` to `ToolPages` extend each other in this order and hold
operators only; `CatalogFlow` gives them a state.

### How state and actions correspond to the code

*State.*  `job`, `files`, `mapping`, `products`, `issues` and `usage` are the
rows of one import (`prisma/schema.prisma`), reduced to the columns the
properties tell apart.  A product row is named by the normalize execution that
inserted it and its SKU and remembers the mapping it was built from; `issues`
holds the products that an issue of severity ERROR names.  `queue` is the three
queues, `exec[s]` the execution in worker slot `s`, `req[c]` the request client
`c` has in flight, `clock` is `Date.now()`, which only matters because the
normalize job id contains it.

*Atomicity.*  A handler or processor is one action per database or queue
statement.  What it read before is kept in its record (`exec[s].map`,
`exec[s].seen`, `req[c].map`) and is stale by the time it is used, as in the
code.  A `$transaction` is one action, with the unique index that can roll it
back (`ParseCommits`, `SaveReplace`).  `Promise.all` over updates is one action
per update; when one is rejected the others still land (`ValidateMark`, field
`broken`).  The read at the beginning of a processor and the take from the queue
are one action, since nothing of this program happens between them.

*Guards.*  A request that answers 404 or 400, and the early return of
`POST /process`, change nothing and are not steps.  The guard of a handler is
judged in the step that begins it, on the state at that time; the writes
that follow are unconditional, as the code's `update({ where: { id } })` is.

*Failures.*  `Throw` ends an attempt at any await still ahead of it, and BullMQ
counts it (`Fail`); `Reject` is the throw the data forces (an unreadable file, a
unique-index or foreign-key violation).  `Abort` is a rejecting await of an API
handler, or the death of the API process: the writes so far stay.  `Crash` is the
death of the worker process: its jobs stay active until the stall checker
recovers them (`Recover`).  `LoseLock` is an execution whose event loop is too
busy to renew its lock (`sheet_to_json` of a large workbook is synchronous): the
job is recovered while the execution goes on.  `Forget` is `removeOnComplete` /
`removeOnFail`.

*Left out of the pipeline.*  Progress fields and messages, `processingLock`
(written, never read), `usage.importsCreated`, audit rows except that their await
may fail, the order of jobs in a queue (retries wait for a back-off and several
slots take jobs at once), warnings among the issues.  A file is the sequence of
products `rowsToCatalog` makes of it, with distinct SKUs (`groupVariants` merges
equal ones), and each product either is fine or has an ERROR of its own.
Organizations and users only scope queries and are not modelled: there is one
import.

`ImportPage` adds, per tab, where the code of the page stands, the status and
mapping rows it fetched last, and whether the mapping query has run.  `FetchJob`
polls only in the states `refetchInterval` names; `FetchRows` runs once; `Focus`
is React Query's refetch on window focus, which may happen at any time and never
has to.  A tab sends its next call only after the previous one was answered or
failed.  A user who missed the answer to the process call still sees the wizard
and may press the button again (`SendProcess`); the API refuses that only while
the import is PROCESSING or VALIDATING.  `again` remembers it.

*Exports.*  `ExportPipeline` keeps the `ExportJob` rows (`export`), the stored
object under each export's key (`object`), the `ExportFile` rows (`copies`), and
which fields of which product a user has edited (`edits`).  The processor is one
action per statement: `ExportStart` reads the export with its products and judges
the status guard, `ExportProcessing`, `ExportPut`, `ExportFile`,
`ExportComplete` and `ExportMark` are its five writes.  `CreateExport` reads and
counts, `CreateCommit` is the transaction, `CreateAdd` the queue.  One Node
process runs all processors, so `WorkerDies` ends the executions of the import
pipeline too.  `Patch` reads a product and `PatchWrite` writes every field back,
the ones another client has changed in between included.  What the file says is a
set of entries, a product with its edited fields each; an entry is a block of
rows, one per variant and further image, which `ShopifyRows` lays out.  `late`
(rows inserted while an export was running) and `moved` (exports during which the
rows of the import changed) are history the actions do not read.

*The webhook.*  `log` is what has happened to a subscription at Stripe, one event
per change; `event` the `WebhookEvent` rows, `row` the `Subscription` row with
the event it was last written from (`row.from`, not stored by the code: it is
what the properties compare).  A handler finds the event (`Start`), upserts its
row (`Upsert`), writes the subscription (`Apply`), sets `processedAt` (`Mark`)
and answers (`Answer`).  `Abort` is an await that rejects, a process that dies or
an answer Stripe does not receive.  Stripe sends an event until it has been
answered 2xx, and possibly again later (`Repeat`).

*Authentication.*  What one `issueTokens` makes, an access and a refresh token,
has one number; `live` is the `RefreshToken` rows without `revokedAt`, `fresh`
the access tokens that have not expired.  `jar` is the two cookies, `store` the
two entries of `localStorage`, shared by the tabs; `call[t]` is the call tab `t`
has in flight.  `Send`, `Guard`, `StartRefresh`, `Refuse` or `Accept`, `Revoke`,
`Issue`, `Receive` and `Retry` follow `api()` through a 401, the handler of
`POST /auth/refresh` in between statement by statement; `Leave` clears
`localStorage` and goes to `/login`, but leaves the cookies.  Setting cookies
and storing tokens from one answer is one action.  `Cookies` says whether the
browser keeps the API's cookies at all.  `Abort` is a request that fails
anywhere; of a second try it is also any answer but 2xx, which `api()` treats
the same.  `RevokeAll` is `logoutAll` or `resetPassword` on another device.
`session` is not a variable of the program: it is what the user may rely on,
"in", "out", "signing" in, or "unsure" once two exchanges of tokens have
overlapped, one has failed, or another device has interfered.  Paths under
`/auth/` never refresh; their other calls, the `Session` rows, `replacedBy` and
audit rows, which nothing reads, and the week after which an unused refresh
token expires are left out.

*Accounts.*  A user is known by the e-mail address, an organization by its slug
(a base and the number that follows it), the two unique columns.  `tx[c]` is the
request of a client: `register` reads the user (`Register`), then its transaction
inserts the user (`InsertUser`), looks for a slug (`Probe`, the loop over
`findUnique`), inserts the organization (`InsertOrganization`) and ends
(`Commit`); tokens come after it (`IssueTokens`).  `POST /organizations` starts
at `Probe`.  What a transaction has inserted is invisible to others until
`Commit`, but whoever inserts the same key waits for its end: the guards of
`InsertUser` and `InsertOrganization` are PostgreSQL's locks on unique keys.
`Abort` is a statement that fails, or Prisma's five seconds.  `ScriptUpsert`,
`ScriptOrganization` and `ScriptCrash` are `create-admin`, which is not a
transaction; `OtherAdministrator` is anybody else with the console open.

*Console.*  `me` is the query `auth-me` of both shells, `page` the query of the
page: what it holds, whether it failed, and where its request is (sent, being
counted, answered).  `cfOrg` is `cf_org` in `localStorage`, which outlives a
sign-out.  `Click`, `ServeChange` and `ChangeAnswer` are a mutation and its
`onSuccess`; `invalidateQueries` gives up a fetch that is under way.  `Redirect`
is the effect of `AdminShell`, `Expel` the 401 that the refresh does not cure; for
`/auth/me` there is neither refresh nor `/login`, as for all paths under `/auth/`:
the query fails, and `AdminShell` goes to the dashboard.
`getSystemStats` is a `Promise.all` of counts: other requests may come between
its halves (`StatsServe`).  `own` and the field `others` are not state of the
program: they say which change the page was last told of, and whether anybody
else has written since.

*Workbench.*  `imports` and `exports` are the rows, an import with its file and
one product; `shown` what the queries of the page hold, `asked` those under way.
`Goto` is a page that is mounted; a page that is left drops what it has fetched.
A query is asked when what enables it has arrived (`Hold`), again when
`refetchInterval` says so (`Poll`), and on window focus (`Focus`).  The product
page's answer has a step of its own on its way (`ServeProduct`,
`ReceiveProduct`), because there a save asks again.  `uploads` are the submits of
the form, each a sequence of four requests (`UploadStep`) that may be refused
because the import was deleted, or fail before or after the API has done its part
(`UploadFails`); the submits of a page that was left go on, and their
`router.push` still happens (`UploadRedirect`).  `SaveRead` and `SaveWrite` are
the two statements of `PATCH /products/:id`, as `OtherRead` and `OtherWrite` are
for another client, who may enter titles and vendors.  A save without a typed
title sends the one the page has fetched.  `ClickExport` loads a new document,
which aborts what is under way.  `clash`, `stale`, `save.last`, `save.at`, `named`
and `entered` are not state of the program: what each client entered last,
whether two PATCHes met, and whether the page has sent a title that was no longer
the stored one.

*Catalog.*  The cells of a file are strings, since detection, numbers and
grouping depend on their characters; `ParseMatrix` begins where the CSV and XLSX
libraries end, with a matrix of cells.  `Parse`, `Remap`, `Normalize`,
`Validate`, `Export` and `Reimport` are the stages of one import, each one
action, as `ImportPipeline` and `ExportPipeline` have their interleavings.
Amounts are in hundredths; `NaN` is a value of its own.  `sent` remembers of each
exported line the variant and the options, handle and tags of its product.
`CsvText` is the file as text; the parser is assumed to undo the quoting of cells
that `CsvCell` does, as Papa Parse does by definition of the format.  `ToolPages`
gets the text and splits it at every comma and line break, as the tools do.

## 3. Runs

All bounds are named constants.  `Bounds` (and `ExportBounds`) is a set of
combinations: a behaviour stays within one of them, each of which says how often
requests, throws, aborts, crashes, lost locks and evictions happen.  So a run can
ask for any one kind of failure without multiplying them all.  `MaxClock` is how
many values `Date.now()` takes, `Slots` how many executions run at once (the code
allows `WORKER_CONCURRENCY`, 5 by default, per queue; two are enough for every
interleaving of two writers, which is what the properties are about), `Attempts`
is 2 or 3 instead of 5.  Two products suffice to have a catalog half inserted or
half judged; one of them has an error, so both verdicts occur.  `MaxUpsets`
bounds, together, what fails and what other people do.

Deadlock is checked in `accounts`, `catalog`, `console` and `workbench`: nobody
waits for a transaction that waits for him, no file gets stuck between two stages,
and on every page there is something left to do.  Elsewhere it is off: when the
bounded requests are used up and the queues are empty the system rests.

### Passing runs

| Run | Instance, distinct states | Question and answer |
| --- | --- | --- |
| `api` | 1 client, 2 slots, a catalog and an image archive, 4 requests; one throw, or one abort and one eviction, or one crash, or one lost lock; 1 522 578 | May overlapping, repeated or lost executions mix mappings or overwrite the user's? `MappedProducts`, `OneMappingPerRun`, `UserMappingKept` hold from `POST /imports` on, whatever the calls |
| `page` | 1 tab, 2 slots, 3 attempts, two mappings to choose from; 6 requests and two throws, or 6 requests, a throw and an abort, or 7 requests; fairness; 568 306 | `ReadyExact`: READY means exactly the uploaded catalog with consistent verdicts and issues, built from the mapping the page shows unless it was changed after the products were asked for; if the user asked for them twice, and nothing threw, none is missing once the jobs are done. `SingleWriter`: no two executions rewrite the rows at the same time; if the user asked twice, still no two validations. `ProcessedGetsReady`: queued processing leads to READY for good, unless the user asks twice |
| `exports` | 2 exports, 2 slots, 3 attempts; two throws and an abort, or a throw and a crash, or a lost lock, beside the end of a validation, or one of each request and failure beside a second normalization; fairness; 477 045 | `ExportedWasStored`: a product marked EXPORTED is in a file that can be downloaded, unless it was inserted while an export ran. `ShownTotal`: the number the page shows is that of the products in the file, unless they were replaced meanwhile. `CompletedStays`, `QueuedCompletes`: a queued export gets COMPLETED, and stays so |
| `webhook` | 4 events out of 7 kinds, 2 handlers, 2 aborts, 1 repeat, in order; fairness; 105 945 | `AckedIsDone`, `NothingSkipped`: what Stripe will not send again is in the row. `FollowsHistory`: refinement of `SubscriptionHistory`. `SettlesOnTruth`: the organization ends with the plan it pays for |
| `auth` | 2 tabs, 4 tokens, 1 failed request, 1 foreign revocation; 3 847 894 | `JarUsable`: cookies are never a dead end, whatever overlaps. `StaysSignedIn`: expiry sends nobody to the login page. `SignedOut`: after signing out no cookie is good, nor any refresh token in the browser |
| `accounts` | 2 people, 2 clients, 1 name, 2 organizations, 2 upsets, fairness; 220 989 | `OwnedOrganizations`: users and organizations appear together, and every organization has an owner. `SlugsDense`: numbers behind a name have no gap, no two transactions hold one key, and none wait for each other in a circle. `RequestAnswered`: waiting at unique keys ends |
| `console` | 2 people, one tab, 2 organizations, 1 upset, 1 click, fairness; 951 353 | `OrgOfUser`: the organization the browser sends is one of the user's. `ChangeShown`: a settled page shows the change it made, and marks the plan the organization has. `DemotedLeaves`: who is no administrator any more, and comes back to the window again and again, does not stay in the console |
| `workbench` | 2 submits, or one import through wizard, product and export; 2 files, 1 upset, 1 other client, fairness; 1 198 363 | `EditsKept`: without overlapping PATCHes, and while the page sends no title older than the stored one, no edit of anybody is lost. `SaveShown`: a settled product page shows what was saved. `UploadsAccounted`: every import has its submit's file or a submit to blame. `DownloadFound`: an offered file exists. `PagesCatchUp`: left alone, every page shows the rows as they are |
| `catalog` | 3 suppliers' headers; 1 or 2 rows out of 7, 1 to 3 out of 6, 1 or 2 out of 6; at most one column remapped to `ignore` or `sku`; 2 rounds; 40 451 | `RowsKept`: every row is one variant of one product and one line of the exported file. `SkusJudged`: no two READY products share a SKU, and the products whose exported lines do are the ones that were reported. `RoundTrip`: the exported file reads back line by line as the variants it was made of, with handles and tags, but for the weight, a fourth option and the quotes of the exporter. `ToolsAgree`: the validator tool reports quotes exactly where a cell has a line break, and every SKU that is twice among the lines it can split; where it can split all of them, nothing else. The SKU tool is exact, the header tool misses none, the handle tool makes the import's handles |

`exports` starts in one of two places (`MCExportPipeline`).  In `ReadyInit` a
pipeline without failures has made the products and its validation is about to
write the audit row; in `AgainInit` the user has asked for the products again, a
normalize job waits that will delete and insert the rows and be validated once
more, and of each bound one request and one throw are left.  So products are replaced
between the count of `POST /exports`, the read of the processor and its mark.
Section 5 proves the same from the first request of an empty database on.

`auth` needs four tokens: one to sign in, one each for two overlapping refreshes,
and one for a refresh after them.  `StaysSignedIn` says nothing of exchanges that
overlap: two tabs that refresh at the same time may well end with one of them at
`/login`, which the model shows and no document forbids.

The bounds of the others: `accounts` needs two clients for every race at a key,
and one name so that they meet at the slug; the third number behind a name would
only repeat the second.  `console` needs a second person, since `cf_org` of the
first is what the second finds.  In `workbench` two submits let one fail or be
left behind while the other runs; going through the wizard as well would multiply
two independent halves, so a behaviour does one or the other (`Submit`,
`ClickProcess`).  The rows of `catalog` have the flaws of the repository's own
fixtures, and pairs of rows meet in a product, in a SKU or in a handle in every
way the grouping distinguishes.

`EditsKept` and `SaveShown` say nothing once two PATCHes have overlapped
(`clash`): the code reads and writes back whole rows, the edit that was read
around is lost, and no document promises otherwise.  Nor does `EditsKept` once
the page has sent an old title (`stale`): the button sends `title ?? data?.title`,
and what another client has made of the title since is gone without any overlap.
`PagesCatchUp` is about a
system that comes to rest; it needs a focus event for what no interval polls.

### Violations

Each of these runs states what the documentation or the page says, and TLC
answers with a behaviour of the code that does otherwise (`findings` in
`PROJECT.json` quotes the lines).

| Run | What happens |
| --- | --- |
| `two_tabs_twins` | two tabs process; `QUEUED` is not refused and the job ids differ, both executions delete, then both insert |
| `confirm_race` | the parse is faster than the confirm handler, whose QUEUED overwrites MAPPING_REQUIRED: the page polls forever |
| `webhook_order` | an older event is handled after a newer one, and its state stays in the row |

`webhook` and `webhook_order` are the same program with and without the
assumption that deliveries come one by one, oldest first.

### Other behaviour of the code the models have

No document speaks of these, so no property does; they are reachable.

* Two tabs that process one after the other, or one whose user missed the first
  answer: the second normalization adds `validate-<id>`, which Redis still holds
  as completed, and the import stays VALIDATING.  When both run at once, products
  are stored twice; and when the second one throws after its delete while the
  first one's validation runs, the import is READY, without any product, and the
  retry returns at its first guard.
* A product inserted while an export runs is marked EXPORTED and is in no file.
  An export whose import is processed again between count and read shows the old
  number.  The page calls that number "product rows"; it is the number of
  products, and the file has a row per variant and further image.  The processor
  reads products without `orderBy`; `CatalogFlow` takes the order of insertion.
* Saving without typing sends the fetched title, which undoes another client's
  change of it.  After a sign-out the access token in `localStorage` is accepted
  until it expires; no refresh token renews it.
* The validator tool splits at commas and line breaks inside quotes: it reports
  quotes of an exported cell with a line break, and where a title or a tag list
  has a comma, it may miss a duplicate SKU or name what is none.
* A parse recovered after a crash resets the status while
  normalization runs.  When the marking of products throws after COMPLETED, the
  retry returns at its first guard and they stay READY.
* `ImportJob.status` is never COMPLETED, and FAILED only when the catalog file
  is missing.  A failed submit leaves an import without a file, and the next one
  makes another; a lost answer to confirm makes two imports of one file.  The
  redirect of a submit happens whatever page the user is at by then.
* The overview counts the issues and products of deleted imports; its lists do
  not.  A title that is edited or an issue that is resolved starts no validation.
  The product page lists resolved issues, the import page does not.  The list of
  exports offers a download whatever the status.
* A user whose address is the fallback passes `AdminGuard` in every role, but
  `AdminShell` sends him away when his role is USER, and the users page can only
  offer to demote him.  A plan BUSINESS has no card on the billing page.
* Rows without title or price end READY (`normalization.processor.ts:107` gives
  the title "Untitled product"; the price rule looks at the product's price).
  "1,234.50" is 1.23; an inventory of "1.0" is 10.  A SKU that is twice within
  one product is no DUPLICATE_SKU, but the tool page reports it.  Products whose
  titles make the same handle share it.  The quote that keeps a spreadsheet from
  taking a cell for a formula (`csv.ts`) stays in the text when the file is
  imported again: the option "=Fit" comes back as "'=Fit", and where a row has
  both, one overwrites the other.  Two SKUs of which one is the other with that
  quote are one in the file, which nothing reports.  A product has every option
  its rows name, the file has columns for three.  Weight is not read back, and a product
  of several variants comes back as one product per line, since only the first
  line has the title.

## 4. Fairness

`FairPageSpec` is weakly fair to each tab's own steps and to its click on the
wizard's button (the user wants the catalog; the two properties about the page
say what the page then does), to each worker slot (Node runs a callback whose
promise has settled, and BullMQ's workers take waiting jobs), and to the stall
checker, which runs on a timer.  `FairReadySpec` is fair to the slots of the
export queue and to its stall checker only, and not to clients: a request that is
never finished refutes nothing.  `FairSpec` of the webhook is fair to each running
handler and to the delivery of each event that has not been answered (Stripe
retries for days).  `AccountsFairness` is fair to each handler: the database
grants what waits for a key when the transaction that has it ended, and ends
every transaction.  `Console` is fair to the shell's query, to changes under
way and to effects, but not to the focus of the window: `DemotedLeaves` names that
as its premise, `[]<><<Focus>>_vars`.  `Workbench` is fair to answers, intervals
and focus, which is what "left alone" means in `PagesCatchUp`: somebody looks at
the page, and React Query has no other occasion to ask again.
`AuthSession` and `CatalogFlow` have only safety properties and no fairness.
Nothing is assumed of throws, crashes, lost locks, evictions, edits, clicks of
users, other people, repeats or the clock, nor of focus in `ImportPage` and `Console`.  The fair
steps are continuously enabled until taken, or until somebody else has done what
they are for (the key a request waits for has been taken), so weak fairness is
enough.

## 5. Proofs

`tlapm` checks all eight proof modules completely; they hold for any number of
clients, slots, files, rows, columns, products, exports, events, clock values, tabs,
tokens, people, names, submits and failures, under the assumptions named in the
modules (`QueueAssumption`, `PipelineAssumption`, `ExportAssumption`,
`WebhookAssumption`, `AuthAssumption`, `AccountsAssumption`, `ConsoleAssumption`,
`WorkbenchAssumption`, `NumberAssumption`, `FlowAssumption`) only.

* `TypeCorrect == Spec => []TypeOK`.  `TypeOK` is not inductive: a catalog is
  looked up under the file an execution has read, which is a file only because a
  normalize or parse execution past its status write found one.  The invariant
  proved is `TypeInv == TypeOK /\ FileKnown`.
* `ProductsAreMapped == Spec => []MappedProducts` and
  `RunsAreUniform == Spec => []OneMappingPerRun`.  The check for a mapping is made
  in `Process`, the mapping is read in `StartNormalize`, the rows are written in
  `NormalizeCreate`; saves, parses, other executions and retries come in between.
  The strengthening (`MappingInv`) follows the fact along that path: where a
  process request waits or a normalize job is queued, the mapping is not empty;
  every normalize execution holds a non-empty mapping, and a PUT in flight
  carries one; no row or execution has a run number beyond `runs`, two live
  normalize executions have different runs, and rows of a live execution's run
  carry its mapping.
* `UserMappingSurvives == Spec => UserMappingKept`, an action property, from the
  invariant that `mapping` names each column at most once: a parse that inserts
  suggestions would violate the unique index if a user row had its column.
* `PageTypeCorrect == PageSpec => []PageTypeOK`, for any number of tabs.
* `PageImplementsPipeline == PageSpec => Spec`: each step of a tab is a call of a
  client, a step of its handler, or changes no row at all (`TabStepIsStep`), so
  what is proved of the pipeline holds behind the pages (`PagesKeepMappings`).
* `ExportsSparePipeline == ExportSpec => [](MappedProducts /\ OneMappingPerRun) /\
  UserMappingKept`.  A step beside the pipeline is one of its own, leaves its rows
  alone, ends all executions, or marks products (`ExportStepKinds`); the last two
  keep `MappingInv`, since a marked product is still the one its execution
  inserted.
* `WritersNeverOverlap` and `ReadyImportIsExact`, for one tab (`OneTab`: two
  break both, as the run `two_tabs_twins` shows) that chooses any catalog, while
  no worker dies, no execution loses its lock and the tab has not asked for the
  products a second time (`Calm`: afterwards a parse that is recovered writes its
  status over that of the normalization, an execution without lock has a
  successor beside it, and two normalize jobs may run at once); `ReadyExact` also needs fewer throws
  than a job has attempts, since a validation that throws for the last time after
  it has deleted the issues leaves a READY import without them.  The invariant
  (`CalmInv`) says where queue, executions, request and tab are at the same time.
  `JobsInv`: a job is active exactly while one execution holds it, and there is
  one parse and one validate job.  `StageInv`: until the file is handed over
  nothing is queued; whoever has seen MAPPING_REQUIRED knows that the parse has
  nothing left to write; once a normalize job exists the tab has seen it or has
  missed the answer; a validate job exists only when no normalize job has
  anything left to write.  `RowsInv`: a normalize execution before its product
  `n + 1` has inserted the first `n`, a validate execution has read the rows
  there are, and what it has still to mark is what is not yet marked.  The proof
  attempt found that the mapping of the products is the one the page shows only
  while the answer to the process call was not missed: the wizard is still there
  then, and what it saves comes after the products.  TLC confirms it with two
  mappings to choose from; `ReadyExact` says so (`SavedLater`).
* `ExportTypeCorrect == ExportSpec => []ExportTypeOK`, beside the whole pipeline:
  `total` is a number only because the product rows are finitely many, whatever
  the pipeline does to them (`Finite`, lemma `FinitePipeline`).
* `CompletedIsFinal == ExportSpec => CompletedStays`.  The status guard is judged
  when an execution starts and its writes come later, so the theorem needs that
  nobody else writes the export meanwhile.  While no lock has been lost
  (`Steady`), an execution holds its lock, two executions never have one export
  (`Alone`), and an execution that has yet to write PROCESSING sees an export
  that is not COMPLETED (`Guarded`).  `xspent["stall"]` never decreases, so
  `Steady` in a later state gives it in all earlier ones.
* `ExportedCanBeDownloaded == ExportSpec => []ExportedWasStored` and
  `TotalIsStored == ExportSpec => []ShownTotal`, beside the whole pipeline and
  with every kind of failure of both, lost locks included.  The rows may be
  deleted and inserted at any time, so the invariants say what remains true.  For
  the first: a row inserted while no export was running is read by every
  execution that starts later, so what an execution is about to mark, or has
  marked, is in its file or `late`; a second put under a key never has fewer of
  these rows, and a row that is gone needs no file.  For the second: as long as
  an export is not in `moved`, its request, its executions and its object all
  have the rows the import has, or had until the export was done.
* `AnsweredWasProcessed == Spec => []AckedIsDone` for any order, overlap and
  repetition of deliveries: only a processed event is about to be answered.
* `ProcessedIsInRow` and `WebhookFollowsHistory`, for `InOrder`: every processed
  event is in the row or a later one is, and every step of the webhook is a
  `Change`, a `CatchUp` or a stutter of `SubscriptionHistory`.  The core is
  `ApplyForward`: what a handler is about to write is not older than the row.  If
  it were, the event would have been answered (`RowAfterAcked`), hence be
  processed, and its handler would not have come so far (`StillOpen`).
* `AuthTypes == Spec => []AuthTypeOK`.  That an access cookie has not expired
  needs that an answer under way carries an access token that has not
  (`NewFresh`).
* `CookieStaysUsable == Spec => []JarUsable`, for any number of tabs: what an
  answer is about to put into the cookies is not what any request revokes
  (`NewIsNew`), hence live (`NewIsLive`).  A token two refreshes have both
  accepted is revoked twice, each replaces it by a token of its own.
* `UsersStaySignedIn` and `SigningOutIsFinal`, for a browser that keeps cookies:
  unless the user is unsure at most one exchange is going on (`OneExchange`), and
  where it stands says what cookie and `localStorage` hold (`WhileSigning`,
  `WhileIn`, `WhileOut`: signed out, the access cookie is gone and so is every live
  refresh token).  The fact behind both is that the token in
  `localStorage`, which a refresh does not replace, is that of the cookie or dead.
* `AccountTypes == AccountsSpec => []AccountsTypeOK`, `SlugsStayDense` and
  `NobodyIsLeftOut`, for any number of clients and names.  Density needs what the
  probe found to stay true while the transaction waits: the numbers below the
  slug of a request are taken and stay so, since no organization is ever
  removed, and a slug that was free may be taken meanwhile, which the insert then
  finds out.  No circle of waiting transactions (`NoCircle`) comes from the order in which
  `register` takes its keys: whoever holds a key that others wait for is past
  the statement at which they wait, so of any set of transactions the furthest
  waits for none of them.  That nobody is left out needs that a commit is the only
  place where users and organizations appear, but for the script, and that the
  script's organization has a slug no name makes: it never replaces another.
  `ConsoleKeepsAccounts` says that all three survive what the console adds:
  changes made from old lists are changes of rows there are (`Asked`).
* `TabNamesOwnOrganization == Spec => []OrgOfUser` of the console.  The invariant
  adds what is on its way (`Belongs`): the organization in the answer to a sign-in,
  and that of a registration that is committed, belong to that person; members
  are never removed (`Grows`), so what was stored stays true.  `cf_org` outlives
  a sign-out, but nobody is signed in again before it is overwritten.
* `ChangesAreShown == Spec => []ChangeShown`.  That nobody else has written is
  seen from a counter and the script's progress, which only go on (`Told`).
  Until they move, the rows say what the last change asked for (`Made`; requests
  of this tab only add rows, and changes of one kind leave what the others
  wrote), and what the page has been answered since says so too (`Seen`), since
  the answer to a change gives up a fetch that is under way.  A page is told only
  of what it asked (`Located`), and a button offers only what can be done to a
  row (`Asked`).  `Billed` is the same for the plan on the billing page.
* `WorkbenchTypes`, `NoEditIsLost`, `SavesAreShown`, `UploadsAreAccounted`,
  `DownloadsAreFound`, each `Spec => []...`, from one invariant, `WorkbenchInv`.
  Its parts: `Life` (what an import's status says about its file, mapping and
  product), `Opening` (which submit opened which import, and that no two opened
  the same), `Counted` (as many imports without a file as submits that are
  sending or failed, at most), `Seen` (what a page shows or is about to be
  answered was true once, as far as it cannot become false again: an import that
  was READY stays, an export that was COMPLETED has its file), `Filed` (an export
  that is COMPLETED has a file), `Patches` (what a PATCH has read is still stored,
  until two have clashed), `Untyped` (a title that is sent as it was shown is the
  stored one, until a PATCH overtakes it or the page is `stale`), `EditsKept`, `Here` (a save counts as made here only on
  the product page of its own import) and `Saved` (from the answer to a save on,
  the page asks, or is about to be told, or shows the saved title, until somebody
  else has done something).

* `FlowTypeCorrect`, `SharedSkusAreJudged` and `EveryRowIsKept`, for `FlowTypeOK`,
  `SkusJudged` and `RowsKept` of `CatalogFlow`, for files of any size, mapped in
  any way.  What the operators on text return is left open, so nothing depends
  on it.  The invariant, `FlowInv`, says where products and verdicts come from:
  from normalization on the products were made of the groups of the rows
  (`Grouped`), from validation on the issues and the status are what the rules say of
  these products (`Judged`).  The rest are facts about the operators.
  `InOrderLists`: `InOrder` lists a set of positions once each (the number of
  smaller positions is one-to-one into as many numbers as there are positions).
  `GroupsPartition`: the groups of a list of keys have every row once, and none
  is empty, from which comes the one-to-one correspondence of rows and variants that
  `RowsKept` counts (`RowsGrouped`: as many variants as rows, also when rows are
  equal).  `FlattenSteps` and `FlattenJoins`: joining the lines of the products
  makes one list, in which those of a product are together and in order;
  `FlattenSeq` is defined by recursion on positions, and that the recursion has a
  solution is shown from the first position without one.  With it `FileLines` says what
  is in each line of the file, for `RowsKept` and for the SKUs.  `CountedTwice`:
  the counts the rules compare with 1 are above it exactly when another product
  has the SKU, so it is an error of both; `OwnIsExported`: the SKUs the rules
  count for a product are those its lines are exported with, the product's own
  where a variant has none; `OneRuleFindsDuplicates` and `DuplicatesFound`: no
  other rule reports one.  These proofs corrected what was to be proved.  That lines
  with the same SKU are always reported is false for SKUs that differ in the
  quote of the exporter only; that a line reads back as its variant is false for
  option names that get such a quote and for fourth options.  TLC found both as
  soon as the instance had such rows, and the properties and the instance have
  them now.

Steps that leave all of a part's variables unchanged are dealt with once, by
frame lemmas (`MappingKept`, `QueueKept`, `RequestsKept`, `RowsKept`,
`ExecsKept`), so each action's proof only speaks of what it changes.

Only model-checked: `RoundTrip` and `ToolsAgree` of `catalog`, which depend on what
parsing and printing make of texts character by character (the provers know
strings as values without parts, and the tools' filters, `SelectSeq`, not at all), and the liveness properties (`ProcessedGetsReady`,
`QueuedCompletes`, `SettlesOnTruth`, `RequestAnswered`, `DemotedLeaves`,
`PagesCatchUp`), since liveness under fairness is out of the prover's reach, as is
what a recursive definition computes.

## 6. Not modelled

* Of authentication: the hash of passwords, and the single-use rows of e-mail
  verification and password reset; no code delivers their tokens to the user.
  Browsers that keep no cookies are in the model (`Cookies = FALSE`) but not in a
  run: `StaysSignedIn` fails for them at the second expiry, because `api()` never
  stores the new refresh token; no document supports them.
* Of the catalog core: the CSV and XLSX libraries, which turn bytes into cells.
  A file whose columns have one name twice does not get past `Parse`, since the
  unique index refuses its mapping rows; the instances have none.
* `shopify.validator.ts`, which nothing calls: its limit of three options is
  enforced nowhere; that the exporter drops a fourth one is part of `RoundTrip`.
* Of administration: the read-only lists of organizations, imports, exports and
  audit logs; that lists end after 50 rows, and that the service answers zeros or
  an empty list when the database fails.
* Billing checkout and portal: they call Stripe and store nothing.  Usage limits
  are shown and enforced nowhere.
* Image, AI, e-mail and Shopify workers: nothing queues work for the first, the
  others log and return.  `platform-core` is type declarations, and nothing calls
  the client in `ai`.
* Storage, configuration, logging, types, the marketing site: input, output and
  static pages.  That a get, a put or an audit row may fail is modelled where it
  is called.
* The FAILED branch of the export processor: it needs an `ExportJob` whose import
  is gone, and no code deletes an `ImportJob` row.
* Eight hazards have no property: the code does what it does there by intention or
  without a statement to hold it against; the notes in `PROJECT.json` say which.

## 7. Plan

The parts where several processes write the same rows came first (pipeline,
exports, webhook, sessions), then the pure functions, then the accounts and the
pages.  What is left, in this order:

1. The read-only lists of administration, if they get operations of their own.
2. `catalog` with files of more rows, when the rows no longer meet in pairs.
