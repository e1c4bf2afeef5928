# A TLA+ model of worker-cms

worker-cms is a content management system that runs as one Cloudflare Worker:
an admin interface and a plugin API in front of a D1 database (`DB`), a second
database that serves the public site (`PUBLISHED_DB`), an R2 bucket, a queue of
background jobs, a cron trigger and two kinds of durable object. Several
invocations run at once, each of them an `async` function that may be
interleaved with the others at every `await` and may die at any of them. D1
gives one guarantee: `DB.batch([...])` is one transaction. Everything the
program promises across two batches, two databases or two invocations it must
arrange itself, and that is what these modules are about.

The conventions are the same in every module:

- a statement, a batch or another remote call is one step, since nothing can
  come between; two of them in a row are two steps;
- an invocation is a record with a `phase`, the place it has reached, and what
  it has read so far, which may be out of date by the time it is used;
- a death (an exception nobody catches, an unreachable store, an evicted
  isolate) ends an invocation in any phase; what it had not written is never
  written;
- a variable called history or ghost (`seen`, `touched`, `resolved`, `periods`,
  `alone`, `reused`, `damaged`, `books`, `made`, `astray`) has no counterpart in
  the code; it remembers what a property has to know;
- a definition marked *mutant* is not part of the model: it is a plausible
  mistake in the definition below it, kept to show that the property notices;
- page contents, names, e-mail addresses, formats and wording are left out. A
  page is an id, a payload the publication or the edit it came from, a tag its
  slug. Only `PageDocument` looks into a page.

## The system

Paths are relative to `src/src/`.

| Component | State | Operations | Hard behaviours | Correct when | Module |
|---|---|---|---|---|---|
| Credits: wallets, pool, ledgers (`features/credits/service.ts`, `admin-mutation.ts`) | a wallet for each user and currency, a shared pool, a ledger of each | reserve, refund, transfer, donate, share, administrator's grants, deletion of a user | debits and refunds in separate batches, races for the pool, deletion or death in between | ledgers explain balances, nothing overdrawn, split, charged twice or destroyed | `Credits` |
| Credit subscriptions (`subscriptions.ts`) | one row for each user, plugin and credit: quantity, peak, due date, last mode | usage report, hourly sweep | overlapping sweeps, reports racing a sweep, refusals, outages, mode switches, deaths | a month is billed once, by its mode, from its peak; what is due is served | `CreditSubscriptions` |
| Page lifecycle (`core/pages/lifecycle-mutation-evidence.ts`, `features/trash`) | drafts and trash as trees, versions, tags, legal holds | trash, restore, purge, single and bulk | reads before a guarded batch, cascading deletes, chains and cycles of parents | a call is atomic; links never dangle; what is held, or lies above it, stays | `PageTree`, `PageLifecycle` |
| Submissions (`core/db/submission-ingest.ts`, `core/pages/submission-erasure.ts`) | rows the public site writes, their mirrors, a cursor, owed erasures | ingest, pull, publish, unpublish, trash, restore, purge, erase | two databases, overlapping runs, late rows, deaths | every submission is mirrored; deleted ones do not come back; a confirmed erasure is true | `SubmissionMirrors` |
| Sensitivity (`core/schema.sql`, `features/trash/schema.sql`, `core/db/sensitivity.ts`) | classes of types and taxonomies, a floor under each page's uuid | classify, retype, tag, move and rename taxonomies, copy, trash, restore | triggers on a dozen statements must miss no path | a floor is the highest class its page was ever seen under | `Sensitivity` |
| Publishing (`core/publish/index.ts`, `regulated.ts`, `audit.ts`) | what a publication has read | gate, snapshot, transfer audit, hand-over | every read an `await` apart from the next | health data never leaves | `Publication` |
| Published tags (`core/publish/d1.ts`, `routes/admin/tags.ts`) | `tags`, `page_tags` of both databases | save, delete, push and sync tags, publish, unpublish | two batches per publish, lost pushes, unique slugs | a live link resolves; a call that runs alone repairs what it touches | `PublishedTags` |
| R2 target (`core/publish/r2.ts`) | an object per page, `index.json` | publish and unpublish slices | read-modify-write of the index | the index lists what is stored | `R2Index` |
| Background jobs (`features/jobs`) | `admin_jobs` rows, messages | enqueue, claim, slice, requeue, finish, fail | at-least-once delivery, deaths, stale claims, revoked grants | no slice twice, done means all, outcomes final, jobs settle | `AdminJobs` |
| Sessions (`core/auth/sessions.ts`, `session-evidence.ts`, `core/db/audit-mutation-outbox.ts`) | session rows with the current and previous token, envelopes of evidence | refresh, grace, logout, cap, hygiene, drain | two requests with one token, lost answers, retried deliveries | one successor per token; a session's end has one receipt | `Sessions` |
| Users, identities, roles (`features/users-roles`, `core/auth/role-store.ts`, `access-authorization.ts`, `oauth-account.ts`) | accounts, provider identities, roles and their grants | sign in, register, link, disconnect, change and delete users, change roles | authority read before the batch that uses it | an administrator remains; nobody gives what he has not; an identity leads to one account | `Accounts` |
| Audit archive (`features/audit/sweep.ts`) | events, intents, seals, state and lease, objects of a bucket | freeze, write, seal, read back, anchor, reconcile, prune | lapsed leases, deaths at every step, lost answers, damage | the chain never forks; nothing unarchived is deleted; no false alarm | `AuditArchive`, `AuditChain` |
| Audit of reads, outages (`core/http/access-log.ts`, `core/db/audit-outages.ts`, `features/audit/outages.ts`) | announced pages, the trail, a journal, alerts, reviews | classify, record, report, monitor, review | database, journal and receiver down one by one | a classified read is recorded or an incident; every incident is heard of | `AuditOutages` |
| Page content (`core/pages/mutation-evidence.ts`, `batch-mutation-evidence.ts`, `routes/admin/pages`, `features/plugins/api/pages.ts`) | draft rows, tags, versions, weights | save, restore and remove versions, replace, tag, patch, reorder | edits from older reads | no edit silently lost; history kept; a reorder lands as dropped | `PageContent` |
| Creates and form tokens (`crud.ts`, `features/plugins/api/create.ts`, `core/durable-objects/form-once.ts`) | charges, quotas, claims of tokens | count, reserve, write, refund, copy in chunks, submit, claim, release | charge and batch apart, answers lost, retries | pages of the plugin API are paid once, a form makes one page | `PageCreates` |
| Documents and forms (`core/db/lect.ts`, `page-logic.ts`, `core/templates/editor.ts`, `core/views/assets/editor.js`) | one document, the forms rendered from it, a clipboard | render, type, drag, add, delete, paste, post | a form posts what it was rendered from, by index | what was posted is what was shown | `PageDocument` |
| Live editing (`core/durable-objects/page-sync.ts`, `core/views/assets/editor-sync.js`) | presence, sockets, a field's overlay, a text replica | join, edit, save, leave, reconnect, broadcast | every message waits for an authorization of its own | tabs agree once quiet, texts merge, editors meet | `PageSync` |
| Plugins (`features/plugins`) | registrations, pins, approvals, state, sequences, tickets | register, pin, approve, count, draw numbers, enrol | grants kept by an identity the worker claims | grants are exclusive, numbers and secrets go out once, calls are authorised at commit | `Plugins` |
| Plugin targets, projection (`core/publish/adapter.ts`, `projection.ts`) | none | forward a snapshot; prune a document | | | - |
| Media; content types, i18n, settings; search; HTTP layer; rendering | single rows or objects, or none | | no state is carried across two operations | | - |

How the parts meet: routes and the plugin API reserve credits, write pages in
one batch with their evidence, and refund what was not written. Trashing a page
withdraws it from every publish target; purging a submission's mirror leaves an
erasure behind for the other database. Publishing reads pages, tags, floors and
the class policy of `DB` and writes `PUBLISHED_DB`, R2 or a plugin. Bulk
actions run through jobs, whose claim is one more guard of the lifecycle's
batch. Cron (`index.ts`) starts ingest, erasure, subscription sweep, outbox
delivery, the outage monitor and the audit sweep. Every mutation carries its
evidence in its own batch, as rows of `audit_events` or as envelopes of the
outbox; the archive starts from the rows. Deleting a user cascades to sessions
and identities (`Accounts`) and to wallets and subscriptions (an action of both
credit modules). The components share no state beyond what these sentences
name, so each has a module of its own, and what one needs of another (the floor
a publish reads, the document a save stores, the reservation of a create) is in
the module that needs it.

## Modules

| Module | Extends | What a step is |
|---|---|---|
| `Credits` | - | one batch of one of the requests in flight, a death, a deletion of a user |
| `CreditSubscriptions` | - | one statement of a sweep, a usage report, an hour |
| `PageTree` | - | one call on the tree, atomic: the specification the lifecycle code is measured by |
| `PageLifecycle` | `PageTree` | the reads of a call; its guarded batch; a hold; an edit |
| `SubmissionMirrors` | - | one statement of an ingest run, a request or an erasure pass, on either database |
| `Sensitivity` | - | one batch with the triggers it fires |
| `Publication` | `Sensitivity` | the same, and one read of a publication |
| `PublishedTags` | - | one batch on either database |
| `R2Index` | - | one put, get or delete of the bucket |
| `AdminJobs` | - | one statement, send or slice of an invocation, one delivery |
| `Sessions` | - | one read or one guarded batch of a request, a delivery, the passing of time |
| `Accounts` | `Sessions` | the same, for users, identities and roles; the next-state relation of both |
| `AuditChain` | - | one event recorded, one segment archived, rows pruned: what the archive promises |
| `AuditArchive` | instance of `AuditChain` | one statement of the sweep, one request to the bucket or the receiver |
| `AuditOutages` | - | one awaited call of a request, a monitor or a review; an outage begins or ends |
| `PageContent` | - | one read, the preparation, or the batch of a request on drafts |
| `PageCreates` | `PageContent` | the same, and one transaction of the wallets or of a token's object |
| `PageDocument` | - | one thing done in a browser tab, or one form merged and stored |
| `PageSync` | - | one message sent, handled or received, one turn of a timer |
| `Plugins` | - | one read or one guarded batch of a call of or about a plugin |

`MC...` modules hold what the instances need (definitions for constants,
symmetry, the restrictions named below, and the composition of components that
one run checks) and nothing else: where a module is made of parts (`part` in
`MCBilling`, `MCPublishing`, `MCAdminJobs`, `MCRequests`, `MCPageSync`,
`MCSubmissionMirrors`), a behaviour moves one of them while the others keep one initial state, and a
property is checked where it moves. The `...Proofs` modules hold the proofs.

### Credits

`spendCurrencies` takes a price currency by currency: a guarded debit of the
wallet (`ChargeUser`), when that fails a read to tell an unknown user from an
empty wallet (`Classify`), and a guarded debit of the pool (`ChargePool`). A
refusal, or rows that were not written (`WriteRows`), leads through `Refund`,
one batch for each part still held. Transfers are a `Lookup`, a `Debit` and a
`Credit`; administration is `Prepare` (the balance is read) and `Commit` (a
batch guarded by what was read) or `Decline`. `Refund` of a part the pool paid
does nothing when the user is gone, because its ledger row refers to the user;
the refuted property comes from there. How much of a price a batch that failed
in part keeps is said by `FairlyKept` without the code's formula: the price of
the written rows to the nearest whole credit, half a credit in the payer's
favour. The prices of the instance have halves in them, so that rounding down,
up, or half to the house each breaks `RequestsSettle`.

The instance has two users, the pool, two currencies and eleven requests, of
which any two run at once: every pair of operations, on the same or on
different accounts, with `DeleteUser` and `Crash` anywhere. Opening balances
are such that the wallet pays one price and not another and the pool only one
of two. Two requests are enough for the races, since each step of a request
concerns one account and is guarded by that account alone.

### CreditSubscriptions

One row, because a sweep does its rows one after the other and they meet only
in the wallet. Time is in hours, a day two of them and a month three in the
instances, so that a retry falls between two boundaries. Claims that stand are
kept in `periods`; a rolled-back claim is taken out of it. The clock stands
still while a sweep is under way: a scheduled handler lives for minutes. That
excludes a rollback that lands in another hour than its claim.

With two sweeps, refusals, mode switches and a death, the claim's guard on the
old due date holds what the header promises (the subscription part of
`billing`). Three statements
have no such guard: the deferral after an outage, the cancellation, and the
reset of the peak. `UndisturbedOutages` therefore lets outages and vanished
costs happen to either sweep, but not in the very stretch between which the
other claims the row; `subscriptions_outage` is the same instance without that
restriction. It withholds no step that fairness needs: the sweep that is about
to write can always go on.

### PageTree and PageLifecycle

`PageTree` has drafts and trash, a parent for each copy and the place a trashed
page came from. Each call is one step: it takes the selected pages, moves them,
releases what pointed at them and, for purges, takes what lies below along
(`Below`, a closure, as the cascade of `trash_pages.page_id`). `HeldAbove` is
the recursive query that keeps a bulk purge away from pages with a hold below.

`PageLifecycle` follows one request through the code: what it read of its
pages, links and holds, and the batch, which commits only if every row it read
is as it was. `CommitsAreAtomic` says that whatever such a batch does is one
step of `PageTree` for the pages it selected, at the moment it commits.

`lifecycle` follows one call among other, whole calls and edits, on two pages
(`OneCallAmongOthers`); other calls may be whole because the property itself
says they might as well be, and the proof has any number of them. The
constraint `FewHeldOrPulled` holds back states with two held pages or two pages
both in trash and pulled again. Two pages give parents, children, a parent
cycle and a page outside; longer chains are left to the theorems.

### SubmissionMirrors

A uuid is its place in the `(created_at, uuid)` order the cursor follows, so
`Submit(2)` before `Submit(1)` is a late arrival. The two databases are `live`
and the rest. A draft is `"plain"` until its version row has been written, which
is how the code tells a mirror. A run is a scan, a pre-check of known uuids,
and an insert and a mark for each row; requests read the mirror flag and act
later; an erasure pass reads what is pending, deletes it, and confirms it.

`mirrors` has one request and one erasure pass beside its runs, and one failure,
in two parts: a run on its own beside everything editors do, and two overlapping
runs beside what editors do to the pages the runs are about.
`OnlyTheOvertakenRevive` is checked in both. It says what overlap can and cannot
do: a run brings a deleted submission back only where another run, or an
editor's pull, made a draft of it after this run had looked which uuids are
known; `made` remembers that. So a run's own uuids stay deleted through every
trash, restore, purge, erasure and crash, and one look before the inserts is
enough as long as nobody else inserts. The comment in the code promises more
("Safe to call concurrently"), and `mirrors_overlap` shows that promise broken by
two runs and one editor.

Of the other two properties the specification `Apart` (in `MCSubmissionMirrors`)
leaves out one thing, also beside overlapping runs: what happens to a
submission's copy between its insert and its mark (`MarkedAtOnce`). What goes
wrong there is in "Limits found" below. It withholds no step of a run or a pass
for good: what they wait for is a request that would otherwise count as dead.

`SubmissionsMirrored`, a part of `MirrorsSettle`, is stated for behaviours in
which runs are not cut short for ever: a page of an editor that is published,
trashed and purged exactly between a run's insert and its mark makes the insert
of the version fail, the run ends without having saved its cursor, and the next
one meets the same row. Once is harmless; as often as the run comes by, and
every later submission waits. One submitted and one authored uuid suffice for
the cursor to pass a late arrival and to stop at a full scan.

### Sensitivity and Publication

Each trigger is part of the action whose statement fires it. `floor` is what
the triggers have computed, `seen` the highest class the page, or what it was
copied from, was ever seen under, computed by looking at every state.
`FloorIsHighestSeen` says the two are equal: no path misses a class, and no
trigger charges a page with another page's.

`Publication` adds publications to it. `HealthDataStays` is what the gate and
the recheck achieve in spite of a policy map read once per request and floors
read before the tags. One target, and a publish of one page: pages of a slice
are checked one by one, and targets are served one by one from the same
snapshot. Projection, the parents of a page and the refusal of submission
mirrors are left out.

Both are the `gate` part of `publishing`, with two pages and three
taxonomies. `EditedOrPublished` keeps its size down: a publish is under way only
where one page is in use and one of the two nameable taxonomies is not, so
copies, and renames of a classed taxonomy, are checked without a publish beside
them. Only health data (`Classes = {2}`) is assigned or arrives.

### PublishedTags and R2Index

Both record in `alone` the calls beside which nothing else has run from their
first step, since the comments promise repair by "the next publish". A tag is its slug, the field that is
unique; regulated tags (withheld by the gate) and parents of tags are left out.
`AloneSettles` holds after any history of lost and overlapping pushes. `R2Index` tells an object by the publication it came from; an index
that cannot be read counts as empty in the code, which the model leaves out.

### AdminJobs

A job is a row of `admin_jobs` with its cursor and total. An invocation claims
it, looks the user's grant up, applies a slice in one batch that has the claim
and the grant among its guards, and finishes or requeues the row, guarded by
the claim once more. Messages may be delivered twice, sends, commits and
requeues may report a failure that did not happen, invocations may die, grants
be revoked and pages be edited out of a search. The batch of a permitted slice
may also fail for a reason of its own, with or without having committed. `bound` is FALSE in an
installation without a queue binding, where the invocation goes on by itself.
Publish and unpublish slices are left out: no guard ties them to the claim, and
repeating them is harmless. A death after the claim leaves the row running for
good, which `docs/page-batch-mutation-evidence.md` accepts; `JobsSettle`
therefore promises nothing after a death, nor after a message that could not be
sent (see "Limits found").

Slices of one page out of two give jobs of several slices, and two
invocations the stale holder beside the new one.

### Sessions and Accounts

A request begins with a read (which session a cookie leads to, whose authority
it acts under), awaits, and commits one batch that begins with a guard: the
session, the account and, for administrators, every role and grant are still
what was read. `Guard`, `Same`, `MayRotate`, `MayLink` and their like are those
guards. A rotation may fail or lose its answer (`faults`); the request then
looks whether its own evidence is there before it falls back to grace. Ending a
session enqueues an envelope in the same batch; a drain delivers envelopes one
by one, each as the event and its deletion in one batch, and counts failures.

Tokens and sessions are numbers, so that "the same token" is decidable; time is
three transitions (a session goes idle, runs out, loses its grace). `reused`
remembers the names custom roles were created under: the guard compares names,
so a role deleted and created again between a capture and its commit is taken
for the one that was read. `AccessIsWhole` allows exactly that, and "Limits
found" has the sequence. The table guard on role snapshots is subsumed by the
catalogue guard and not repeated. Sessions carry no user agent; profiles, names
and invitations are left out.

`access` serves two to four requests, of which two overlap, in ten groups of
kinds that meet on the same rows (`StartsForTLC`), each from the accounts where
it matters: one administrator or two, a legacy account without identity rows,
roles with and without grants. One fault.

### AuditArchive and AuditChain

`AuditChain` is the promise: events are recorded, a segment that continues the
chain exactly where it ends may be added to it, and rows the chain holds may be
pruned. `AuditArchive` follows `sweep.ts` statement by statement: lease, head,
look for intents, freeze, re-read, put, seal, verify, anchor, reconcile, prune,
report. A rolling hash is the sequence of segments it covers, so that equal
hashes are equal chains. A lease may lapse while its run goes on; runs die,
the bucket is unavailable at any of its requests (a put may have landed all the
same), answers of the receiver are lost, and objects are damaged
(`damaged` remembers that, for `NoFalseAlarm`). A fault is its kind and the key it is
about, as in the code's fingerprint, and only another one is reported again.
What the code archives maps to `chain` as the seals read back (`verified`), and `KeepsTheChain` says that every
statement is a step of `AuditChain` or changes nothing it sees.

`audit` has two runs that may overlap, two events in segments of two, one lapse
and one fault: a stale holder beside the new one, a crash at every statement,
and a segment frozen short before the next event arrives.

### AuditOutages

Three parts of `jobs`: `reads` (one request that announces and reads two pages
while classes and floors rise, with one outage or lost answer), `alerts` (two
incidents and a monitor with a page size of one instead of ten, so that a tick
ends between them), `reviews` (one incident, two reviewers who may decide
differently, the monitor). `trail` is what the database holds of reads,
`journal` the objects of incidents, `received` what the receiver was told. Class
and floor of a page are one read; ticks do not overlap; a receipt is pruned only
when no review is under way; signals, heartbeats and the fields of a health
report are left out. Incidents beyond the code's bound are not reported by it
and not modelled.

### PageContent and PageCreates

A request reads its rows, prepares (authority, tags, version ids) and commits
one batch whose guards (`Unchanged`, `SameSequence`) compare all of it. Reads of
the preparation are one step, since each of them but the slug is guarded; the
slug an admin form was given is not, and that is a limit below. Texts and tag
sets are the number of the edit that wrote them, so that a lost edit shows. A
bulk slice has several pages; a reorder has the window the client was shown and
the order it dropped.

`PageCreates` adds charges and quotas: the admin form (`new`) counts, reserves,
writes and refunds on any failure; the plugin API (`api`, `copy`, `form`) plans
ids and slugs, admits, reserves, and repeats its checks in the batch, one batch
per chunk for a copy; it withholds a refund it is not sure of. `Outcomes` is
what a call did and what its caller saw. A form a plugin serves claims its token
in a durable object, which handles one call at a time, and gives it back after a
failure; tokens age, and claims expire after them. `books` and `forms` are
ghosts but for what the payer has left. Of a page of the admin form nothing is
claimed: it refunds on any failure, a lost answer included, and
`docs/quick-create-mutation-evidence.md:19` says that content and refund may
coexist there.

The `writes` part of `requests` takes thirteen groups of kinds (`PlansForTLC`),
three requests of which two overlap, one fault. A save carries a text of its
own, a PATCH always has `if_lect`, ids grow with time, refund portions are
exact. The path of an admin form through the job queue is left to `AdminJobs`.

### PageDocument

The one module that looks into a page: a text in each language, rows of items,
blocks with rows of their own, weights. `stored` is the document, `tab` the
forms rendered from it, and a post merges a form into the document as it is by
then, by index. The `forms` part of `requests` opens two tabs, with one thing
typed, dragged or pasted and two posts, from a document whose rows are out of
order and one that has nothing; `boxed` distinguishes the built-in editor, whose
forms carry the whole document in a box, from a plugin's view.
`PostsLandAsShown` says what the next page shows after a post; its exceptions
are in "Limits found". Nested item groups, pictures, pointers between pages and
the conversion of older documents are left out; values are the number of the
typing that wrote them.

### PageSync

A field whose last writer wins and, where it is rich, a text that Yjs merges,
between browser tabs and the page's durable object. Messages of a connection may
be handled in any order, for each waits until its sender is authorized; a
broadcast waits for each receiver. Every browser stamps its edits with its own
`Date.now()`: a stamp is any number not used yet, before or after those the tab
has seen (two browsers with the very same millisecond are left out).

`FieldsConverge` is checked and proved of the plain specification, in which any
connection breaks with any of its messages lost, handlers and broadcasts overtake
each other, saves and departures fall between them and clocks are skewed. The
code does not converge in all of that, so the property names the tabs it is not
about: `astray` is the history of those that were led astray and not put right
by a later departure or save, or by an edit newer than all the object had. There
are five ways, each stated at the step where it happens: a tab whose clock is
behind what it shows edits; a tab hears of an edit the object has dropped; it
hears of a departure or a save after which the object has changed again; the
object takes an edit the tab was told to forget; a page is loaded again while the
object still has an edit of its user. A tab none of that befell agrees with the
object once nothing is on its way; only, a tab takes no edits that its own user
makes in another tab, so of those nothing is claimed. Each way is a limit below;
taking any of the first four out of `astray` makes TLC find a tab that diverges
in this instance; the fifth shows in part `save` where pages may be loaded again
there.

`TextsMerge` is about a page with a text and is checked under `Apart`, at the
end of the module, which leaves out of such pages what the text does not
survive: text sent on a connection that broke, a save that a tab with a copy
does not hear of or with anything under way, what happens while the last tabs
hear of a save, and a page loaded again before the object is done with its tab's
last connection. These are limits below too.

`editing` has four parts: `field` (three tabs, two of one user, two edits, any
stamps), `save` (two tabs, two edits, a save or a broken connection), `text` (two
tabs, three pieces, a save or a broken connection), `presence` (how tabs come to
be connected); a tab has one dead connection at a time. Limits on sockets,
messages and storage, and focus highlights, are left out.

### Plugins

A registration is a row with a URL and a secret; the worker there says which
identity it has, and approvals, state and sequences are kept by identity. A
request resolves its caller (row, manifest and pin), reads what it needs and
commits a batch guarded by whole-table snapshots. Reads that are guarded are one
step with what follows; the cached manifest may be the previous one. `log` is
the history of what calls achieved, under which row and which identity.

The `plugins` part of `requests` has two workers, two identities, three rows at
most, and nine starts with the kinds of request that meet there; five requests
in all, two at a time. An identity has one sequence and one state key. Row ids and uuids are not used again; disconnecting
a tenant, trusted asset views and the settings of limits are left out; the
expiry of an enrolment is read first and its ticket deleted by a later statement,
whatever has happened to the row in between. The guard on the journal's generation
is left out, which lets the model do more than the code.

## Runs

Deadlock is checked unless a specification can stop for good (all requests
answered, the clock at its bound, all faults spent); such configurations say
`CHECK_DEADLOCK FALSE`.

| Run | Property | Result |
|---|---|---|
| `billing` | `BooksSound` (types, `LedgerExplainsBalance`, `NeverOverdrawn`), `RequestsSettle` (a refusal is unwound, a spend takes its price once, moves conserve); for subscriptions `MonthsBilled` (once a period, by its mode, from its peak), `RowsAreServed` | hold, with outages apart from claims |
| `credits_share_refund` | `RefusedPoolDebitReturned`: a refusal has returned what it took | violated when the user is deleted in between |
| `subscriptions_outage` | `ChargedOncePerPeriod` | violated by an outage across a claim |
| `lifecycle` | `TrashSound` (`LinksSound`, `OriginIsHome`, `BulkSparesHeld`), `HeldNotDestroyed`, `CommitsAreAtomic` | hold |
| `mirrors` | `MirrorsSound` (`ConfirmedMeansGone`), `OnlyTheOvertakenRevive`, `MirrorsSettle` (`PurgedMirrorsErased`, `SubmissionsMirrored`) | hold, overlapping runs included, where copies are marked at once |
| `mirrors_overlap` | `IngestNeverRevives`: a submission that is in trash or was purged does not come back as a draft | violated by two overlapping runs |
| `publishing` | `FloorIsHighestSeen`, `TypesNeverWeaken`, `HealthDataStays`; `TargetsSound` (`SlugsUnique`), `AloneLands` (`AloneSettles`, `AloneIsListed`) | hold |
| `jobs` | `JobsSound` (`TouchedOnce`, `DoneMeansAll`), `StepsAreLicensed` (`OutcomeIsFinal`, `RevokedDoesNothing`), `JobsSettle`; `EvidenceSound` (reads of health data are recorded or reported; an incident has one decision), `AlertsArrive` | hold |
| `access` | `OneHeir`, `AccessSound` (`EndsAreEvidenced`, `AccessIsWhole`), `OneAccountPerIdentity`, `NobodyExceeds`, `EvidenceDelivered` | hold |
| `audit` | `OneChain` (`Unforked`, nothing lost), `NoFalseAlarm`, `KeepsTheChain`, `ArchiveKeepsUp` | hold |
| `requests` | `CreatesSound` (`ApiPagesArePaid`, `FormMakesOnePage`), `DraftsAreKept` (`EditsBuildOnWhatTheyReplace`, `HistoryKeepsEveryDraft`), `ReorderLandsAsDropped`, `PlansLandAsAdmitted`; `GrantsAreExclusive`, `IssuedOnce`, `CallsAreAuthorised`; `PostsLandAsShown` | hold |
| `editing` | `FieldsConverge` (of tabs not led astray), `TextsMerge` (within `Apart`), `EditorsMeet` | hold |

The names in parentheses are the conjuncts a property is made of; the type
invariant of a module is among them. Each violated property quotes a comment or
document of the repository; the findings in `PROJECT.json` give both places.

### Limits found

Further promises of comments that the code does not keep, found with the same
modules. They are not runs of their own; to reproduce one, add the formula to
the module and check it with the bounds named, under the plain `Spec`.

- *A reservation's refund* (`credits/service.ts:790`: "if any one of them is
  refused, every wallet already debited is refunded"). As in
  `credits_share_refund`, for a price in two currencies whose first part the
  pool paid: the payer is deleted before the second, and the refund of the
  first aborts on the foreign key. `RefusedPoolDebitReturned` with a spend as
  the only request.
- *Usage reported during a sweep* (`credits/subscriptions.ts:15-17`: "so usage
  can't dodge the bill by shrinking"). A report of 3 and then of 1 between a
  sweep's charge and its reset of the peak: the 3 is billed by nobody. One
  sweep, `Quantities = {1, 3}`, one mode; `row'.peak < row.peak` only in a
  `Settle` whose `Seen(s).peak` is at least `row.peak`.
- *A cost that is gone* (`subscriptions.ts:217`: "the subscription ends. A
  future usage report recreates it"). One sweep reads the row, another cancels
  it because its manifest lacks the cost, the first claims by the unchanged due
  date, sets `status = 'active'` and bills. Two sweeps, `Answers = {"advance",
  "gone"}`; a canceled row becomes live only with a higher `life`.
- *A pull that overtakes a run* (`submission-ingest.ts:166-167`, "must not come
  back as a new draft"). As in `mirrors_overlap`, with an editor's pull in the
  place of the second run: one run, `Operations = {"trash", "pull"}`, the
  conjunct on pulls in `Confined` taken out.
- *The gap before the mark* (`core/publish/README.md:84`: "Published submission
  rows are never mutated, and deleted only by erasure"). Between a mirror's
  insert and its version row, or for ever if the run dies there, a publish is
  not refused and overwrites the visitor's row. One run, one request;
  `live[u]` leaves `"visitor"` only by an erasure. Through the same gap a
  publish may land after the page was marked, trashed, purged and erased:
  `ConfirmedMeansGone` then fails as well.
- *Purged pages* (`submission-ingest.ts:144`: drafts return that disappeared
  "other than through trash or purge"). An ordinary page is unpublished and
  purged while a run holds its published row: it returns as a submission draft.
  A purge leaves an erasure, by which ingest would know, only for mirrors.
- *The recheck at transfer* (`core/publish/audit.ts:58`: "Recheck at transfer
  time as well"). It finds the floor through the page's draft row. A page that
  became health data after the gate and was trashed since is published:
  `HealthDataStays` without its last disjunct, `Pages = {p}`.
- *Links* (`core/publish/README.md:56-57`: "a page never goes live with a link
  that resolves to nothing"). A tag deleted between the catalogue batch and the
  page batch of a publish; or a lost push of a tag whose old slug another tag
  takes, whose push deletes the first one's row. Of every live page, every link
  is in `cat`: two calls and `MaxLost = 0`, or one call and `MaxLost = 1`. With
  one call at a time and none lost it holds.
- *The index of the R2 target* (`core/publish/r2.ts:10`: "self-heals on the
  next publish/unpublish"). The next call edits its own entries only; the entry
  a race lost stays lost until that page is published again. `index' = object`
  when a call of `alone` writes the index, two pages, two calls.

- *Role names used again* (`docs/access-management-authorization.md`, "exact
  role/grant catalogue equality"). A custom role is deleted and another made
  under its name between an administrator's reading of the options and his
  batch: the guard (`access-authorization.ts:57-66`) finds the catalogue equal,
  and a user keeps a role name through the deletion that took it from everybody.
  `AccessIsWhole` without `reused`.
- *A send after a requeue* (`features/jobs/runner.ts:144`). The row is requeued
  by one statement and the message sent by the next; if the send fails no
  message names the row, which stays queued for good.
- *A frozen intent after another run pruned* (`features/audit/sweep.ts:322`, its
  rows "are still in D1"). A run that lost its lease resumes an intent which the
  holder has meanwhile sealed and pruned: it reports `segment-drift`, an alarm
  without damage. `NoFalseAlarm` claims nothing of `segment-drift` for that
  reason.
- *A version restored under a removed one's id* (`core/pages/snapshot-id.ts:10`).
  An editor's removal lists a version; another request removes it; a restore
  writes the same text again and, the id being free once more, under the same
  id; the first removal then finds its rows and ids as it read them and takes
  the version that was never listed. Four requests; in the code all of it within
  one second, since ids and `updated_at` carry the second, which the model
  leaves out. `HistoryKeepsEveryDraft` without its last disjunct.
- *Draft slugs* (`core/db/admin-queries.ts:67`). `ensureUniqueDraftSlug` looks
  before the batch, and no guard repeats it: two saves take the same slug.
- *Numbers after a rename* (`migrations/0001_initial_schema.sql:899`, "must
  never hand out a number that was already issued"). Numbers are kept by
  identity: one issued under an identity by a plugin unregistered since may be
  issued again after another plugin's identity is renamed to it.
  `NumbersNeverRepeat` is per registration for that reason.
- *Copies by cursor* (`features/plugins/api/pages.ts`, a client "re-POSTs with
  that cursor until `done`"). The clones are behind the cursor: a copy of a type
  onto itself finds its own clones and goes on until the quota.
- *Forms* (`PageDocument`). A form opened before another's save reverts other
  languages through its document box, and its rows meet the other's by index;
  a version's preview posts no document while its structured buttons still
  save; buttons of nested item groups name the level above
  (`core/templates/editor.ts:296-298` against `page-logic.ts:262-266`); rows
  edited only in the document box are overridden or cut short by posted rows; a
  paste goes by index whatever type the block there has.
- *Live editing, fields* (`core/durable-objects/page-sync.ts:28`, "lexicographic
  ordering is sufficient"). An edit of a browser whose clock is behind lowers its own
  register, and the others ignore it (`editor-sync.js:266`, `272-277`): the tabs
  show different values for good. A reset computed before another's edit arrives
  reverts that editor's own field (`page-sync.ts:20-21`); broadcasts overtake
  each other; a handler that awaits authorization stores an operation of somebody
  who has left; a reconnection between the check and the deletion loses the
  user's own edits; a page loaded again before the object has noticed that the
  tab's old connection ended skips its user's own edits in the snapshot
  (`editor-sync.js:262`); a tab that missed a reset resends a leaver's edit as its
  own; one that missed `saved` resends older values over newer saved ones.
  `FieldsConverge` without `\ astray`, part `field` for skewed clocks and `save`
  for the rest.
- *Live editing, texts* (`PageSync`, `Apart`). A tab that missed `saved` gives
  its text a second base, which doubles it; text updates lost on the wire are not
  sent again; after `saved` a late update makes an empty document on the server;
  a client not yet synchronized at `saved` takes an empty baseline; typing before
  the first synchronization deletes others' edits (`page-sync.ts:9-11`); the rich
  text of a leaver stays; edits between the store and `saved` become the baseline
  unsaved.

### Bounds and fairness

Bounds that are not sizes of sets: `MaxTime`, `MaxLives`, `MaxCrashes` in
`CreditSubscriptions` (five hours are two boundaries with a retry in between;
two lives show one row reused); `MaxFaults`, `MaxLost`, `MaxBreaks`, `Faults`,
`Lapses` wherever something fails (one or two faults, in `AdminJobs` of
different kinds: what a fault leaves behind is met by everything that can come
later); `MaxRequests`, `MaxWrites` (requests served, two at a time: a third
comes after what the two left); `MaxUsers`, `MaxRows` (one more than exist at
first); `MaxStamp`, `MaxPieces`, `MaxTurns`, `MaxOpened`, `MaxTyped`,
`MaxPosts` (edits enough for two to meet and one to come late); `MaxSessions`,
`MaxAttempts`, `ScanLimit`, `Chunk`, `Limit`, `SegmentSize`, `PageSize`,
`Window` are the code's own limits made small enough to be reached.

Groups of kinds (`PlansForTLC`, `StartsForTLC`, `Starts`) bound which requests
one behaviour is made of. A group is a set of requests that read or write the
same rows; requests of different groups do not see each other's writes. The
theorems have no such bound.

Fairness is assumed only of what the program schedules: cron fires every few
minutes (`index.ts`, `scheduled`) and a sweep, drain or pass that is not killed
goes on; the queue consumer receives what was sent and an invocation runs until
it returns; browsers' timers fire (heartbeat, refresh, reconnection) and the
durable object finishes its broadcasts and drops; what is down is mended, for
the alerts. Nothing is assumed of users, editors, plugins or faults, and deaths
are bounded where liveness is checked, since a program that is killed every time
settles nothing. Days pass (`DayPasses`), because the pass from the top is due
by the clock.

## Theorems

All hold for every value of the constants that meets the modules' assumptions:
any number of users, requests, pages, runs and faults, and any groups of kinds.
No bound of the instances is an assumption of a proof, nor is fairness.

`CreditsProofs` proves `BooksSound` (`BooksHold`). The invariant that is
inductive joins three things: the types; the books, for every account a ledger
whose entries continue one another, end at the balance and never go below zero;
and that a request fits its phase (an administrator's `Commit` finds the balance
it has computed its change from, parts held by a spend are of accounts and
amounts that exist). The last is needed because `Commit` writes the balance it
read plus a delta: without knowing that the guard compares the two, the ledger
could not be seen to continue. Each batch books at most one entry on an account,
which the lemmas state once and every action cites.

`SettleHolds` proves `RequestsSettle` from `SInv`, which says of a request still
under way what its answer will promise once it has finished: on every account,
what the ledger shows of it (`Moved`) plus what it still holds to be given back
(`spent`) comes to nothing while it may yet be refused (`Comes`), and to the
rounded price of the written rows, on the account that paid each part, once its
batch has failed in part (`Partly`). A refund step moves a portion from the one
summand to the other, so it changes neither sum; a deletion empties the books of
one user, whose requests promise nothing any more; what remains is that no two
parts were taken from one account, which holds because a reservation asks each
currency once (`OnePartPerCurrency`, from `currencyAmounts`). The totals are
folds; that a fold adds element by element is proved from its definition by a
least counterexample (`TotalSums`, `TotalAppend`), since a theorem of induction
over an operator cannot be used.

The module also proves `MonthsBilled` of the subscriptions beside it
(`MonthsHold`), under `Undisturbed`, which says what its name does: no outage falls between a
claim and its rollback or end. Without it the property is false, as
`subscriptions_outage` shows. A claim carries the due date past the present, so
that of the sweeps that overlap only one is past its claim on a life of a row;
hence the last period the history has is that sweep's own, and a rollback takes
back no other's. What a sweep read before its claim is what is in force at the
claim (`ReadInForce`), since the claim's guard is the row.

`PageProofs` proves first of `PageTree` that `TypeOK`, `LinksSound`
and `OriginIsHome` hold together (`TreeSound`): their conjunction is inductive
and none of them is alone, since a restored page goes where its row says it came
from, and a page left behind remembers its parent by the link it had.
`BulkPassesOver` is `BulkSparesHeld`, for every state: the complement of
`HeldAbove` is closed under children, so it contains what lies below any part of
it, by the lemmas that `Below` is the least closed set and `HeldAbove` is closed
upwards. `HoldsKept` is `HeldNotDestroyed`. Then `CommitsAreAtomic`
(`LifecycleIsAtomic`): every step of the detailed specification is a step of
`PageTree` for the pages the request selected, or leaves the tree alone. The
argument is that a batch that commits finds every row it read unchanged
(`Same`), so that what it computed from its reads is what the atomic call
computes at that moment; links that dangled or contradicted `origin` would break
it, hence `TreeSound` comes first. What the tree promises is then inherited by
the calls (`LifecycleKeepsHolds`).

The same module proves `FieldsConverge` (`EditorsConverge`) and `TextsMerge`
(`ReplicasMerge`) of `PageSync`, for any number of tabs, users, edits and
connections that break; the first of the plain specification, the second under
`Apart`. Both say what holds once nothing is on its way, so their invariants
follow what is, of the tabs not led astray. For the field (`FieldInv`): each
user's edit at the object is at every other user's tab, or in a snapshot or
broadcast to it, or the tab's request for one is on its way (`Reached`); a
register above all the object has is announced, or the tab has asked and will be
told what is lacking (`Above`); no snapshot under way is newer than what the
object has (`Fresh`); of a user with one tab the object has no edit its register
lacks (`Alone`). A tab still to hear of a reset or a save (`Told`) is exempt, and
what it then hears either puts it right or leads it astray. For the text
(`TextInv`): what is in the object's replica a connected tab has, or is to be
sent (`Spread`); what is in a tab's is in the object's, or in an update, or waits
for the answer that has it sent (`Kept`); all that is on its way is part of the
one or the other (`Sound`); the replica has one beginning (`Began`) and whoever
has the text has it (`Grounded`), which is why a tab told of a save never offers
an empty baseline.

`PublishingProofs` proves `TypeOK` and `FloorIsHighestSeen` (`FloorsExact`).
Two facts make it inductive. `Covered`: no page lies below the class of
anything it is under now, whichever statement put it there; a trigger sees one
source, and would miss the others if they were not covered already.
`TagsExist`: a page, in trash as well, has only tags that exist, so that a new
tag brings no page under a taxonomy. Each action is shown to *settle* every
page: its floor rises to what the page is under then and to what it inherits,
and no further; a step that settles keeps floor and history equal
(`ObservedSettles`). The same invariant gives `TypesNeverWeaken`
(`TypesKeepTheirClass`): the retype guard compares a type with the floor, and
the floor covers the type the page has. Publishes beside it change nothing of
that (`FloorsStayExact`), and it is what `HealthDataStays` rests on
(`HealthDataIsKept`): a publish carries the class its page had when it began;
until the gate has looked, the floor is at least that, because a history only
rises; past the gate it is below health data for good; and the audit adds the
same for its own moment, through the draft's row. Neither the cached policy nor
the tags are needed for it.

Of the targets it proves `TargetsSound` and `AloneLands` (`TargetsHold`,
`AloneHolds`). Slugs are unique in `DB`, hence among the rows any call has read,
and a batch of such rows clears their slugs from every other tag; how stale the
batch is does not matter. A call that nothing runs beside has read what is
still so (`Sound`), and what it has sent is there (`There`); a later batch of
the same call takes nothing away from an earlier one, again because slugs are
unique. The same in `R2Index`: what is put is stored, and the index that was
read is the index.

`SubmissionMirrorsProofs` proves `MirrorsSound` (`MirrorsHold`) under `Apart`,
for any number of overlapping runs: a visitor's row appears once, before anybody
can know of it (`NobodyKnows`), and nothing published lands on it
(`MarkedAtOnce`), so that once gone it stays gone, and a pass that confirms has
deleted what it read. `IngestRevivesOnlyWhatOvertookIt` is
`OnlyTheOvertakenRevive`, of every interleaving of any number of runs, requests
and passes, without `Apart`: what a run did not know when it looked and has yet
to take up is in no table, unless somebody else has made a draft of it since
(`TakenUpAnew`), since only what has a draft can be trashed or purged.

`AdminJobsProofs` proves `JobsSound` (`JobsHold`), `StepsAreLicensed`
(`StepsHold`) and, of the requests served beside the jobs, `EvidenceSound`
(`EvidenceHolds`). Of the jobs: Each claim has an attempt number of its own (`ClaimsDiffer`), so
a row that is as one worker claimed it is as no other did, and the guard on it
is a lock that needs no lease. What a job has touched is the pages before its
cursor, or before the next one between the commit of a slice and the row's
advance (`Touching`); pages are taken by rank, so that slices neither overlap
nor leave gaps. Of the evidence: what a request has read of health data it owes
evidence of until it is announced, and no request leaves owing any, whether the
audit database answers or not; a class once raised is not lowered; an
administrator's decision is the incident's own receipt for as long as the
incident is kept, and nothing a reviewer has open is pruned.

`AccountsProofs` proves `OneHeir`, `AccessSound`, `OneAccountPerIdentity` and
`NobodyExceeds` (`OneHeirHolds`, `AccessHolds`, `IdentitiesHold`,
`AuthorityHolds`). The invariant says what a request carries from its reads to
its batch (`RequestsOK`), that an ended session has one envelope or one event
and a living one neither, and that a token which was exchanged is nobody's
current one. The first attempt at `AccessIsWhole` failed on names of roles used
again, which is how that limit was found.

`AuditArchiveProofs` proves `OneChain`, `NoFalseAlarm` and the refinement
`KeepsTheChain` (`ChainHolds`, `AlarmsAreTrue`, `SweepKeepsTheChain`). The
invariant speaks of positions of the chain, a row number with the hash of
everything up to it: seals are ordered links between positions, an intent is the
next link behind the head and there is at most one, a run may seal only while
the head is still the cursor it read, and what was read back lies in the bucket
unless something was damaged. The refinement then has one interesting step,
the advance of `verified`, which adds the segments between two positions to the
abstract chain; every other statement is a stutter or a `Record` or a prune of
rows below it.

`RequestsProofs` proves of the plugins `GrantsAreExclusive`, `IssuedOnce` and
`CallsAreAuthorised` (`GrantsHold`, `IssuesHold`, `CallsHold`): where a batch
commits, what it was planned from is what is there, so that a plan is a step on
the present tables; besides, the counter of a row's identity is never behind the
numbers its row was given, and a ticket that is stored has not been redeemed.

Of the drafts it proves `DraftsAreKept` and `PlansLandAsAdmitted` (`DraftsHold`,
`PlansHold`), of the whole behaviour of `MCRequests` and under `DraftsAssumption`
alone: page ids are numbers up to a last one, none of them 0, weights are
integers, names and the window numbers, plans are not empty, limits, price and
funds are numbers, and "none" is no token. The invariant `WInv` says of the drafts that new version ids lie above
all that are stored (`NextIdIs`, from the least upper bound of a set of
numbers), and of a request what it carries: an edit the texts it saw (`Carried`),
a removal the versions it listed, of which one may have gone and its id come
again to a later one (`Listed`), a create a plan without an id or slug twice
(`PlanOK`). An earlier form of the property, that a removal takes only versions
it listed, is what the proof could not show: see "Limits found".

Of the creates it proves `CreatesSound` (`CreatesHold`) from `CInv`. What a
request was charged for and has neither written nor been refunded is counted not
as a sum but as the size of a set of units, `Due`, so that one request going on
changes only its own (`UnitsCount`, `BooksMove`): what the plugin API was paid is
at least the price of what it made and of what is due (`BooksOK`), and exactly
that until an answer was lost; when all requests have ended nothing is due. A
request that loses the answer of its batch stops owing and refunds nothing, which
is what keeps the inequality. Of the form's tokens (`TokensOK`): a submission
holds its claim until it ends, nobody else holds it meanwhile, and until it
writes, or when the claim is free, each page the form has made is matched by a
failure reported.

Of the reorders it proves `ReorderLandsAsDropped` (`ReordersLand`), for lists,
windows and weights of any size. The list is sorted by rank: a row's place is the
number of rows before it, so `Order` is a bijection (`OrderIs`) and any ascending
sequence of all the rows is the order (`AscendingIs`), which takes the place of an
induction over sorting. `OInv` says of a reorder that has read the list that what
it was shown is the window of the order it read, that what was dropped permutes
that window, and that its weights number the spliced list in tens (`Numbered`):
they then ascend along the spliced list and differ. At the commit `SameSequence`
finds every row's weight and name as they were read, so the order read is the
order now (`OrderDepends`), and with the new weights the spliced one is the order
after (`WeightsLand`).

Only model-checked:

- `PostsLandAsShown` (merges by recursion over rows), an induction over data;
- every liveness property (`RowsAreServed`, `MirrorsSettle`, `JobsSettle`,
  `AlertsArrive`, `EvidenceDelivered`, `ArchiveKeepsUp`, `EditorsMeet`), out of
  the prover's reach.

## Plan

1. A proof of `PostsLandAsShown`, with its merges restated without recursion.
2. Components without a module whose state outlives a request: the cached
   settings, content types and translations of an isolate; sign-in's own cookies
   (state, PKCE, the link session); the plugin API's file slots.

## Not modelled

Rendering, templates, client scripts other than the editor's, examples and tools
produce output or are not part of the running program. Search, listings and the
HTTP checks read or test one request. Media are single puts and gets. Projection
is a pure function on documents. Within modelled components: prices and settings
of credits, floors of media prefixes and plugins, weights and metadata of tags,
slices of published pages, payloads of jobs. Code outside the repository (D1,
R2, queues, durable objects' single thread, cron, Yjs) is modelled by what the
code relies on: batches are transactions, objects are overwritten whole, delivery
is at least once, an object's handlers interleave only at an `await`.
