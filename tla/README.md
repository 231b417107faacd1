# Enterprise CRM: TLA+ models, checks and proofs

This directory holds the formal model of Enterprise CRM, a FastAPI backend over
PostgreSQL with a Next.js interface and a small background worker. It covers
the parts whose correctness depends on the order in which several actors act:
refresh-token sessions, the browser session kept by the Next.js server (the
BFF), the webhook outbox, the sales sequences, the sales records (companies,
contacts, pipelines, deals, leads) under concurrent transactions, and the
pages of the browser, whose requests are answered in any order. TLC checks
small instances, TLAPS proves every safety property checked, for every value of the
constants, and that the store of refresh sessions and the outbox implement their
abstract specifications.

`PROJECT.json` is the machine-readable side of this file: components, runs,
mutants of the modelled code, the source lines of every definition, hazards,
findings and theorems.

## 1. The system

```
pages ─> services ──cookies──> Next.js BFF ──access token──> FastAPI services ──> PostgreSQL
                                                                      ^                    ^
                                                                  background worker ───────┘
                                                                      └──HTTP──> webhook receivers
```

| Part | State it keeps | Operations | What is hard | What makes it correct |
|---|---|---|---|---|
| Refresh sessions (`services/auth.py`, `repositories/refresh_session.py`) | rows of `refresh_sessions`: family, user, revoked, expires | login, refresh, logout, reuse detection, bulk revocation | concurrent requests; row locks at READ COMMITTED; bulk UPDATE on a snapshot; lock order | a token is redeemed once; at most one live row per family; a closed family stays closed |
| Users (`services/user_management.py`, `api/v1/auth/router.py`) | `users` rows | password and MFA change, activation | take `users` and session rows in opposite orders | every request ends; revocations reach every session they saw |
| BFF authentication (`frontend/src/app/api/auth`, `proxy.ts`) | map of pending refreshes, browser cookies | proxied call with refresh and retry, login, logout, refresh | parallel requests, timeouts, answers that overtake each other | one refresh per token; an outage signs nobody out; rotated tokens reach the browser |
| Webhook outbox (`services/v3_platform.py`) | `webhook_deliveries` | enqueue, worker pass, retry by hand | one commit per pass, crashes, rows changed in the middle of a pass | attempts counted once; repeats only when unavoidable; every delivery ends |
| Sales sequences (`services/v3_platform.py`) | `sales_sequence_enrollments` | enroll, delete, worker pass | deletion or crash in the middle of a pass, check-then-insert | each step acts once and in order |
| Workflows (`services/v3_platform.py`) | `workflows`, `workflow_runs` | emit_event inside business transactions, actions, manual runs | failures inside another transaction; a field set after validation | a failed action leaves no partial effects; the business change survives |
| Leads (`services/lead.py`) | `leads` | create, update, convert, delete | conversion is check-then-act over two tables | only an open lead converts |
| Deals, pipelines, stages (`services/deal.py`, `pipeline.py`) | `deals`, `pipelines`, `pipeline_stages` | create, update, delete | two validated partial updates that do not fit together; rows deleted after they were looked up | references within the organization; stage belongs to pipeline, contact to company |
| Companies, contacts (`services/company.py`, `contact.py`) | `companies`, `contacts` | create, move, delete | cascades of deletions; moves under deals and leads | a deletion takes no contacts along |
| List pages (`hooks/use-paginated-resource.ts`, 14 pages, 4 option hooks) | query, rows and their query, loads and saves in flight, open form | filter, turn page, create, edit, delete, try again | answers that overtake one another, reloads after saves | a settled page shows the answer to its query, with its own saves in it |
| Record pages and forms (`features/*/*-detail.tsx`, `*-form.tsx`) | the record shown, flags, open forms | load, edit, delete, convert, stages, tags | two flags, several answers that replace the record, fields a form does not offer | the record shown never goes back; an edit leaves the rest alone |
| Stage pickers (`deal-form.tsx`, `lead-conversion-panel.tsx`) | pipeline and stage chosen, stages offered | choose a pipeline, a stage | stages of the pipeline chosen before arrive late | the stage submitted is the pipeline's |
| Sales board (`features/sales-board`) | list of deals in the page | drag a deal, reload | optimistic change and rollback to a captured list | when nothing is pending the board shows what the server has |
| Inbox and bell (`features/notifications`, `components/notifications`) | view, items, selection, marks; a count | filter, turn, select, mark; poll | marks that end after the view changed; counts out of order | marked rows are not shown as unread; the count becomes right |
| Studios, planner, dashboard (10 workspaces) | several collections, one flag | load all, save and load again, refresh | loads without a guard overtake one another; one of several requests fails | every collection shows the page's own saves |
| Services and routes (`services/*.ts`, `app/api`, `api/v1`) | none but cookies | every call | three lists of paths kept by hand, shadowed routes, CSRF | a call reaches the endpoints it means and no other, and resolves only if it did |
| Quotes (`services/v3_platform.py`) | `quotes`, `quote_items` | create, approve, reject | concurrent decisions | a quote is decided once |
| Attachments (`services/attachment.py`, `storage.py`) | files and `attachments` rows | upload, download, delete | two stores, no common transaction | no row without a file, except after a crash or failed cleanup |
| Access control (`services/role.py`, API keys, MFA recovery codes) | roles, permissions, API keys, recovery codes | edits, authentication | read-modify-write, checks on cached state | a revoked right is not used; a recovery code is spent once |
| Activities, notes, tasks, tags, notifications on the server, saved views, custom fields, goals, widgets | one table each | one-row CRUD | little | referential integrity, by foreign keys |
| Import and export | none of its own | CSV in, CSV out | formatting | all rows or none |
| Scoring, forecasts, dashboards, search, local AI | none | read-only computations | none | not modelled |

Every part, also the ones not modelled, is listed under `components` with its
reason; what can go wrong where is listed under `hazards`, at its line.

## 2. Modules

Built so far:

| Module | Models | Notes |
|---|---|---|
| `TokenFamilies` | what rotation promises | abstract: a head per family, spent tokens |
| `RefreshSessions` | the store and its requests | one action per database step |
| `RefreshRefinement` | `RefreshSessions` implements `TokenFamilies` | the refinement mapping |
| `BffSession` | browser, cookies and BFF | its backend keeps the families of `TokenFamilies`, and closes one in two steps, as `RefreshSessions` may |
| `Outbox` | what the outbox promises | abstract: a delivery is queued, attempted, settled |
| `WebhookDelivery` | outbox, worker pass, retry | implements `Outbox`; `Stage` is the mapping of a row |
| `SalesSequences` | enrollments, worker pass, deletions | |
| `SalesRecords` | companies, contacts, pipelines, stages, deals, leads | a save is a read with its checks and a commit |
| `ListPages` | list pages and option lists | a page is a record of its shape |
| `DetailPages` | pages of one record, their forms | a record is a version and its references |
| `StagePicker` | the two choices of a stage | |
| `SalesBoard` | the board that moves deals | |
| `Inbox` | inbox and bell | share the stored notifications |
| `Studios` | pages of several collections | a collection is the edition it was read at |
| `Gateway` | services, API files, CSRF, routers, statuses | one call at a time |
| `Routes` | that the three lists of `Gateway` agree | one closed assumption, evaluated by TLC |
| `Client` | composes the seven modules above | one part runs in a behaviour |
| `RefreshSessions_proofs`, `BffSession_proofs`, `WebhookDelivery_proofs`, `SalesSequences_proofs`, `SalesRecords_proofs`, `ListPages_proofs` | theorems about the module they are named after | the first also about `RefreshRefinement` |
| `Pages_proofs` | theorems about the other parts of the client | a section per part |
| `Client_proofs` | what the composition keeps of both | |
| `MC*` | TLC instances: small sets, symmetry, bounds | `MCClientLive` adds `Routes` to `MCClient` |

Planned, in this order:

1. `Workflows`: `emit_event` inside the saves of `SalesRecords`, flushes, failed
   actions and runs, the `update_field` action on leads and deals; composed with
   `WebhookDelivery` through `Enqueue`; with the approval of quotes.
2. `Attachments`: file and row, best-effort cleanup, downloads in between.
3. `AccessControl`: roles, API keys, recovery codes.
4. Worker composition: one round of `run_once` over both passes, so that an
   exception of one is seen by the other.

Abstract specifications worth stating next: for the records, a set of rows per
organization, of which `OneTenantAtATime` states the half about writing.

Theorems left to state: the safety properties of the modules above, once they are
written.

### 2.1 `RefreshSessions`

A process of `Procs` is a database connection serving one request; `tx[p]` is
its program counter and what it remembers. `status`, `family`, `owner` are the
committed columns (`parent` is a history variable: which refresh created the
row), `rowLock` and `userLock` the row locks.

| Code | Actions |
|---|---|
| `verify_user_credentials`, `generate_authentication_tokens` | `LoginVerify`, `LoginIssue` |
| `refresh_authentication_tokens` | `RefreshRevoked`, `RefreshExpired` or `RefreshLive`; then `RefreshReadUser`, `Rotate` |
| `logout` | `Logout` |
| `change_password`, `confirm_mfa`/`disable_mfa`, `update_user` | `ChangePassword`, `ChangeMfa`, `Deactivate`, `Activate`, `LockUser` |
| `revoke_family`, `revoke_all_for_user` | `Scan` (snapshot), `RevokeRow` (one row: wait, evaluate again), `Commit` |
| failures, lost connections | `Abort` |

The database is PostgreSQL at READ COMMITTED, which the repository names for
production. SQLite, used for local development, ignores `FOR UPDATE` but admits
one writer; the model does not speak of it. Statements nobody else can observe
before the commit are part of the commit step. Left out: password hashes, MFA
secrets, JWT contents other than the row a token names, audit rows.

### 2.2 `BffSession`

A slot is one request of the browser with the handler that serves it; every
stretch of a handler between two awaits is one step, since JavaScript runs it
without interruption. `refreshRequests` is the map of pending refreshes; the
promise's settling, the deletion of the map entry and the continuation of every
request that awaits it are one step (one microtask drain). `jar` holds the two
cookies. Answers set cookies, clear them or keep them, which is all a browser
sees. `late` holds refresh calls the BFF gave up on and the backend may still
serve. `world` is chosen in the initial state and never
changes: calls may fail or not, the browser may have several requests open or
not. CSRF tokens and payloads are left out.

| Code | Actions |
|---|---|
| `authenticatedBackendRequest`, `refreshCurrentSession` | `ArriveSession`, `Try`, `RefreshAccessToken`, `Retry` |
| `refreshAccessToken`, `performRefreshAccessToken` | `ServeRefresh`, `RefreshAnswered`, `RefreshFailed`, `ServeLate` |
| `login/route.ts`, `logout/route.ts` | `ArriveLogin`, `ServeLogin`, `LoginMe`; `ArriveLogout`, `ServeLogout` |
| `_revoke_refresh_session_family` at the backend | `CloseFamilyOf`, then `CloseSeen` |

The backend closes a family by one UPDATE over the rows of its snapshot. If the
token presented is the live one, its row is locked and the family is closed at once.
Otherwise `CloseFamilyOf` remembers the live session it saw (`seen`) and `CloseSeen`
closes the family only if that session was not refreshed in between, since its
successor is not in the snapshot. This is what the run `refresh_revocation` shows row by row, so
`LogoutClosesFamily` excepts it, and a browser that waits for each answer is
never in that case. A logout whose backend call is not done in time clears the
cookies all the same.

A 401 is not always the end of a session: `disable_mfa` answers it to a wrong
password (`api/v1/auth/router.py:171-173`). Requests of the kind `mfa` get it from
an active account too: the BFF then refreshes, calls again, gets 401 again, clears
the cookies and drops the tokens it has just been given. A wrong password thus
signs the browser out, and the session it had stays open at the backend until it
expires. `SignsOutEndedSessions` says that nothing else but a
logout ends a session that is alive, in the world where one request is made at a time and none
is lost.

### 2.3 `WebhookDelivery`

`row` holds the committed deliveries; during a pass `loaded` and `work` are the
worker's copies, `batch` the rows not yet posted. `Commit` writes the columns
that differ from the loaded ones (`Merge`), as SQLAlchemy's unit of work does.
Retry requests read (`RetryRead`) and commit (`RetryCommit`) separately.
`tries`, `accepted`, `excused` and `owed` are history variables for the
properties. In terms of `Outbox` a row is absent, queued (pending or retrying),
delivered or failed (`Stage`); passes and retry requests under way are not seen. Endpoints have no update or delete operation, so the branch for a
disabled endpoint is unreachable and left out, as are the batch limit and the
length of the backoff.

### 2.4 `SalesSequences`

`row` holds the committed enrollments, `work` the worker's copies, `effects`
the steps whose task or notification was committed. An enroll request is the
check (`EnrollCheck`) and the insert (`EnrollCommit`). Deleting a sequence
cascades; deleting a lead or contact leaves its enrollments. A pass that finds
its row deleted at commit raises and is rolled back (`StaleCommit`). A sequence
has no operation that switches it off or changes its steps, so the "paused"
branch is unreachable and left out.

### 2.5 `SalesRecords`

One database shared by all organizations. A save (`create_deal`, `update_deal`,
`create_lead`, `update_lead`, `convert_lead`, `delete_company`) is two steps of
a handler: `Begin...` reads the rows and makes every check of the service,
the second step writes and commits, atomically with the foreign keys' check.
Nothing is locked in between, so any other transaction may commit there.
`Rollback` is every failure. The other operations are one step, because their
only check is that a row is there, and its disappearance fails the write; in
particular the organization of a row never changes.

| Code | Model |
|---|---|
| SQLAlchemy writes the columns whose value changed | `Changed` in the first step, `After` in the second; `Keep` is a column left out |
| primary keys are UUIDs, never reused | an id goes from `Unborn` to a row to `Gone` |
| `_validate_references` | `DealReferences`, `LeadReferences` |
| foreign keys | `DealKeys`, `LeadKeys` on insert and update; the guards of deletions (RESTRICT); `WithoutContacts` (SET NULL) |
| lead status | `open` (new, qualified, unqualified) or `closed` (converted, lost), which is all the guards distinguish |

The reads of one save are one step although they are several statements: the
checks that decide what is checked here compare columns that never change
(organizations) or are read once (the contact's company, the stage's pipeline).
`sequential`, chosen initially, separates the world where requests
come one at a time from the one where they overlap: `TenantIsolation` holds in
both, the coherence of deals only in the first. Left out: the assigned user,
descriptive fields, unique names and positions, and the fields a workflow sets.

### 2.6 `Client` and its parts

The browser's pages share no state with one another but the backend, and every
page has other users who change what it shows. Two pages side by side therefore
show nothing a page and other users do not, and `Client` runs one part in a
behaviour, chosen initially. The inbox and the bell do share state, through the
window event a mark announces: the part `header` runs both, with an inbox that
stays on its first page. In each part the server serves a request at some moment
between sending and receiving it, refuses it, or serves it and the answer is
lost; answers are received in any order. A page that reloads writes a new load
to the set in flight; `isActive` of the effect it came from is the number of
the last one (`effect`, `boardRun`, `viewRun`, `studioRun`, `run`).

`ListPages`. `usePaginatedResource` and the effect some pages spell out by hand.
A page is a record of what distinguishes it: its filters, the saves it offers,
the flag each holds (`isSaving`, `isDeletingId` per row), whether its query may
be empty (search), whether it turns pages. Rows are told apart only by the
edition of the collection they were read at; `own` is the latest edition a save
of this page was told it made.

| Code | Actions |
|---|---|
| the effect, `reload` | `Load` in `SetFilters`, `TurnPage`, `TryAgain`, `TakeSave`; `ServeLoad`, `ReceiveLoad` |
| create, update, delete | `UseForm`, `SendSave`, `ServeSave`, `ReceiveSave` |

`DetailPages`. A record is its version and those of its references that are set.
Each form is the references it lets the user choose and those it always sends as
null. After a stage's save a pipeline is loaded again under the same flag
(`Take`); a deletion leaves the page, and later answers are ignored.

`StagePicker`. The deal form loads stages in an effect with `isActive`, the
conversion panel in an event handler without one. `raced` remembers that a
pipeline was chosen while the stages of another were loaded.

`SalesBoard`. The deals of a pipeline are read page by page at different times;
a move shows at once, remembers the list before it (`previous`), and its answer
replaces the deal or brings that list back.

`Inbox`. Pages of one notification. `Mark` is the three ways to mark, with the
view at the press; `Refresh` compares with that view, as the closure in the code
does. The bell's counts that wait are bounded: beyond the bound one that waits
stands for the next, since it will read the same state or a later one.

`Studios`. Pages that load several collections with `Promise.all` (one failure
shows nothing), `Promise.allSettled` (a failure keeps what was shown) or
settled ones that are emptied; more than two collections add nothing. The
planner and the dashboard ignore loads that are not the last; the others take
every answer. The dashboard empties its analytics and its health when they cannot be
read and keeps its figures, the planner empties both its lists.

`Gateway`. What the services call, what the files of `app/api` export and what
the routers declare are three sets or sequences of methods and paths, taken from
the three places. `Route` picks the file as Next.js does (fixed segments before
parameters, catch-all last), checks CSRF and cookies; `Serve` picks the first
route declared that fits; a login that succeeds goes on to `/auth/me` (`FetchUser`),
so that it may fail although a session was opened; `StatusOf` and `Tell` are the ways
back. A call that times out or breaks off may have been served or not, and a 401 may
be the BFF's own, before the endpoint is called, or the endpoint's. The route of the
copilot's stream catches no failed fetch, and answers 500 where the others answer 502
or 504. Bodies, query
strings, permissions and token refresh are left out; a call's path segments are
fixed words or values that fit any parameter.

## 3. Runs

| Run | Instance | Shows |
|---|---|---|
| `refresh_safety` | 3 tokens, 1 user, 2 connections | one live row per family, each token redeemed once, closed families stay closed, logout with the current token closes its family, a committed bulk revocation has revoked its whole snapshot, and `TokenFamilies` is implemented |
| `refresh_liveness` | 2 tokens, 1 user, 2 connections | every request ends despite the two lock orders |
| `refresh_revocation` (violation) | 3 tokens, 1 user, 2 connections | a revocation may miss the successor of a concurrent refresh, or the session of a concurrent login |
| `bff_safety` | 3 tokens, 2 slots | single flight, no sign-out by an outage, logout closes the family unless refreshes overtake it twice; one request at a time: the cookie is current or on its way, and only ended sessions, wrong passwords and logouts clear it |
| `bff_liveness` | 2 tokens, 2 slots, calls, logins and logouts | every request is answered |
| `webhook_worker` | 1 delivery, limit 5 (the code's), retries up to 6 attempts | `Outbox` is implemented (attempts are made and counted while a delivery is queued, given up at the limit, marked delivered if taken), repeats have an excuse, and every delivery ends |
| `sequence_worker` | 2 enrollments, 2 records, 3 steps, 2 requests | steps once and in order; every enrollment ends |
| `sequence_once` (violation) | 2 enrollments, 2 records, 2 steps, 2 requests | two active enrollments of a record |
| `records_safety` | 2 organizations, 2 companies, 2 pipelines, one contact, stage, deal and lead, 2 handlers, 2 deletions | references stay within the organization however saves, moves and deletions overlap; no commit writes rows of two organizations; one at a time, saved deals are coherent, only open leads convert, companies are not deleted with contacts |
| `client_safety` | all parts; 7 shapes of list, 2 rows, 2 pages, 3 loads; 9 record pages, 3 versions; 3 pipelines, 5 loads of stages; 2 boards, 3 deals, 3 loads, 2 moves; 2 notifications, 4 loads, 2 marks, at most 1 load in flight once the user starts one; 5 studios, 3 loads; every call | pages show what they asked for and what they saved, stages submitted fit their pipeline, failed moves are undone, selections and marks match what is shown, calls arrive where they are meant to |
| `client_live` | 3 lists, 2 record pages, 1 board, 1 notification, 2 studios | whatever waits for the server stops waiting; the bell's number becomes right; and the lists of routes agree (`RoutesAssumption`) |
| `client_links` (violation) | the page of a lead | an edit clears the lead's contact, which its form does not offer |

Bounds, and why they are enough. Tokens are never reused, so their number
bounds the length of a behaviour: three allow a login, a rotation and a second
rotation or a second family, which every race between two requests needs; two
connections meet in every pair of requests, and the lock cycles of this code
have two members. One user is enough because revocations of different users
share no row. Two slots give every race of two browser requests; the liveness
run leaves out the kinds `refresh` and `mfa` (`Sends`), which take the same steps as
a call. A delivery
row is touched by its own retries and by the pass only, and a pass over many
rows is, for each row, a pass that may end before or after the row's post;
one delivery therefore shows every fate of a row. `RetryLimit` stops manual
retries, which would let `attempts` grow for ever. Sequences need two
enrollments because a deletion between them decides the commit of both.
`SalesRecords` needs two of what can be confused (organizations, companies,
pipelines) and one of what refers to them; a save's outcome depends on the rows
it names alone. `LightLoad` bounds the deletions of a behaviour by `MaxLoad` and
counts a second overlapping save as `MaxLoad` of them, so a save meets two
deletions or another save, not both; of two saves both write the same deal or
lead, or one deletes a company and the other saves a deal (`Compete`).
`Isolation` below has no such bounds.
In the client a load or a save meets at most two others, which the bounds of
loads, saves and marks admit: an older answer, the newest, and a save between
them. In the inbox `MaxViewLoads` lets the user turn the page or try again
when no load is in flight; loads still overlap, up to three of them, through the
reloads that marks end with, and a page that took the answer of an older load
would break `ShowsOwnMarks` and `SelectsWhatIsShown` within these bounds. The
theorems about the inbox hold for every value of them. The stages of a pipeline
differ in nothing but their names, so the deals of the board start in one of
them. List pages that differ only in names have one representative in
`SomePages`; the studios left out of `SomeStudios` have the shape of one in it.
The liveness run takes fewer of each, since waiting depends on the shape of a
request and not on how many pages share it. `client_safety` counts calls
exhaustively: `Gateway` has no bound. The properties' exceptions (`raced`,
`disturbed`, `turned`, `blind`, `crossed`, `OneSaveAtATime`) are each the case
in which the code gives no guarantee, and are what section 5 and the notes of the
hazards speak of; the bounds let the case happen, as the same run without the
exception shows.

Each run without `CHECK_DEADLOCK FALSE` also checks that the system never
stops; the others may stop because tokens, deliveries or enrollments run out.

Fairness. In `RefreshSessions` a connection goes on with its statements (weak
fairness of `Proceed`), a waiter gets a lock that is freed again and again
(strong fairness of `LockUser` and `RevokeRow`: PostgreSQL queues waiters), and
a deadlock is broken by the database (`DeadlockVictim`). `Exhausted` ends a
request the bound on tokens has stopped. In `BffSession` every call the BFF
makes ends, by an answer or by `backendRequest`'s timer. The worker polls for
ever and compose.yaml restarts it (`restart: unless-stopped`), hence weak
fairness of `WorkerStep`; backoffs and delays end. No client is ever obliged to
send anything. In `Client` the server answers or the connection breaks, and a
page runs its callbacks (weak fairness of serving and receiving, for each
operation on its own, since a save repeated and refused for ever must not hold
up another); the bell's timer ticks while the tab is visible (`HeaderPolls`). No
user is obliged to click. `BellCatchesUp` assumes that the tab stays visible in
the end. `EveryDeliveryEnds` assumes that receivers answer in the end and
the worker stops crashing; `EnrollmentsEnd` the latter.

## 4. Proofs

All for arbitrary finite or infinite sets of tokens, users, connections, slots,
deliveries, enrollments, organizations, records and handlers, for any pipelines,
stages, deals and notifications, any of the pages modelled, and any value of the
bounds. They rest only on the named assumptions on constants:

- the "none", "unused" and "deleted" marks are not members of the sets they mark;
- the limits and bounds are numbers, with room for the two loads a board starts
  with, and a sequence has at least one step;
- pipelines, the stages of each, and notifications come in sequences; there is a
  pipeline, and no deal is on two boards (`BoardAssumption`);
- the three lists of routes, which are text of the code without a parameter, agree
  (`RoutesAssumption`): it speaks of no instance, so that TLC's evaluation of it
  over every call is the whole of it. Only the two theorems on `CallsArrive` use it.

TLC evaluates each of them in the run of its module.

Three theorems, `AloneRevocationIsComplete`, `OneRequestEnrollsOnce` and
`OtherFormsKeepLinks`, have a hypothesis that one actor acts at a time, or that the
page is not one of three. They are the other side of a finding (section 5): the run
shows the code breaking the property, the theorem that nothing else in the model
does.

| Theorem | Module | Says |
|---|---|---|
| `TypeCorrect` | `RefreshSessions_proofs` | `TypeOK` |
| `OneLiveSession`, `RedeemedOnce` | `RefreshSessions_proofs` | `AtMostOneLive`, `SingleSuccessor` |
| `DeadStaysDead`, `LogoutEnds`, `RevokesSnapshot` | `RefreshSessions_proofs` | the three action properties |
| `Implements` | `RefreshSessions_proofs` | `Spec => ImplementsFamilies` |
| `AloneRevocationIsComplete` | `RefreshSessions_proofs` | `RevocationLeavesNoneLive`, with one connection |
| `BffTypes`, `BffSingleFlight` | `BffSession_proofs` | `TypeOK`, `SingleFlight` |
| `BffOutageSignsNobodyOut`, `BffLogoutClosesFamily`, `BffSequentialCookieIsCurrent`, `BffSignsOutEndedSessions` | `BffSession_proofs` | the properties they are named after |
| `FamiliesHeadsAreCurrent`, `FamiliesCloseForGood` | `BffSession_proofs` | of `TokenFamilies` itself: a current token is not spent and of one family only; what was closed or replaced stays so |
| `BffSequentialLogoutSticks` | `BffSession_proofs` | `LogoutSticks`, for a browser that waits for each answer |
| `OutboxTypes`, `OutboxGivesUpLate` | `WebhookDelivery_proofs` | `TypeOK`, `GivesUpLate` |
| `OutboxDeliveredWasTaken`, `OutboxRepeatsAreExcused` | `WebhookDelivery_proofs` | `DeliveredWasTaken`, `RepeatsAreExcused` |
| `OutboxRefines` | `WebhookDelivery_proofs` | `Spec => ImplementsOutbox` |
| `PromiseLeavesSettledAlone`, `OutboxLeavesSettledAlone` | `WebhookDelivery_proofs` | `SettledIsLeftAlone` of `Outbox`, and so of the outbox |
| `SequenceTypes`, `StepsOnce` | `SalesSequences_proofs` | `TypeOK`, `StepsOnceInOrder` |
| `EndedLeftAlone` | `SalesSequences_proofs` | `EndedIsLeftAlone`: what ended stays; a step acts only on what is active and due at the commit |
| `OneRequestEnrollsOnce` | `SalesSequences_proofs` | `EnrolledOnce`, with one request at a time |
| `TypeCorrect`, `Isolation` | `SalesRecords_proofs` | `TypeOK`, `TenantIsolation` |
| `OneTenant` | `SalesRecords_proofs` | `OneTenantAtATime` |
| `CoherentWrites`, `OpenLeadsOnly`, `ContactsOutlive` | `SalesRecords_proofs` | `CoherentDeals`, `OpenLeadsConvert`, `CompaniesKeepContacts` |
| `ListTypes`, `ListShows` | `ListPages_proofs` | `ListTypeOK`, `ListShowsItsQuery` |
| `PickerTypes`, `PickerSubmits` | `Pages_proofs` | `PickerTypeOK`, `SubmitsItsStage` |
| `StudioTypes`, `StudioShows` | `Pages_proofs` | `StudioTypeOK`, `StudioShowsOwnSaves` |
| `DetailTypes`, `DetailShowsOwnSaves`, `DetailNeverGoesBack` | `Pages_proofs` | `DetailTypeOK`, `ShowsOwnSaves`, `ShownNeverGoesBack` |
| `OtherFormsKeepLinks` | `Pages_proofs` | `EditKeepsLinks`, on pages other than those of a lead, deal or activity |
| `InboxTypes`, `InboxShowsOwnMarks`, `InboxSelectsWhatIsShown` | `Pages_proofs` | `InboxTypeOK`, `ShowsOwnMarks`, `SelectsWhatIsShown` |
| `BoardTypes`, `BoardKeeps` | `Pages_proofs` | `BoardTypeOK`, `BoardKeepsMoves` |
| `GatewayTypes` | `Pages_proofs` | `GatewayTypeOK` |
| `GatewayCallsArrive`, `ClientCallsArrive` | `Pages_proofs`, `Client_proofs` | `CallsArrive`, of a call and in the client |
| `ClientImplementsItsParts` | `Client_proofs` | `ClientSpec` implies the specifications of picker, board, inbox and gateway |
| `ClientImplementsItsPages` | `Client_proofs` | and those of lists, record pages and studios, under a hypothesis on the pages |
| `ClientTypes` | `Client_proofs` | `ClientTypeOK`, under the same hypothesis |
| `ClientShows`, `ClientKeeps`, `ClientNeverGoesBack` | `Client_proofs` | the eight properties of the parts, for `ClientSpec` |

None of these properties is inductive as it stands. The invariant that carries
each proof is named below; TLC checked every one on the instance of its module's
run before it was proved.

**Refresh sessions.** A rotation writes what the request read before. `Inv` adds
`RowsWellFormed` (only a revoked row has a successor) and `LockDiscipline` (a
request past its checks still holds the lock of its row, which is still live; a
bulk UPDATE accounts for every row of its snapshot). The action properties follow
from `Inv` at the step. The refinement maps the head of a family to its one live
row; each commit is an `Open`, a `Replace` or a `Close`, every other step a
stutter. With one connection the snapshot of a bulk UPDATE holds every live session
of its scope until the commit (`SnapshotIsComplete`), since only another request
could add one; hence `AloneRevocationIsComplete`.

**BFF.** `BffInv` says first what the backend keeps (`BackendOK`: an issued token
is the head of its family or spent, never both) and that nobody presents a token
that was not issued (`HeldIssued`). `RequestOK` says of each handler what it may
rely on at each of its steps; that the token it presented is spent once it was
answered or refused is what makes clearing the cookies safe. `Flights` is the
agreement of the map of pending refreshes with the handlers: the map names, for
each token, exactly the handler that calls with it, and who waits for a token
finds it there. `SingleFlight` follows. `OneByOne` is about a browser that waits
for each answer: it is the only request, it carries the cookie, and if the
cookie's family has moved on, the handler has the new head in hand; the token it
presents is then the family's or spent for good, so that a family is closed in one
step. A single lemma (`Grows`) says what every step of the backend does to families:
what is spent stays spent, what is closed stays closed. That the step between two
states keeps `SignsOutEndedSessions` follows from `BffInv` at both ends.
`FamiliesInv` carries the two theorems about `TokenFamilies` itself. `OneOpen` says
that a browser that waits has one request at most, and that this request carries the
cookie the browser still has; `BffSequentialLogoutSticks` follows, also where calls
are lost.

**Outbox.** `PassShape`: a pass holds rows that were due, an idle worker nothing.
`AttemptsCounted`: neither the committed row nor the one in the pass's hands
counts more attempts than were made, and below the limit neither is given up;
the merge at the commit, which writes the columns the pass changed over a row a
retry may have changed meanwhile, keeps this. `TakenOnce` is the heart of
`RepeatsAreExcused`: a delivery that was taken, and that nothing excuses, is
committed as delivered and in nobody's hands, or the pass that posted it holds it
as delivered and will commit it so. The refinement has one case per kind of step:
an enqueued row is a `Queue`, a retry's commit a `Requeue` (with no effect if the
row was queued), a post an `Attempt`, a pass's commit one `Settle` of all the rows
it took or gave up, a crash a `Forget`. It needs one invariant more, `HandsOff`: the
committed row of a delivery in the worker's hands stays queued, so that a pass
settles only what is queued, whatever it merges over.

**Sequences.** `StepsOnceInOrder` needs that what a pass holds of an enrollment
is the committed row, or that row after exactly one step (`PassFollowsRow`), that
an active enrollment has a step to run (`ActiveHasStep`), and that enrollments go
only with their sequence and never come back (`GoneForGood`). `EndedLeftAlone` is a
consequence for each step (`EnrollmentStep`). `OneRequestEnrollsOnce` adds that
what a request has found still holds when it commits (`FoundFree`): the worker and
deletions only ever end enrollments.

**Records.** A commit writes what was checked earlier. `SavesSafe` says of every
save in flight that each row it refers to is still of its organization or was
deleted, in which case the foreign keys refuse it; that an id is never reused is
what keeps this true. `ParentsThere` says that contacts and stages go with their
company and pipeline, so that a reference to one of them keeps its organization.
The three properties of requests that come one at a time need `SequentialInv`:
there is one save in flight (`OneSave`), what it has checked is still so when it
commits (`CheckedStill`), and the stages of all deals are of their pipelines
(`StagesFit`), those of the deals it leaves alone included. `OneTenant` goes through
the operations and shows for each that every row it writes, creates, deletes, clears
or cascades to is of one organization; deletions that clear references need
`TenantIsolation`, and a conversion that the deal it will make is of its lead's
organization (`ConversionsAtHome`).

**List pages.** `ListShowsItsQuery` speaks of a page at rest; `ListInv` carries
it through the loads. `LastLoadIsCurrent`: a load in flight belongs to an earlier
run, or asks the current query and reads rows at least as new as the page's own
saves. `OwnIsCommitted`: what a save was told, or is about to be, is committed,
so that a load served later reads it. `RoomKept` bounds the loads saves under way
may still start, which keeps the counter in its type.

**Stages and studios.** `SubmitsItsStage` needs, in the deal form, that the
active load is of the pipeline chosen (`ActiveLoadIsOfPipeline`), in the panel
that every load in flight is until one was raced (`LoadsAreOfPipeline`), and that
the stages offered are the pipeline's (`OffersItsStages`). `StudioShowsOwnSaves`
needs that the last load reads what is at least as new as the saves
(`LastFetchIsFresh`) and that a load started alone stays alone
(`LoneFetchIsLast`). For the types, saves under way leave room for the load each
may end with (`RoomForSaves`).

**Record pages.** `CallsHoldFlags`: a request holds the flag its button is
disabled by, and no two hold the same, so that where one flag serves all saves
there is one of them (`OneCall`). `StoredIsNewest`: no answer is newer than the
stored record. `AnswersAreNewer`: an answer on its way is not older than the
record shown, nor than what was acknowledged, and so may replace it.
`BehindOnlyToReload`: a page may be behind its own saves only while the load
after such a save is on its way. `OtherFormsKeepLinks` rests on a fact about the
forms alone, that six of the nine send no null of their own (`FormsWithoutNulls`),
and on what the server writes (`Written`).

**Inbox.** `ToldIsRead`: what an answer said is read stays read.
`MarksAreOfThisView`: unless the view changed meanwhile, a mark was sent from the
view that is shown, so that its answer starts a new load; `LastRunIsNews`: what
that load brings is no older than the answers received, since it was served, or
will be, after them. `SelectedAreShown`: a selection made from a displayed list
goes when that list does. The types need `RoomForMarks`, the same for marks, and
that answers on their way are pages of the notifications (`AnswersArePages`).

**Board.** `Fresh` says of a list of deals that it may be shown. On a board not
disturbed, the last load is alone (`CleanLoadIsAlone`), the deals shown are
fresh while no move is under way, and there is at most one move, whose captured
list is fresh too and differs from the one shown in the moved deal only
(`LoneMove`); so both ends of a move, confirmed or undone, lead to a fresh list.
The types need that loads have read stages and versions of deals and that moves
lead to such (`ReadsAndMovesTyped`), and that the first load leaves room for the
one it starts (`RoomForFirst`).

**Gateway.** `ArriveInv` follows a call through its steps: with `RoutesAgree` it finds
a file that takes it, is not refused for its method, and is served by the endpoint
it means or by none; only a login that the backend accepted goes on to fetch the
user, and an answer that succeeded is that of the last endpoint the call means.

**The client.** Each step moves one part and leaves the variables of the others
(`OnePartMoves`). The picker, the board, the inbox and the call always have a
state of their own, so the composition implements their specifications
(`ClientImplementsItsParts`) and inherits their theorems. A list, a record page
or a studio that does not run has no page open; `ClientInv` therefore says that
the one that runs keeps its invariant and that the others are still loading.
A part that does not run stands at one fixed page (`LeadsWorkspace`, `LeadDetail`,
`AutomationWorkspace`). Where those are among the pages that may be open, as in
`client_safety`, it too is in an initial state of its own, so that the client
implements all seven parts (`ClientImplementsItsPages`) and keeps all their types;
`client_live` runs with fewer pages, and so these two theorems carry the
hypothesis.

Only model-checked:

- all liveness: leads-to under fairness is outside what TLAPS proves here;
- `RoutesAgree`, on which `CallsArrive` rests: it is about the hundreds of paths the
  code writes down and has no parameter, so TLC's enumeration of every one of them
  leaves no instance out.

## 5. Where the code disagrees with what it says

Each is a `findings` entry with the run that shows it: a revocation of "every
active refresh session" misses sessions issued concurrently; a record may be
enrolled twice in a sequence; and an edit of a lead clears the contact that the
page says stays linked. What confines each is a theorem: `AloneRevocationIsComplete`,
`OneRequestEnrollsOnce` and `OtherFormsKeepLinks`.

Four more are stated in the modules and violated by the models, without a run of
their own; a cfg with the formula in place of its properties shows the
counterexample. `LogoutSticks` (`BffSession`): a late answer of an earlier
request brings cookies back after a logout; it does not to a browser that waits for
each answer (`BffSequentialLogoutSticks`). `RetryIsHonoured`
(`WebhookDelivery`): a retry reported as queued is overwritten by a pass.
`LeadConvertsOnce` (`SalesRecords`): a lead is converted after another
request has closed it. `MarkedIsShownRead` (`Inbox`): after "Your inbox has no
unread notifications remaining." (notifications-workspace.tsx:119) the page may
go on showing the rows as unread, when its page or filter changed while the mark
was under way.

## 6. Not modelled

See `components`. On the server the one-row CRUD services have no interaction to
model; import, export, search, dashboards and the AI copilot compute and format.
In the browser what is left is presentation: the tables of translations (a
tenth of the interface's lines), drawing, menus and themes; cards and settings
forms with one load or one save and no other state; and the copilot's stream.
Workflows, quotes' decisions, attachments' files, access control and the two
passes of the worker in one round interact and are still missing: they are
the plan of section 2.

To run: `tlc -config <run's cfg> <run's module>.tla` for a check,
`tlapm <module>_proofs.tla` for the proofs (`Client_proofs` uses the theorems of
`ListPages_proofs` and `Pages_proofs`).
