# A formal model of Accountant2

Accountant2 shows data of organisations from the EGRUL registry, keeps a list of
organisations per user and reports changes in their registry entries. This
directory holds TLA+ modules that model its services and its pages, TLC
configurations that check them on small instances, and TLAPS proofs of what
matters most for every instance. `PROJECT.json` is the index: components, runs, the
source lines behind every definition, findings, hazards and theorems.

To check a run: `tlc -config TrackingJob.cfg MCTracking`. To check the proofs of a
module: `tlapm TrackingProofs.tla`.

## 1. The system

| Component | State | Operations | Hard behaviour |
|---|---|---|---|
| EGRUL client (`egrul_client.py`) | Redis `egrul:inn:<inn>`, 2 h | `fetch_egrul_data` | three awaits; answers overtake each other; the entry expires |
| Tracking (`tracking_service.py`, `repositories/tracked_inn.py`, endpoints) | `tracked_inns` (baseline and pending columns), `tracking_changes` | add / reactivate, check, confirm, delete, bulk add, list, detail | sessions compare and write copies read before a 30 s wait; three commits per change; column-wise UPDATE; a loop that commits item by item |
| Daily check (`scheduler.py`, `check_all_tracked_inns`) | the rows loaded at its start | one run at midnight | minutes-old copies; what ends the loop early |
| Lookup and history (`inn_service.py`, `repositories/request_history.py`) | `request_history`, the pool of connections | lookup, list, get | a record on every path, written where it can fail; two queries per list; everybody shares the pool |
| Parser, document generator | – | pure | one element or a list of them |
| Auth service (`auth_service.py`, `endpoints/auth.py`) | `users`; Redis `auth:refresh:*` (30 days), `auth:attempts:*` (15 min); the refresh cookie | login, refresh, logout, validate, register, list, (de)activate, first account | INCR/EXPIRE; single-use tokens under parallel refreshes and lost replies; two registrations at once |
| Gateway (nginx) | – | `auth_request`, headers, limits | – |
| Browser client (`api.js`, `App.jsx`) | access token, React state, cookie jar | retry after 401, refresh on load, handlers | parallel 401s; logout with a refresh under way |
| Production calendar (`Calendar.jsx`) | – | pure | month boundaries |

The browser reaches both services through nginx, which asks the auth service to
validate the access token of each `/api/` request and passes `X-User-Id` and
`X-User-Role` on. Both backends are single asyncio processes: handlers run
concurrently and are interleaved at every `await`, between them a handler is
atomic. They share state only through PostgreSQL, its pool of connections and
Redis. The daily job runs in the backend's own process, next to the handlers.

What each component must guarantee:

- *Tracking*: no check moves the baseline a user has reviewed; what is pending is
  on record; hash and document columns stay together; a deleted row comes back
  only by an add; a change that persists is reported; a bulk add answers the truth.
- *Lookup*: one record per lookup at most, and one for every answer that tells how
  it went; a list agrees with its total and with the detail; the document says what
  the parser reads of the organisation; a slow registry does not block the service
  for good.
- *Auth*: a login has at most one valid refresh token; parallel refreshes do not
  lose the session; a deactivated user gets no new session; accounts are changed
  by nothing but a PATCH; the lock after too many logins ends; logout ends the
  session.
- *Pages*: a call and a start of the page end; after a logout there is no session left
  to restore.
- *Client and cache*: what a caller gets, late or not, is a document the registry gave.

The hazards that these properties are for are listed in `PROJECT.json` with the
line where each one bites.

## 2. Modules

| Module | What it is | EXTENDS |
|---|---|---|
| `EgrulClient` | registry and cache; what the three steps of a fetch read and write | |
| `ChangeReview` | what tracking promises, without sessions, caches and overlap | |
| `Tracking` | rows, log, request handlers, daily job; implements `ChangeReview` | `EgrulClient` |
| `TrackingApi` | the endpoints that make several calls: bulk add, detail; implements `Tracking` | `Tracking` |
| `EgrulParser` | JSON of the registry to fields and to the document | |
| `Lookup` | lookup, history, the pool of connections | `EgrulParser` |
| `AuthService` | accounts, refresh tokens, attempts key, cookie | |
| `Page` | the pages' script, composed with the auth service | `AuthService` |
| `TrackingProofs`, `ReviewProofs`, `ApiProofs` | theorems about tracking | the modules they are about |
| `AuthProofs`, `SessionProofs` | theorems about the auth service and the pages | |
| `ParserProofs`, `LookupProofs` | theorems about the document and the history | |
| `ListProofs` | lemmas about numbers, folds and sorted lists | |
| `MCTracking`, `MCApi`, `MCLookup`, `MCAuth`, `MCPage` | values, symmetry and state constraints for TLC | |

Definitions named `X_Y` (`Confirmed_HashOnly`, `GetDel_OnlyGets`, ...) are
mutants: `X` with a plausible bug, used to see that a property notices it. No
specification uses them.

### Tracking

`registry` and `cache` belong to `EgrulClient`. `rows[<<inn, user>>]` is a row of
`tracked_inns` or `None`; the columns are those a decision reads, the rest
(`org_name`, times) is left out. A document is an element of `Data`; `Hash` is an
injective function (SHA-256 of its canonical JSON) and `Card` gives the seven
compared fields, so two documents can differ in the hash and agree in the fields.
`changes` is the log, as a set.

`ses[p]` is what process `p` – a request or the job – is doing: its position, the
row as *its* SQLAlchemy session loaded it (`snap`) and the fetched document. The
sessions use `expire_on_commit=False`, and a second SELECT returns the object the
session already has with its old values; so `snap` is what the code compares and
changes. `Flush` is the UPDATE that follows: only columns whose value differs from
`snap` are written. `loaded` holds the rows that `get_list` gave the job and that
are not checked yet. The job takes them by `created_at`, newest first (`Before`,
`IsNext`): the rows without `user_id` come last, as only a database from before that
column has them, and among them `Created` says which is older. In which order the
rows of users come is left open: which one of them is checked first makes no
difference to the others.

One action per stretch between two awaits that matter:

| Code | Actions |
|---|---|
| `POST /tracking` | `AddSelect`, `CacheGet`, `HttpAnswer` / `FetchError`, `Setex`, then `AddCreate`, `AddConflict` (unique constraint) or `AddExisting` |
| `POST /tracking/{inn}/check` | `RowSelect`, `HttpAnswer` / `FetchError`, `Setex`, then `CheckUnchanged`, or `CheckLog`, `SetPending`, `UpdateLastChecked` |
| `POST .../confirm`, `DELETE` | `RowSelect`, then `Confirm` or `Deactivate` |
| `check_all_tracked_inns` | `DailyStart`, `DailyNext` (then the steps of a check), `DailyAmbiguous`, `DailyEnd` |
| any other exception, end of the process | `Fail`, at every position |
| registry; expiry in Redis, a restart from its dump | `Publish`; `Expire`, `Restore` |

Queries match as `get_by_inn` does: an admin's query has no user filter
(`NoUser`), and several matches raise `MultipleResultsFound`. `Legacy` says which
rows without `user_id` the database may start with; the migrations add both
`user_id` and `last_raw_response` as NULL columns, so such rows exist in a
database that was in use before.

`ChangeReview` is the specification a user would write: a list, a baseline per
organisation, changes on record, one of them proposed. `ImplementsReview` maps a
row's `is_active`, `last_raw_response` and `pending_raw_response` and the log to
its variables, for the rows that have a user.

### TrackingApi

`api[c]` is the request of a client that runs several operations; while it adds an
INN, `ses[c]` is the add's own state, so `Tracking`'s actions do the work.

| Code | Actions |
|---|---|
| `validate_inns` | `Validated` (each INN once), `Accepted` (no 422) |
| `POST /tracking/bulk` | `BulkStart`; per INN `BulkSkip`, or `BulkReactivate`, or `BulkNone` and `BulkSecond` (the second SELECT, in `add_tracked_inn`); `BulkFetch`; `BulkAdded`, `BulkFailed` or `BulkAbort`; `BulkAnswer` |
| `GET /tracking/{inn}` | `DetailRow`, `DetailLog`, `DetailEnd` |

### EgrulParser and Lookup

The registry converts XML to JSON: an element that is absent has no node, one that
is there once is a node, one that is repeated is a list. `Document(o)` is that
encoding of an organisation `o`; `Parse` and `Context` are the code, node by node;
`Raises` says which documents end in an exception, and `Described(o)` what the
document should show. An `Organisation` is what the parser reads of an entry;
founders that are neither persons nor companies, for one, are in the entry, too, and
the parser passes over them. A text is a sequence of words, so that joins, empty
parts and the case-insensitive map of roles can be told apart while separators
and digit groups cannot.

Amounts are converted as the code does. The constant `Decimal` gives the number for
the texts that `decimal.Decimal` takes: its whole part as `int()` has it, its
fraction, and whether it is finite. The capital is shown in whole roubles, or as it
is given when it is no number, and raises when it is a number and not finite, for
`int()` stands outside the `try` (`ParseCapital`, `Infinite`); the nominal value of a
founder keeps its kopecks, and is zero when it is no number (`Founder`).

`Lookup` has one action per await of a request: `Fetch` (registry, parser,
document, with every way they can end), `Insert`, `Commit`, `Refresh`, and the
failures `CreateFails` and `CommitUnknown`; `ListStart`, `ListCount`, `ListItems`,
`ListFails`; `Acquire`, `PoolTimeout` and `Release` for the connection. A record's
`created_at` is the start of its transaction and not of its commit, as `now()` of
PostgreSQL is; two records never have the same one, which PostgreSQL, counting in
microseconds, does not exclude but makes rare. Any other request with a session is `OtherStart` and `OtherEnds`.

### AuthService and Page

`active[u]` is an account, or `None` when there is none; `store[t]` the content of
`auth:refresh:<hash of t>`, `attempts` and `ttl` the attempts key and whether it
has a time to live, `jar[b]` a browser's cookie. A request is a record in `req`; a
reply is delivered as a step of its own, which sets or clears the cookie. A cookie
is sent only to the path it was set for. `grant.login` is a history variable: the
login a token descends from. Tokens that nobody has can be drawn again, which keeps
their number finite; the code draws 256 random bits.

| Code | Actions |
|---|---|
| `login` | `SendLogin`, `Incr`, `ExpireKey`, `Verify`, `Clear`, `Issue`, `Deliver` |
| `refresh_tokens` | `SendRefresh`, `GetDel`, `Renew`, `Deliver` |
| `logout` | `SendLogout`, `Delete`, `Deliver` |
| `register`, `ensure_admin_exists` | `SendRegister`, `RegisterLookup`, `RegisterInsert`; `EnsureAdmin` |
| `PATCH /auth/users/{id}` | `SendStatus`, `SetActive` |
| time, faults | `WindowEnds`, `TokenExpires`, `CookieExpires`, `Abort`, `RedisRestart` |
| snapshots of Redis | `RedisSave`, `RedisRestore` |

`Faults` switches lost requests and replies, expiry of tokens in use and restarts
of Redis without its data. `Restores` switches snapshots: `docker-compose.yml` runs
Redis with its default configuration, which saves its keys from time to time
(`dump`) and loads the last snapshot when the container restarts. All logins share
one attempts key: behind nginx `request.client.host` is the proxy.

`Page` adds the script of each tab: `auth` and `access` are the variables of the
same meaning in `App.jsx` and `api.js`, `page[r]` says which call of which tab waits
for request `r`. A tab runs many calls at once.

| Code | Actions |
|---|---|
| `tryRefresh` on mount | `Mount`, `Got`, `MountFailed` |
| `login`, `logout` | `Login`, `Logout`, `Got`, `LoginFailed` |
| `apiFetch` | `Call`, `CallAnswered`, `CallRefused` (the refresh), `Got` and the second `CallAnswered`, `RefreshFailed` with `GiveUp` (`clearAccessToken`, and `onLogout` but for the calls of the users panel) |
| gateway, `/auth/validate` | the condition of `CallAnswered`; a token may be too old at any time |
| reload of the page | `Reload` |

## 3. What is checked

| Run | Question | Result |
|---|---|---|
| `TrackingJob` | One user against the daily job: pending is logged, hashes match documents, the baseline moves only by review, only an add revives, every commit is a step of `ChangeReview`, a change that persists is in the row again and again | holds |
| `TrackingClients` | Two clients of one user, each with its own copy of the row: hashes match documents, the baseline moves only by review, only an add revives, also when two first adds race | holds |
| `TrackingBulk` | A bulk add and details next to another client: the answer is complete and true, the tables see only steps of `Tracking`, what a detail shows is on record | holds |
| `TrackingLegacy` | A change that persists is in the row again and again, with old rows without `user_id` | **violated** |
| `Lookup` | One record at most, answers are recorded, pages are full, what is listed can be opened, the document says what the parser reads, every request ends | holds |
| `LookupRecord` | Every lookup is recorded | **violated** |
| `AuthFaults` | With every fault: a deactivated user only loses sessions, a registration leaves accounts alone | holds |
| `AuthLogins` | Three logins at once on one attempts key: it gets its time to live whatever comes between INCR and EXPIRE, and the lock ends | holds |
| `AuthCrash` | The lock ends although requests may die | **violated** |
| `AuthLogout` | A logout leaves no valid token | **violated** |
| `Page` | Two tabs of one browser, nothing lost: one valid token per login, the cookie stays good, every call and every start of a page ends | holds |
| `PageLogout` | A browser whose pages show the login form has no session to restore | **violated** |

### The violations

- *TrackingLegacy*. README.md:14 promises a daily check of all tracked INNs. The
  job checks a row without `user_id` by a query on the INN alone; if a user tracks
  that INN, too, the query finds two rows, and `MultipleResultsFound` leaves the
  loop. The loop goes from the newest row to the oldest (tracked_inn.py:31), so the
  user's own row has been checked by then; what is lost, this night and every other,
  are the rows that are older still. In the trace that is the old row of another INN
  whose registry entry has changed.
- *LookupRecord*. The docstring of `lookup_inn` says a record is saved whatever the
  result. The record of a success is created after the `try`, with the name of the
  organisation in a column of 500 characters: a longer full name without a short
  one ends the lookup with a 500 and no record.
- *AuthCrash*. The comment at `RATE_LIMIT_TTL` says 15 minutes. A process that dies
  between INCR and EXPIRE leaves a counter without a time to live. Once it exceeds
  the limit nobody behind the proxy can log in until Redis loses the key.
- *AuthLogout*. README.md:159 says logout invalidates the refresh token. The cookie
  has path `/auth/refresh`, is not sent to `/auth/logout`, and the token stays.
- *PageLogout*. README.md:159 calls `/auth/logout` the end of the session. A call is
  under way when the user logs out; it is answered 401 and refreshes with the cookie
  that is still there. The logout's answer deletes the cookie, and the refresh's,
  which comes after it, sets a good one. The page shows the login form, nothing is
  under way, and the next load of the page (App.jsx:351) is logged in.

What does not hold when handlers overlap, and what nothing in the repository claims,
is not checked but listed in `PROJECT.json` as a hazard without a property. A second
check writes just those pending columns that changed against its copy, so that a
confirm in between can leave a pending hash without field list. A log entry can
compare with a baseline that a confirm has replaced since. Pending data is not cleared
when the registry returns to the baseline, nor when a row is reactivated, so that a
confirm can put an older document back.

What fails with a snapshot of Redis, and is therefore checked and proved without:
`OneTokenPerLogin`. GETDEL deletes a token in memory; a Redis that loads an older
snapshot accepts it again. To see it, set `Restores = TRUE` in `AuthLogout.cfg` and
check `OneTokenPerLogin`.

### Bounds

*Tracking*. One INN and one user are enough for everything but the bulk add and the
legacy rows: rows of different INNs meet only in the two loops. Two documents
suffice where a property tells "the baseline" from "something else". `TrackingJob`
has one client and the job, `TrackingClients` two clients, which are interchangeable
(`Symmetry`), and a job that does not run (`JobRests`); between them are the
overlap of a request with minutes-old copies and that of two requests. Only where
`TrackingClients` starts with an old row does the job run as far as the row on which
it ends, while users do nothing but add.
`TrackingLegacy` has two INNs, each of which may have an old row, and lets the user
only add the newer one (`OnlyAddsOfI1`), whose entry stays the same.

*TrackingBulk*. The lists are one with an INN twice, one with something that is no
INN, and the empty one. `Bounded` keeps one bulk add at a time next to one other
client, no detail while a bulk add runs, at most one entry in the log, and the daily
job at rest (`JobRests`). The proofs (section 4) do without all of it.

*Lookup*. Three requests on a pool of two connections: a lookup can commit between
the two queries of a list, and who holds a connection, who waits and who times out
are all there. `Roles` gives each request its part: one looks up as an ordinary
user, one looks up or lists as anybody, one is any other request that holds a
connection. Two records make a page that is not the whole list; the clock is bounded
by `Soon`. `MCAllOrgs` has none, one or several of everything that repeats or may be
missing, and amounts with kopecks, that are no number, and that are no finite one;
`RareAlone` lets those beyond the first three be looked up only while nothing else
happens, since the history and the pool tell apart only what becomes of a document.

*AuthService and Page*. Three tokens and two logins are more than can be in use at
once; in `AuthFaults` tokens may run out, but none is blocked for good. In `Page` two
tabs share the cookies of one browser, two requests are under way at once, nothing
is lost, and logins are made in one tab (`LoginTabs`) and only when what is left in
Redis of earlier sessions has run out. Logins next to each other are the question of
`AuthLogins`: three requests that are all logins (`OnlyLogins`), one more than the
limit. `RATE_LIMIT_MAX` is 2 instead of 5, and the
counter stops at `TopCount`, one above the limit, where the code no longer tells
values apart. Symmetry is used in safety runs only.

### Fairness

`Tracking!FairSpec`: the job starts again (CronTrigger fires every midnight while
the process lives) and goes on (asyncio resumes a coroutine whose await is over;
httpx ends every request within 30 s). Nothing is assumed about users. That the
registry answers is not assumed either: `DailyCheckReports` speaks of behaviours
in which, from some point on, the job meets no error and the entry stays.

`Lookup!FairSpec`: a request takes its next step, and who waits for a connection
gets one if again and again one is free. The second is strong fairness, as the
pool's queue is served in turn. No fairness on `PoolTimeout`: nobody needs it.

`AuthService!FairSpec`: handlers go on, and a time to live ends. Nothing makes a
browser send anything or a fault happen or be repaired.

`Page!FairPage`: the script and the handlers go on, and what runs out does so. The
handlers' fairness is strong because the bound on tokens can disable one for a
while; the code draws a token whenever it needs one. Users need do nothing.

## 4. What is proved

Every safety property that a passing run checks is also a theorem, for every number of
INNs, users, documents, requests, connections, tabs, tokens, for every limit, list
and organisation. The assumptions are those named in the modules: `None` is not a
document, a hash, a row, a field list, a token, a grant or a record of the history
(`NoneAssumption`); the job is not a client; `NoUser` is not a user; `Hash` does not
collide on the documents in play; a request's list is a sequence
(`ListsAssumption`); `Orgs` are organisations (`OrgsAssumption`): at most one short
name, street and main activity, any number of everything else; `Decimal` gives a
number for each text it takes, among them "0" (`DecimalAssumption`); `Created` dates
the old rows (`IdAssumption`).

- `TrackingProofs`: `TypeCorrect`, `PendingLogged`, `HashesMatch` (invariants),
  `BaselineReviewed`, `RevivedByAdd` (steps). The invariants of rows are not
  inductive, because a row is written from what a session loaded long before. `Inv`
  asks the same of all copies: of each row, of each session's `snap` and of each row
  the job still holds, and ties a handler's position to its data (`SessionOK`: for
  example, at `pend` the change is already logged). The central lemma,
  `FlushConsistent`, says that merging three consistent versions column by column
  gives a consistent row: as `Hash` is injective, a hash column is written exactly
  when its document is. This is why the code gets away without locks for these two
  columns, and why it does not for the field list, which repeats between documents.
- `ReviewProofs`: `ReviewImplemented`, the refinement of `ChangeReview`. The step
  lemma goes through the commits; `Inv` says enough about the writer's copy to see
  which step of `ChangeReview` the merged row is.
- `ApiProofs`: `ApiImplementsTracking`, `ReportTrue`, `ReportComplete`,
  `DetailRecorded`. `AInv` ties a request to the handler it runs, and what a bulk add
  has reported to the part of its list it has done (`BulkOK`). With the first,
  every theorem about `Tracking!Spec` holds of the endpoints, too.
  `ReportComplete` rests on what `validate_inns` does to any list: the fold leaves
  each INN once (`ValidatedInjective`).
- `LookupProofs`: `RecordedOnce`, `ToldIsRecorded`. The invariant follows one
  request: nothing of it is in the history before its COMMIT, and what it had
  inserted afterwards.
  `PagesFull`, `ListedFound`: `HistoryInv` adds that no two records, written or being
  written, have the same date (`Dated`) and that the total of a request between its
  two queries is at most the number of records its user sees (`Counted`). Without
  the first there may be no sorted sequence for the page to be cut from; the
  second is kept because the history only grows.
  `DocumentFaithful`: a request has a document only of an organisation that the parser
  took (`OrgInv`), and `ParserProofs` says what that document shows.
- `ParserProofs`: `RaisesExactly`, `DocumentDescribes`, about every organisation, every
  amount and every `Decimal`, and not only those of the run. A document is read back node by node: what a
  set of fields, attributes or a repeated element gives under a key
  (`FieldGiven`, `AttrGiven`, `RepeatedItems`), then each section of the parser.
- `AuthProofs`: `TypeCorrect`, `SingleUse`, `ExpiryComes`, `AccountsKept`,
  `DeactivatedLose`.
  `SingleUse` needs the token that is being replaced to be counted with the live
  ones (second and third part of `OneTokenPerLogin`) and that a grant is held exactly
  while a request renews it; it assumes `~Restores`. `ExpiryComes` assumes `~Faults`,
  without which `AuthCrash` refutes it, and `~Restores`, as a snapshot may hold a
  counter without a time to live. `DeactivatedLose` holds with every fault and every
  snapshot; it counts a user's sessions by login, so that a token and its successor
  count once, and therefore needs finitely many tokens and requests.
- `SessionProofs`: `SessionKept`, with `~Faults` and `~Restores`. `SessionSurvives` is
  inductive together with where else a token can be: a reply's token is stored and
  nobody else has it, a cookie is sent by its own browser only, no two browsers have
  the same one. `PagesUseTheService`, that pages and service together are a
  behaviour of `AuthService`, and with it `PagesKeepTheSession`.

The prover has no induction over a predicate for its backends. `ListProofs` has it
over a set of numbers instead (`Induction`, from the well-foundedness of `<`). What
a fold, a flattened or a sorted sequence is follows from its definition: it is a
CHOOSE, so it suffices to show that a function or a sequence as asked for exists
(`FoldExists`, `FlattenIs`, `SortedExists`).

Only model-checked is what needs fairness, which the provers cannot treat:
`DailyCheckReports`, `EveryRequestEnds`, `LockEnds`, `CallEnds`, `LoadingEnds`.

## 5. What is not modelled

- The production calendar: pure functions of a date and a table, no state of the
  program beyond the month shown.
- Headers, limits and locations of nginx, and the check of the role in
  `dependencies.py`: a request is let through or not by its own content alone. The
  models' requests are those that were.
- Passwords, hashing and the format of tokens; roles, but for the admin's queries.
- Rendering of the template, digit groups, the capital in words, dates, INN/OGRN/KPP.
- Parts of a registry entry that the parser does not look at. That it reads enough is
  not claimed; `DocumentIsFaithful` is about what it reads.
- The pages' forms and lists. A page shows the answer of its last query; that it is
  not loaded again after a failed bulk add (App.jsx:501) is listed as a hazard.
- Migrations (their old rows are initial states), configuration, logging,
  containers, CI.
- PostgreSQL is modelled as READ COMMITTED shows it to these statements: an UPDATE
  of one row by its key is atomic, and a transaction that is refused is a `Fail`.

## 6. Possible extensions

1. The pages' lists: what a page shows of tracking while its calls overlap, and a
   confirm of something the page did not show.
2. The cache and the registry inside `Lookup`, by composing it with `EgrulClient`.
3. The calendar's grid and `_detect_changes` on parsed organisations against
   reference definitions.
