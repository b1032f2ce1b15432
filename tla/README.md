# nada-backend in TLA+

nada-backend is the backend of NAV's data marketplace: teams register BigQuery
tables as *datasets*, other people ask for access to them, and a dataset can be
opened in Metabase.  These modules model the parts of the backend where two
stores or several actors must agree, check them with TLC on small instances and
prove the most important properties with TLAPS for all instances.

Paths are relative to `src/`.

## 1. The system

The backend is one Go program, deployed with two to four replicas
(`.nais/prod/nada-backend/gcp.yaml`).  Every replica (*pod*) serves HTTP and
runs the background loops that `cmd/nada-backend/main.go` starts.  The pods share
nothing but a Postgres database and the external services: BigQuery, Google IAM
and service accounts, Cloud Storage, Metabase, Teamkatalogen, NAIS console,
Polly, Slack.

| Component | State | Operations | Talks to |
|---|---|---|---|
| Access (`service_access.go`, `postgres_access.go`) | `dataset_access`, `dataset_access_requests` | create, update, delete, approve, deny a request; grant; revoke | BigQuery client, Metabase service (from the handler), Polly, Slack |
| Access ensurer (`syncers/access_ensurer`) | a list per pass, in memory | every five minutes, on every pod: close what has expired | Access storage, BigQuery client, Metabase service |
| Data products and datasets (`service_dataproducts.go`) | `dataproducts`, `datasets`, `datasource_bigquery` | create, update, delete | BigQuery client; deleting a dataset deletes its accesses |
| BigQuery client (`bq/bq.go`, `gcp_bigquery.go`) | none; dataset access lists and table policies in BigQuery | Grant, Revoke, AddToAuthorizedViews, views, metadata | BigQuery |
| Metabase mapping (`service_metabase.go`, `metabase_mapper`, `http_metabase.go`) | `metabase_metadata`, `third_party_mappings`, a queue per pod; groups, collections and databases in Metabase | add and remove a mapping, grant and revoke members, soft delete and restore | Metabase, BigQuery client, service accounts |
| Metabase members (`handler_access.go`, `service_metabase.go`, `ensurer.go`) | the members of a dataset's permission group in Metabase | add with a mapping or a grant; take out with a revocation or an expiry | Metabase |
| Metabase syncers (`syncers/metabase`, `metabase_collections`) | none | hide and show tables; tag restricted collections, report missing and dangling ones | Metabase |
| Service accounts (`sa/sa.go`, `gcp_service_account.go`) | Google: accounts, keys, the policy of one project | ensure account with key and binding; delete | IAM |
| Datasource sync (`service_bigquery.go`) | `datasource_bigquery` | a cron job posts it: read every table's schema, row by row | BigQuery client |
| Joinable views (`service_joinable_views.go`, `service_access.go`) | `joinable_views`; datasets, views, salts and authorisations in BigQuery | create, list; readers granted and revoked with an access | BigQuery client |
| Stories (`service_story.go`, `gcp_story.go`) | `stories`, objects in a bucket | create, append, recreate, update, delete | Cloud Storage |
| Sessions and groups (`auth/`) | `sessions`, a cache of groups in memory | login, callback, logout, middleware | Azure, Google |
| Team projects and tokens (`nc/`, `teamprojectsupdater`, `service_tokens.go`) | `team_projects`, `nada_tokens` | hourly refresh by the leader; rotate; look up | NAIS console |
| Teamkatalogen (`syncers/teamkatalogen`, `cache/`) | `tk_product_areas`, `tk_teams`, `http_cache` | hourly refresh by every pod | Teamkatalogen |
| Keywords (`service_keywords.go`) | keywords of datasets and stories | list, retire and replace everywhere | |
| Insight products, Polly, search, users, Slack | one table each, or none | single statements and reads | |

`PROJECT.json` lists all of them with their sources and status, and the hazards
of the code with the line where each bites.

### What is hard about it

* **Two stores, no transaction.**  An access is a row in Postgres and a member in
  a BigQuery policy.  Handlers change the one and then the other; each call can
  fail, be made although its answer gets lost, or not be reached because the pod
  dies.  There is no compensation and no retry other than the next ensurer pass.
* **Concurrency.**  Handlers on any pod and an ensurer on every pod work on the
  same rows, without locks.  The ensurer works through a list that ages.
  Renewing looks up the row to replace before its transaction.
* **Shared documents.**  BigQuery's policies and access lists are read and written
  whole.
* **Metabase.**  A mapping takes a dozen calls with a deadline, repeated from the
  start after a failure, on whichever pod takes the work.

### What makes each component correct

* *Access*: nobody reads a table without the rows knowing, an active row is in
  IAM, one access in force per subject, an approved request has its access,
  expired accesses end, personal data is not open to everybody.
* *Ensurer*: it closes expired accesses only, and all of them in the end.
* *BigQuery client*: no update is lost, no change is made twice.
* *Metabase mapping*: a dataset has one database, whose id is not lost while it
  exists and which can be queried once it is synced; the members of its group are
  those with an access; removing a mapping leaves nothing behind, and a failed
  attempt can be repeated.
* *Members*: who is in the group has access, and who was granted access is in the group.
* *Service accounts*: the policy that all mappers rewrite loses no binding, and a
  recorded database has a key that works.
* *Stories*: what is served is what the last call put there, and nothing of a story that is gone.
* *Joinable views*: what the portal lists can be queried, by nobody who never had
  access or whose access was revoked, and it tells what was deleted.
* *Catalogue*: a dataset stays with the group that registered it, only that group
  changes it, and the columns it lists as pseudonymised are hidden.
* *Syncs*: a slow or a second one does not put back what is older than what is there.
* *Tokens*: they survive every refresh of the teams and admit for their own team.
* *Groups cache*: a guard uses groups at most an hour old.

## 2. Modules

| Module | Models | State |
|---|---|---|
| `AccessGrants` | access service, its storage, the datasets it refers to, the access ensurers | `dataset`, `request`, `access` (the tables), `iam` (BigQuery), `now`, `job` (handlers in flight), `ensurer` (the pass of each pod), and two history variables |
| `MCAccessGrants` | instances of it for TLC | |
| `AccessGrantsProofs` | its theorems | |
| `IamPolicy` | the BigQuery client's read-modify-write | `entries`, `policy` (the documents), per client `step`, `call`, `seen`, `result`, and `current` (whose etag is still good) |
| `AtomicPolicy` | what the client promises to its callers | `entries`, `policy`, `stage`, `call`, `result` |
| `MCIamPolicy`, `IamPolicyProofs` | instances, theorems | |
| `MetabaseMapping` | one dataset in Metabase and the mappers that work on it | `row`, `mapped`, `allUsers` (Postgres), `groups`, `archived`, `database` (Metabase), `account`, `iam` (Google), `queue`, `work`, `job`, and the history variable `excuses` |
| `MCMetabaseMapping`, `MetabaseMappingProofs` | instances, theorems | |
| `Stories` | stories and the files they serve | `stories`, `bucket`, `call` |
| `JoinableViews` | how a joinable view is made, and who may read it as accesses come and go | `place`, `live`, `accesses`, `joinables` (Postgres), `spaces`, `vault`, `salts`, `views`, `authorized`, `viewers` (BigQuery), `maker`, `change`, and three history variables |
| `Catalogue` | products, datasets, pseudonymised views | `products`, `datasets`, `sources`, `pseudoViews`, `edit` |
| `DatasourceSync`, `MCDatasourceSync` | the sync of schemas | `shape`, `dropped` (BigQuery), `schema`, `missing`, `sync` |
| `Keywords` | the transaction that retires keywords | `words`, `job` |
| `TeamCatalogue` | teams copied from Teamkatalogen, and the cache | `hour`, `areaOf`, `listing`, `pass`, `teamRow` |
| `MetabaseMembers` | the members of a permission group | `rights`, `lapsed`, `mapping`, `members`, `adding`, `request`, `sweep` |
| `ServiceAccounts` | accounts, keys, the project's policy | `exists`, `bound`, `keys`, `credential`, `recorded`, `mapper` |
| `Sessions` | login, sessions, the cache of groups | `now`, `inGroup`, `cached`, `expires`, `browser`, `consents`, `visit` |
| `TeamTokens` | team projects, tokens, uploads | `console`, `projects`, `tokens`, `leading`, `update`, `upload` |
| `MetabaseCollections` | the restricted tag | `metadata`, `collection`, `tagging` |
| `Publishing`, `MCPublishing` | the six of these that teams publish with | `publishing`, and theirs |
| `Admission`, `MCAdmission` | the five that decide who may act | `admission`, and theirs |
| `CatalogueProofs` | theorems about `Catalogue` and `Keywords` | |
| `UpkeepProofs` | theorems about `DatasourceSync` and `TeamCatalogue` | |
| `PublishingProofs` | theorems about `Stories`, `JoinableViews` and `Publishing` | |
| `MetabaseProofs` | theorems about `ServiceAccounts`, `MetabaseMembers` and `MetabaseCollections` | |
| `AdmissionProofs` | theorems about `Sessions`, `TeamTokens` and `Admission` | |

### AccessGrants

A handler is a record `job[t]`: `step` is the call it makes next, the other fields
are its local variables.  The reads and checks up to the first call that changes
something are one action (`GrantBegin`, `ApproveBegin`, `RevokeBegin`); then every
call is one action (`GrantIam`, `GrantLookup`, `GrantStore`, ...).  Merging the
reads is sound for what is checked: the tables they read give a
value that any later interleaving would see as stale, which the model already
has, since nothing is read again afterwards.  For a pseudonymised dataset, `GrantAccessToDataset` and `RevokeAccessToDataset` grant and revoke
the subject's joinable views before they come to the table (`service_access.go:378-390`, `:300-313`).  These
loops change no row and no member of a table's policy, and one that fails ends the handler with nothing changed
that `AccessGrants` has; so they are left to `JoinableViews`, whose handlers walk through them call by
call.  Handlers that make a single
statement are one action (`CreateAccessRequest`, `UpdateDataset`, ...).

`IamFails` is a call to BigQuery that returns an error, with or without its
effect; `StoreFails` a failed query or transaction; `Crash` a pod that stops,
which drops its handlers and its ensurer's list.  A row has a status: `free` (not
inserted yet), `active`, `revoked`, or `deleted` with its dataset.  Time passes by
`Tick`; a deadline that is smaller than `now` has expired.  Subjects come in
spellings, `Lower` is `emailOfSubjectToLower`, and BigQuery compares addresses in
lower case, so `Member` applies it; rows inserted by approval hold the spelling of
the request, which was put in lower case when the request was made.

The two history variables excuse exactly what no row can tell: `orphaned` are the
members a call granted whose handler then failed or died (or whose row was closed
before the late grant of `CreateDataset`); `unbacked` are the rows whose member a
revocation has taken out of IAM, or whose grant is still to come.  The code leaves
both behind in good faith (`service_access.go:392-396`, `ensurer.go:86`), and the
invariants say that there is no other way for IAM and rows to disagree.

### IamPolicy and AtomicPolicy

`bigQueryAPI.Grant` puts the member into the access list of the dataset
(`AddDatasetRoleAccessEntry`) and into the policy of the table
(`AddAndSetTablePolicy`); `Revoke` changes the policy only; `AddToAuthorizedViews`
the access list.  Each change reads the whole document and writes it whole, with
the etag it has read (the metadata update passes `meta.ETag`; the IAM policy
carries its own).  `current` is the set of clients whose etag is still that of the
document: a write of anybody on the same document empties it.  `AtomicPolicy`
makes each change in one step; `stage` maps the four requests of `IamPolicy` to
its two.  This is what justifies the single-step `GrantIam`, `RevokeIam`, ... of
`AccessGrants`, and their failures with or without the effect.

### MetabaseMapping

One dataset, and everything that stands for it outside the portal: the metadata row and the
mapping in Postgres (`row`, `mapped`), the group, the collection and the databases in
Metabase (`groups`, `archived`, `database`), the service account and its right to read the
table in Google (`account`, `iam`).  `work[p]` is the mapper of pod `p`: the call it makes next
and what it holds in local variables.  Each call of `service_metabase.go` is a step of its
own, on one of three paths:

* `add`: `ChoosePath` asks whether all users have access, then `OpenRead` .. `SetGroupOpen`
  (an open database), or `RestrictedRead` .. `SetAccount` (a restricted one, restored or
  created), then `Grant` .. `SetSynced` (the database itself);
* `cleanup`: after `TimesOut`, what the attempt had made is deleted, and then
* `remove`: `RemoveRead` .. `DeleteRow`.

`MapperFails` ends an attempt anywhere; since the effect of a call and the step after it are
separate, it also stands for an answer that gets lost.  Where the code takes an answer
for an error (no row, no group, an id that is there already) the step is not enabled and only
`MapperFails` is left.  `Crash` loses the queue too; a nil pointer ends there.  Meanwhile
requests change the mapping, and `job` is a handler or an ensurer that revokes access of
all users and soft-deletes the database, call by call.

`excuses` is a history variable for `SyncedWorks`: a removal has begun, a grant was revoked
and not restored, or a removal left a database that its row did not name.

Left out here: the members of the group (only the lookup of a missing group is kept,
`AddMembers`; see `MetabaseMembers`), service account keys (see `ServiceAccounts`), which
tables are visible, and the deletion of the dataset itself.
Assumed of Metabase and Google: deleting what is gone already is no error, and a fresh
object does not get an id that the row or a mapper still holds.

### The modules of `Publishing`

They all follow `AccessGrants`: a handler, loop or pass is a record whose `step` is the call
it makes next, a call is an action, and an action that drops the record stands for an error,
a refusal or a pod that stops.  History variables only say what a property excuses, or what
it compares with.

* **Stories.**  A story is a row and a folder.  `CreateStory`, `AppendStoryFiles`,
  `RecreateStoryFiles` and `DeleteStory` change the row, and then one object after the other; a
  copy can be cut off.  `GetIndexHtmlPath` is what readers get.  A pod that stops may have had its row stored all the same.  `promised` is what
  the calls that succeeded put there.
* **JoinableViews.**  The dozen calls of `CreateJoinableViews`: a dataset for the user, the
  vault of salts, then for each source a view, its authorisations and its reader; the row
  comes last.  `viewsMap` is keyed by the BigQuery dataset, so that of two sources in one
  dataset only the later is authorised; `MappedViews` says which.  `DeleteSource` fires the
  trigger of migration 0076.  `change` are the handlers that grant or revoke an access to a pseudonymised
  dataset: a list of the subject's views, read once, then a call to BigQuery for each, and the row in the end.
  `standing` remembers for each user and source what was last done to him as a reader: he is in, he is out,
  a handler that nobody has crossed is at it, or something failed or two handlers met and nobody can say.
* **Catalogue.**  `UpdateDataset` reads the dataset and its product, then the product to move
  to, compares the groups, rewrites the view and updates two tables in statements of their own.
  Moving a dataset writes back the product that was read at the start, so an edit can undo
  a move in silence.  Rows of `datasource_bigquery` outlive their datasets.  A view is named
  after its table, whichever dataset asks for it: `author` tells who did last.
* **DatasourceSync.**  `SyncBigQueryTables` lists all rows, and looks at each in two calls, reading and
  writing.  Nothing keeps two syncs apart.  The schema goes into every row of a dataset,
  that of a view and that of its table alike.
* **Keywords.**  `UpdateKeywords` is one transaction with a statement per keyword and table.
  `held` is what it has written and nobody sees before `Commit`; who wants a held row waits.
* **TeamCatalogue.**  `RunOnce` asks for the areas and then for the teams of each, through the
  cache in Postgres, and stores teams and areas in one transaction; `hour` is the clock by which
  the cache forgets.  A team may move between two calls.

### The modules of `Admission`

* **MetabaseMembers.**  The handlers of grants and revocations with their calls to Metabase, which
  come after the access is stored but before it is revoked; the ensurer; and the mapper that adds
  those who had access when it made its list.  A change of access itself is one step, as
  `AccessGrants` shows that its calls may be looked at.
* **ServiceAccounts.**  `EnsureServiceAccountWithKeyAndBinding` and `DeleteServiceAccountAndBindings`,
  call by call, by mappers of different datasets.  The project's policy is a document with an
  etag, as in `IamPolicy`.  A second attempt at a database deletes the key of the first.
* **Sessions.**  One user with two requests in flight on one pod.  The cache holds the answers of
  Azure and Google apart; a request that misses asks and stores later, when others have.
* **TeamTokens.**  `RunOnce` fetches the teams page by page, by offset, while teams come and go, and replaces
  `team_projects` in one transaction; the trigger of migration 0067 gives a token to
  teams that have none.  An upload looks its token up twice.
* **MetabaseCollections.**  The pass that adds the restricted tag to names, by leaders that overlap.

### Publishing and Admission

These modules compose the parts.  The parts share a database but no row, call no operation of
each other and never wait for each other: to each, the rest is a pause.  So the composition is
their disjoint sum: the initial state chooses the part in motion, every step is one of
that part, and the invariants of all parts are checked together.  What is checked of a part
therefore holds of it beside the others; `PartsTogetherAreSound` and `AdmissionPartsTogether`
say so of every interleaving of them.  Where parts do share rows the modules are not
composed but abstract each other: `AccessGrants` is a step of `MetabaseMembers`; of `JoinableViews`
it is an approval, an expiry, or the last step of a handler; and `MetabaseMapping` is one of `MetabaseMembers`.

## 3. Runs

| Run | Question | Bounds |
|---|---|---|
| `access_race` | Do rows and IAM account for each other when handlers race with each other and the ensurer? | 2 handlers, 1 pod, 2 rows, 2 subjects, time 0..1 |
| `access_two_pods` | Do two ensurers with ageing lists harm each other or a renewal? | 1 handler, 2 pods, 2 rows, time 0..2, a pseudonymised dataset |
| `access_requests` | Is approving all or nothing, also twice, after a denial, with the request or dataset gone, and in two spellings? | 1 request, 2 handlers, 2 rows, 3 subjects, two of them spellings of one |
| `access_liveness` | Do expired accesses end, in the rows and in IAM? | 1 handler, 1 pod, 2 rows, time 0..1 |
| `access_sensitive` | Is a dataset with personal data kept from "all users"? **No** (see below). | 1 handler, 1 row |
| `policy_atomic` | Are changes of shared BigQuery documents atomic? | 2 clients, 2 tables, 2 members, 1 view |
| `metabase_safety` | Do repeated, failing, timed out attempts leave Metabase in order? | 1 mapper, 2 groups, 2 databases, 1 collection |
| `metabase_liveness` | Do mapped datasets get synced and unmapped ones removed? | 1 mapper, 1 of each, no queue, access of all users only expires |
| `metabase_dragons` | Does a database mean that there are a group and a collection? **No** (see below). | 1 mapper, 1 of each |
| `publishing` | Do stories, views, datasets, schemas, keywords and teams stay right with several actors at work? | 2 handlers (that make views: 1), 1 story of 2 files, 2 sources, 1 user, 1 joinable view, 2 products, 1 dataset, 1 table, 2 columns, 2 keywords, 2 pods, 2 areas, 1 team |
| `admission` | Do members, accounts, sessions, tokens and tags stay right with several actors at work? | 2 people, 2 accesses, 1 handler; 2 accounts, 2 mappers; 2 requests, 2 directories; 2 teams, 2 pods, pages of 1; 2 taggers |
| `missing_tables` | Is a table that is gone marked as missing? **No** (see below). | 2 datasets, one pseudonymised, 1 sync |

Why these bounds are enough to be interesting: two rows are a row and its
replacement, or two duplicates, and every invariant speaks of at most two rows and
one member; two spellings (`access_requests`) give duplicates that no renewal merges.  Two
handlers and an ensurer make every pair of actors overlap at every call.  Deadline
0 with time up to 1 (2) is an access that expires during the run, also between two
ensurer lists.  `MaxTime`, `Accesses` and `Requests` bound the state; the code has
no such limits, and the theorems have none.  `SYMMETRY` permutes row ids (in
`access_race` also handlers, in `policy_atomic` clients and members, in
`metabase_safety` Metabase's ids), which nothing tells apart; the liveness runs use none.

In `publishing` and `admission` two of what can collide are enough: each property speaks of one
story, one dataset, one account or one person, and of two actors at most, one that
changes it and one that holds something old.  A page of one team makes two teams two pages.  One person
in two groups and one in a single group, and two products that may be of two groups, make the
owners differ.  `MaxRows`, `MaxShape`, `LastHour`, `MaxTime` bound counters and clocks
that the code does not bound; a cache that forgets at once (`Lifetime = 0`, `CacheDuration = 0`) still
has answers that arrive late, which is what the properties are about.  `SYMMETRY`
permutes handlers, ids and columns; the model values are shared by the parts, so
that one permutation acts on all of them.  One name for joinable views lets one be made, and two
handlers grant and revoke the access of its owner while it is made, listed or its sources deleted; with two
names and one handler TLC found the same (1.3 million states, which is why the run has one name), and the theorems have any number.
With two keyword jobs one waits for the other, and they come to wait for each other: a job with two keywords
holds a story and comes back to the datasets, where one was added that the other now holds.  Postgres then ends one of
them (`Rollback`).  `CHECK_DEADLOCK` is off because clocks and ids run out.

`OneAccessInForce` is checked with one handler at a time: two direct grants of the
same access at the same time do leave two rows, because the lookup is outside the
transaction (`postgres_access.go:244`), and so do two spellings and an approval
of somebody who already has access.  That is why the other properties must
hold with duplicates, which `access_race` and `access_requests` check.  `OneInForceSerially`
proves that there is no fourth way.

**Finding** (`access_sensitive`).  `service_access.go:210` and `:359` refuse to give
all users access to a dataset with personal data.  `CreateDataset` grants all users
without that check, and `UpdateDataset` makes a dataset sensitive that all users
already read.

**Finding** (`metabase_dragons`).  `addRestrictedDatasetMapping` takes a database id to mean that
collection and group exist ("here be dragons", `service_metabase.go:158-160`).  A database
made for all users has neither; mapped again once access of all users has ended, it gets to
the lookup of a group whose id is nil (line 233).

**Finding** (`missing_tables`).  `service_bigquery.go:121` removes a dataset whose table has been missing for a
week.  The client turns the 404 of BigQuery into an `ErrNotExist` of its own (`bq.go:481`), and
`handleSyncError` acts on a `*googleapi.Error` only: nothing is ever marked as missing.

The properties of `MetabaseMapping` are claimed of a single mapper.  Every pod has one, and only
the tick asks for leadership, not the queue: with two mappers TLC finds two databases
(30 steps, no failure involved), synced rows without a database, and a row whose database
the other mapper has removed.  Nothing in the repository promises otherwise, so these are
hazards without a property, and not findings.

One database would do for the models if the code is right; there are two so that it can be
wrong.  Ids that nobody holds are used again, so that attempts are not bounded.
`Queued` and `Revokers` bound the environment: work to remove a dataset is left to the
tick, which has it done in the same states.

What TLC found on the way, and the properties now excuse, is as telling as what holds:

* a removal forgets the row while a database whose creation timed out is still there; the
  next mapping adopts it, together with an account that may be gone (`"orphan"`);
* a database is opened, its group deleted, and the row not updated: restricted again, each
  attempt fails on the group that is gone (`Mappable`, second line);
* a soft deletion that started on one row ends on the row that replaced it, before it has
  a database: no attempt ever sees that row again (`Mappable`, third line);
* a row that an attempt to open left with collection 0 counts as an open one for good
  (`Mappable`, first line).

* of two sources in one BigQuery dataset only the later gets a view that can be
  queried (`ListedIsUsable`);
* a revocation takes the owner out of his joinable views, which the portal lists all the same; approving a
  new request does not let him in again, a direct grant does (`ListedIsUsable`);
* revoking any row of his locks him out, though another may be active, or though the one that is revoked had been
  closed before; an expiry takes him out of no view, since the ensurer's clean-up is switched off (`ensurer.go:105-108`), and a
  revocation of his group's access neither: it looks for views whose owner is the group;
* a revocation does not find a view that is being made, as its row comes last, and the view is then granted
  to somebody whose access is gone (`RevokedAreOut`);
* a subject with two active accesses to one dataset misleads the count that decides who may
  join (`ViewersHadAccess`);
* a second dataset of a table, or one whose creation is refused later on, rewrites the
  view that the first shows (`HiddenColumnsAreHidden`);
* approving a request never adds to the group in Metabase, a revocation leaves the group before anybody
  checks that the caller may revoke, and an ensurer that fails in Metabase does not come back
  (`GrantedAreMembers`, `MembersHaveAccess`);
* the second attempt at a database finds the first, whose key it has just deleted
  (`RecordedKeyWorks`);
* paging by offset skips a team when another leaves, and an error of the console reads as the last
  page (`SteadyTeamsAreListed`);
* an answer from before may be stored after one that came later, and a cache entry is as young as
  its storing, not its question (`GroupsAreCurrent`, `StoredAreaIsRecent`).

### Fairness

`access_liveness` uses `FairSpec`.  A handler that has started makes its next call or
fails (goroutines are scheduled, HTTP calls end): weak fairness of `HandlerSteps`.
`time.NewTicker` fires again and again: weak fairness of `EnsurerTick`.  A call that an
ensurer tries again in pass after pass succeeds in the end, and its pod is not
killed each time between the same two calls: strong fairness of `EnsurerIam` and
`EnsurerStore` per row.  The ensurer has no other defence against failures
than the next pass, so nothing weaker would do; nothing is assumed of handlers
succeeding, of users, or of time passing.

`metabase_liveness` assumes that a mapper does not sleep: weak fairness of its next step, its
failing or its tick (calls end at the deadline of the mapping, `metabase_mapper.go:114`).  An attempt has
a dozen calls and must succeed as a whole from the last stored id on, so the
properties have a premise of their own, `Calm`: from some time on, attempts end early only
where an answer makes them, and no database takes longer than `waitForDatabase` waits.

## 4. Theorems

Every invariant and every action property that a passing run checks is also a theorem, for all values
of the constants.  They rest on the named assumptions in the modules, which are of three
kinds:

* model values (`None`, `NoStory`, `NoKey`, ...) are no rows, records or ids: they stand for
  NULL, a missing row or an empty variable;
* sets of sources, subjects and teams are finite where something is counted, and what the code sorts or pages by
  is numbered: tables are finite, and the order is that of their keys;
* `Lower` is idempotent and fixes the all-users group; pods and callers are what they say; nobody
  is one of their own groups.

The form of the argument is always the same.  The properties are seldom inductive: what a handler holds between two
calls must be tied to what it has read or changed before.  Lemmas first describe the steps once, by what they
may do to each variable (`HandlersMove`, `WorksKept`, `StoryMoves`, ...);
each conjunct of the invariant then needs a few of them.

### AccessGrantsProofs

* `TypeCorrect`, `Invariant`, `IamAccounted`, `AccessBacked`, `ApprovalIsAtomic`:
  `Spec => []...` of `TypeOK`, `IInv`, `IamIsAccountedFor`, `AccessIsBacked`,
  `ApprovedMeansAccess`.
* `ClosesExpired`: `Spec => EnsurerClosesExpired`.
* `RowsAreKept`: no step rewrites the dataset, subject or expiry of a row, or reopens one.
* `OneInForceSerially`: `OneAtATime => (Spec => []OneAccessInForce)`.

`IInv` adds to the properties `HoldersMatchRows` (what handlers and ensurers hold are existing rows of the
dataset and subject they work on, and what an ensurer holds has expired),
`DatasetsKnown` (nothing refers to a dataset that was never registered, so a new
dataset starts with no members) and `GrantsAreBacked` (what a handler has granted
stays in IAM until somebody who revokes a row takes it out).
For `IamIsAccountedFor` the core is `StandingKept`: a row that stands for a member is
closed only by somebody who has just taken the member out of IAM (`NewlyDoomed`), or
by the renewal that replaces it in the same transaction.

`OneAtATime` says that there is one handler, that there are no requests, and that everybody has one spelling: without any one of the
three TLC finds two accesses in force.  Revocations and any number of ensurers are as free
as ever.  Between lookup and transaction rows can only be closed, so what the
grant has found is still the only access that can be in force when it replaces it (`SerialInv`).

### IamPolicyProofs

* `Invariant` (`Spec => []IInv`), `HoldersSeeDatasets` (`Spec => []HolderSeesDataset`).
* `Refinement`: `Spec => ChangesAreAtomic`.  A write is the abstract change because what its
  client has read is what is there (`SeenIsCurrent`): an etag that is still good means that
  nobody has written since.

### MetabaseMappingProofs

* `TypeCorrect`: `Spec => []TypeOK`, for any number of mappers.
* For one mapper (`OneMapper`): `Invariant`, `SyncedNamesDatabase`, `OneDatabaseEver`,
  `RemovalLeavesNothing`, `DatabaseStands`, `SyncedCanBeQueried`, which are `MapperInv`, `SyncedIsCreated`,
  `OneDatabase`, `RemovalIsComplete`, `WorksInv`, `SyncedWorks`.

`RemovalIsComplete` speaks of the step that deletes the row, and `OneDatabase` of the step that
creates a database: each must know what the attempt did calls ago.  `TypeInv` says of every step which path it
is on and what the mapper then holds (`Fits`); `RowInv`, that there is one database at most, the one
that the row names if it names any; `RowAgrees`, that what a mapper has seen of the row and of the
databases still holds; and `Taken`, that a removal works on what the row names and has taken away what its
step comes after.  A second mapper breaks `RowAgrees` at once, which is where `OneMapper` is needed.
`SyncedWorks` needs the history of a whole attempt.  `WorksInv` puts it into the present: until a removal begins, the database that
the row names is there, and the account of every database, and of one that is about to be
made, may read the table, but for revocations.

### CatalogueProofs

* `CatalogueTypeCorrect`; `OwnersStay` (`OwnerNeverChanges`), `OwnersAlone`
  (`OnlyOwnersChangeDatasets`).  Products never
  change hands, so what a handler has read of an owner can become void, but not wrong
  (`ReadsStayRight`); when it stores, the group of the dataset and that of the product it
  moves to are the group that it compared (`OwnersInv`, `StepRight`).
* `ColumnsStayHidden` (`[]HiddenColumnsAreHidden`).  Whoever rewrote a view last is at one of the few steps before its
  rows are stored, and the view hides what it is about to store (`AuthorAtWork`), or is a
  dataset whose row lists no more than the view hides (`AuthorDone`).
* `KeywordsInvariant`, `RetiredStaysGone` (`[]RetiredIsGone`).  Row locks keep what two
  transactions have written apart (`HeldOnce`).  What a transaction saw at its start loses a retired
  keyword by a statement that ran or by one that is to come, and gets none back but those given
  (`JobRight`).

### UpkeepProofs

* `SyncInvariant`, `SyncShowsFresh` (`[]ShownIsFresh`).  When a sync without company
  writes, no other holds anything; those that set out later read what is at least as new
  (`FreshIsBehind`).
* `TeamsInvariant`, `StoredAreasAreRecent` (`StoredAreaIsRecent`).  An answer is true of the hour it was asked for in, an
  entry of the cache of the hour it was stored in unless the two differ (`EntryRight`), so that a
  pass gathers nothing older than its start and the lifetime of the cache (`PassRight`).

### PublishingProofs

* `StoriesInvariant`, `UploadsAreShown` (`[]StoryShowsUploads`), `DeletedStaysUnserved`
  (`[]DeletedIsNotServed`).  A call that nobody has overlapped knows what the folder holds, file by file
  (`AloneRight`); a folder of which something is promised is in the hands of one such call
  at most.
* `JoinablesInvariant`, `StandingInvariant`, `ListedCanBeQueried` (`[]ListedIsUsable`), `RevokedStayOut`
  (`[]RevokedAreOut`), `DeletedShows` (`[]DeletedIsShown`), `ViewersWereEntitled` (`[]ViewersHadAccess`).  There
  are two invariants.  `JoinablesInv` is about views: a maker's views, salts and authorisations are never
  taken away, so it is enough to say what there is at each step (`MakerMade`), that each source was there
  when it was looked at (`MakerKnows`) and that the user could read it (`MakerMay`); the row, which comes last, takes
  all that over (`RowMade`).  `StandingRight` is about readers, who are taken away.  Only a revocation of the
  same user and source does it: so who is in stays in until one sets out (`InStays`); a revocation that nobody has crossed has
  in its list every view that the user may still read (`Pending`), and who is out has no maker and no grant at work
  that could bring him back (`OutStays`).  What a handler does to one user and source is none of another's
  business (`ElsewhereStands`).  The code compares a count of accesses with one of
  subjects; if no subject has two, there are as many rows as holders (`RowsAreHolders`), and so
  equal counts mean that the user's subjects are among the holders.
* `PublishingTypeCorrect`, `PartsTogetherAreSound`, `PublishingIsSound`: the composition.

### MetabaseProofs

* `AccountsTypeCorrect`, `BindingsStay` (`[]BindingsAreKept`): a mapper whose etag is still good
  has read the policy that is there, so what it writes back drops nobody's binding but its own
  (`EtagIsCurrent`).
* `RecordedKeysWork` (`[]RecordedKeyWorks`).  Until a second attempt begins, one mapper at most is at an
  account, and the key in its hands, or in the database it has made, is one of the account's (`KeyInv`).
* `MembersInvariant`, `NoStrangers` (`[]MembersHaveAccess`), `OnlyTheEnsurerLags`, `GrantsShow`
  (`[]GrantedAreMembers`).  What the proof shows is stronger than what the run checks: a member without access is in
  the hands of an ensurer, or left by a call that failed (`StandingMembers`); a handler that
  revokes has taken the member out before it gets to the row (`Withdrawn`).  Who was told to be
  in the group is on nobody's list (`PromisesKept`).
* `CollectionsTypeCorrect`, `NamesAreTaggedOnce` (`[]TaggedOnce`): no pass holds a name with a second tag, and
  it writes, whole, a name that it read without one (`CollectionsInv`).

### AdmissionProofs

* `SessionsInvariant`, `GroupsStay` (`[]GroupsAreCurrent`).  An entry of the cache is no longer good than the
  duration of the cache from now, or from when the user left, unless its answer came late (`CacheIsYoung`).
* `TokensInvariant`, `TokensOutliveRefreshes` (`[]TokensSurvive`), for any number of leaders
  at a time: the trigger gives away fresh tokens only, so tokens of two teams never meet (`Issued`).
* `SteadyTeamsStay` (`[]SteadyTeamsAreListed`), for pages of any length.  A pass has found every team that comes below its
  offset by now: teams that join push others to later pages only (`PagesInv`), and
  counting gives that an empty page is past them all.
* `AdmissionTypeCorrect`, `AdmissionPartsTogether`, `AdmissionIsSound`: the composition.

### The composition

In `Publishing` and `Admission` one part moves at a time, which is what TLC can check.  To each part, a
behaviour of the composition is a behaviour of its own, with pauses; that is how the composition is written
(the lemmas `PartsKeepToThemselves`, `AdmissionPartsKeepToThemselves`), and says nothing of the code.  But the
parts share no variable, and each specification allows the steps that change none of its own.  So the theorem
is more general than the run: whatever behaviour satisfies the specifications of all
parts, however their steps interleave, has all their properties (`PartsTogetherAreSound`,
`AdmissionPartsTogether`).

### Only model-checked

* Liveness: `ExpiredIsRevoked`, `UncoveredLosesIam`, `UnmappedIsRemoved`, `MappedIsSynced`.  They follow from
  fairness, which speaks of `ENABLED`, and that is beyond the prover.
* The three findings, whose runs end in a counterexample.
* With two mappers, everything but the types of `MetabaseMapping`: it does not hold.

## 5. Not modelled, and the plan

What `PROJECT.json` marks `not_modelled`: read-only services (search, users), operations of a
single statement behind one check (insight products, Polly), notices (Slack), configuration, wiring, wording,
transport, and generated code beyond the queries that the modules model.  Pure I/O formats and
names are abstracted to values everywhere.

* *Table visibility* in Metabase: `SyncTableVisibility` formats a pointer to the id of the
  database (`service_metabase.go:816`), so that it never reaches a table.
* The clean-up of joinable and pseudonymised views by the ensurer is switched off in the
  code (`ensurer.go:105`); the watcher of service accounts is started by no program.
* In `AccessGrants` the Metabase calls of the handlers (they are in `MetabaseMembers`), their loops over joinable
  views (in `JoinableViews`), the owners of service account
  accesses, Polly and Slack are left out; none of them changes the rows or IAM.
* In `MetabaseMapping` the queue is a set without a bound; more than one mapper is allowed by the
  actions, and by the theorem on types, but the other properties are claimed of one.

Plan, in order of importance:

1. `MetabaseMapping`, continued: an abstract specification (a dataset in Metabase is absent,
   open, restricted or soft-deleted) that it implements; what can be said of two mappers.
2. `Stories` against an abstract folder that changes in one step when nothing fails.
3. The bounded queue of mapping work, with the handlers that block on it.
4. Liveness of the syncs: that a schema, a team and a tag get there in the end.
