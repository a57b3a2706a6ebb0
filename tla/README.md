# TAMS on Kubernetes: specifications, model checking and proofs

This directory holds TLA+ specifications of the two programs of this repository
whose correctness depends on what runs beside them: the TAMS service (`service/`,
TypeScript) and the controller that deploys it (`k8s-controller/`, Go). The
specifications are written from the code and checked with TLC on small instances; what
matters most of the flow routes, the source routes, media storage, the startup of the
service, the listing, the stored documents and the controller is proved with TLAPS for all
instances: every safety property a run checks, and holds.

## The system

Users write `Store` resources. The **controller** turns each Store into a ConfigMap
(`config.json`) and a Deployment; the pods of the Deployment run the **service**,
which reads `config.json` at startup and serves the TAMS API over DynamoDB and S3.
Several replicas of the service share the tables and nothing else: no request of
one replica knows of a request of another.

| Component | State | Operations | What makes it hard | Status |
|---|---|---|---|---|
| Flow routes (`routes/flows*.ts`) over the flow repository (`repository/dynamodb/flows.ts`) | the flow table | PUT of a flow; PUT and DELETE of its label, description, bit rates, collection and tags; PUT of read_only; lookups | get, check and put are three steps of many requests; reads may lag; the SDK repeats writes | `FlowStore`, `FlowApi` |
| Store controller (`pkg/controller/*.go`, `main.go`) | informer caches, work queue; in the cluster: Stores, ConfigMaps, Deployments | event handlers, workers, syncHandler and its calls | late caches, conflicts, lost errors, deletion and re-creation, restarts | `StoreController` |
| Media storage (`routes/flows.mediaStorage.ts`) | the media object table | POST of new objects | looks the names up, then writes records, all at once; failures half way; writes that land late | `MediaStorage` |
| Sources (`routes/sources*.ts`) | the source table; in memory none, ever | edits and lookups | overlapping edits write whole sources; writes that land late | `SourceStore` |
| Listing (`listFlows`, `listSources`) | none | pages of GET /flows and GET /sources | the table changes between pages; Limit before the filter; tokens | `Catalogue` |
| Adapters, records, validators | none | body to flow to record and back | a field that one of four descriptions treats differently | `Documents`, `Catalogue` |
| Configuration (`configParser/`, `BackendManager`) | none | arguments over environment over file; validation; default backend | what the controller writes must be what the service accepts | `Startup` |
| Tables (`dynamodb/client.ts`, `utils/registerInfra.ts`, `index.ts`) | the tables | describe, then create, five times | replicas that start together, die half way and come back | `Startup` |
| Service information (`routes/service.ts`) | one item | POST /service | needs a usable table | `Startup` |
| Flow delete requests, DI container, logger, S3 calls, generated clients | little or none | | | not modelled |

`PROJECT.json` lists these parts with their sources, and under `hazards` the places
where the code is exposed to something a test would hardly reach.

## Modules

    FlowData            flows, requests, the read-only predicates
      FlowApi           the promise: one request, one instant
      FlowStore         the code: fetch, check, store; implements FlowApi
        FlowStoreProofs   theorems
        MCFlowSerial      one request at a time, of every kind
        MCFlowRace        two overlapping requests on one flow, and a write that is late
    MediaStorage        POST of new media objects
      MediaStorageProofs  theorems
      MCMediaStorage      two overlapping requests, named and generated objects
    SourceStore         edits and lookups of sources
      SourceStoreProofs   theorems
      MCSources           two overlapping requests on one source
    Documents           field tables, adapters, records, validators (no state)
      DocumentsProofs     the tables are one-to-one; what the adapters preserve
      Catalogue         stored documents, filters, pages, and a client that walks
        CatalogueProofs     theorems about walks
        FlowDocumentsProofs theorems about the documents, over both modules of proofs
        MCCatalogue       seven small catalogues
    Startup             config.json, the parser, tables, replicas, the kubelet
      StartupProofs       theorems
      MCStartup           two replicas, four Stores, three environments
    StoreController     users, API server, informers, queue, workers
      StoreControllerProofs  theorems
      MCStore             one Store, several configurations

### Flow routes: `FlowStore`

A *handler* is a request in flight, on any replica. It goes through `pc`:

    idle -Receive-> get -GetFlowById-> check -a handler of routes/-> put -PutItem, Acknowledge-> reply -Answer-> idle

Each stage lasts from one `await` to the next; between two stages any other handler
may move. `table` is what DynamoDB has accepted, `lagging` the copy an eventually
consistent `GetItem` may be answered from (the code never sets `ConsistentRead`).
`PutItem` carries the whole flow and no condition, and may be repeated as long as it
is not acknowledged, as the SDK does after a timeout. `CallFails` is a call that
fails for good, possibly after it took effect (500), `Crash` a replica that stops. In both
cases a `PutItem` that was not acknowledged may still be on its way: it becomes one of the
`strays`, which land at any later time (`StrayLands`), more than once, until they are
lost (`StrayEnds`).

The routes of label, description, bit rates, flow collection and tags share the
operator `Edit`, which is the body of each of them; one action per route gives it
the attribute and the value. `PutFlow` and `PutFlowReadOnly` have bodies of their own.
The `read_only` of a flow has three values because the code tells them apart: a body
that leaves it out may not replace a locked flow, one with `false` may, and
`PUT .../read_only` writes `true` or leaves it out. Every write sets `metadataUpdated` from the
clock of its replica, so that the second lock of a locked flow is a change that can be seen.

What is left out: `segmentDuration` and `generation` (they travel
with the flow; `Catalogue` has them), the wording of answers and the validators of requests (the
workload holds valid ones). The lookup routes are one action, `GetFlow`, in which a tag may be
missing (404), and the tags as a whole (500, from the validator of the response).

`FlowApi` says what a client may rely on where requests do not overlap: each takes
effect at one instant; a locked flow refuses edits and replacements; the creation
date is fixed once; an edit changes its attribute alone. In the refinement mapping a
request is *pending* until its `PutItem` takes effect or its answer is known.

### Media storage: `MediaStorage`

A handler of `POST /flows/:flowId/storage` goes

    idle -Receive-> exists -LookUp*, ExistenceKnown-> flow -GetFlowById-> put -PutMediaObject*, Created-> reply

and skips `exists` when the body names no objects. `LookUp` and `PutMediaObject` are one
call of a `Promise.all` each: they take effect in any order, `done` holds those that have.
`clash` remembers whether any lookup has found its name. `GetFlowById` is the fetch of the
flow with the three refusals after it (`Refusal`: 404, 403, 400 without a container), the
choice of identifiers (`Chosen`: the names of the body, or as many `Fresh` ones as `limit`
says) and the signing of the URLs; a fractional `limit`, which the validator lets
pass, makes `new Array` throw. The first call of a batch that fails answers 500
(`CallFails`) while the others are still under way: they become `strays` (`Stray`), which
land (`StrayLands`), as do the calls of a replica that stops (`Crash`), or are lost
(`StrayEnds`). Both tables have a copy that may lag.

The flow itself changes under the handler (`ChangeFlow`, external: what `FlowStore` does):
it is absent, open, without a container (`bare`), or locked. What is left out: `expiresAt`,
which nothing reads, the URLs, and `storage_id`s that are no UUID. `DefaultLimit` stands
for the 50 of the code, and the workload for the `limit`s between.

### Sources: `SourceStore`

A handler goes through the stages of `FlowStore`, without any lock: it fetches the source,
changes one attribute of its copy (`local`) and stores the whole. Failing calls, crashes and
late writes are as there. `SourceToRecord` and `RecordToSource` drop the part of a
date below the second. Labels and descriptions are deleted even when unset (204), tags
are not (404); `GetSource` tells a missing label (404) from a missing description (200).
No route creates a source: `Initial` is what other programs have stored in the table.

The repository is the one of DynamoDB. `registerInfra.ts:73-75` constructs the one in memory
empty and nothing adds to it, so there every route of a source answers 404 and the listing
is empty.

### Documents and listing: `Documents`, `Catalogue`

A document is a function from *paths* (sequences of field names) to values, and each side of
an adapter is a table of pairs of paths. `Documents` has the tables for the five formats and
for sources, the adapters (`FromApi`, `ToApi`), the records (`ToRecord` keeps dates to the
second; `RecordToFlow` picks known fields but takes the essence parameters whole) and
the validators (`FlowValid`, `SourceValid`: which fields are required, which are known;
whether the value of one passes its rule is a single value, `Malformed`, that does not).
`Malformed` is the empty tuple and so is `Absent`, the document without any field: no value and no
stored document is either.
The one field not read from its namesake is in `VideoFlowRead`: `flow.adapter.ts:95` reads
`pixelAspectRatio` from `aspect_ratio`.

`Catalogue` stores documents with the body of `putFlow` (`Rewritten`: creation date, segment
duration and generation come from the flow found) and has one client that walks the pages of a
listing: `StartWalk` gives it a query and maybe a token no page has given, `NextPage` asks for
a page, `Close` ends the walk. Over DynamoDB that token may be any identifier (a token is its
key, encoded), and the walk is then about what lies behind it; `BadToken` names nothing.
It is refused, but over the table of sources, where any JSON is taken for a key, it may
also be a 500 (`MayPass`, `ScanRejected`). The two repositories differ as their code does: `Scan` evaluates
at most `limit` items past the start key, fewer where they are large, and filters
them afterwards, over a view in which any item may lag; its order is DynamoDB's (`HashOrder`).
`MemoryPage` filters first and refuses a token whose item is no longer among the matches. A page
is the set it lists and the next token: `After` is what a token leaves, `UpTo` what an item and
those before it are, and `walk.seen` counts how often an item has been shown. The
filters differ too (`FlowAttribute`, `SourceTagMatches`). The validator of the flow listing takes a
`limit` that is no whole number, that of the sources does not (`half`, `ListQueryValid`): DynamoDB
rejects it, in memory only a page that is the last can be given (`ListRejected`). A page with a
document the response validator refuses, or a tag key that is no legal placeholder, is a 500
(`failed`). What is left out: overlapping PUTs (`FlowStore`), timerange filters (not
implemented), expiry of tokens (there is none), the size of a page in bytes but for its effect.

### Startup: `Startup`

A replica goes `exited -Start-> reading -ReadConfig-> describing <-> creating -> serving`.
`ConfigMap` is what the controller leaves of a Store's database and backends; `Parse` puts the
arguments over the environment over that file, with the differences of the code: an argument
counts even when empty, a variable or a field of the file only when it is not;
backends come from the first layer that has a list, a `TAMS_BACKENDS` that is JSON but no
array gives none. `Accepted` is the Joi schema and `validateDefault`; `DefaultBackend` and
`BackendById` are the maps of `BackendManager`, in which the last entry wins.
`DescribeTable` may miss a table that is still being created; `CreateTable` on one that exists
ends the process (`ResourceInUseException` is not caught). With the memory database a replica
serves at once, from repositories of its own (`memory`). `EditStore` is a user whose edit
reaches the file; a process sees it when it next starts. `UpdateService` is POST /service.

What is left out: region, endpoint, log level and port; what makes a replica's call
fail (`Exit` does, `MaxFaults` times, at any point); the requests other than POST /service.

### Controller: `StoreController`

`etcd` is the API server, per name one Store, ConfigMap and Deployment. A write sends
the new object over `watch` to the informer of its kind; `Deliver` moves it to `cache`
and runs the event handler, which may put the name on the queue (`dirty`). An
informer that is `MaxLag` changes behind lists anew, and misses what lay between. A
worker `Take`s a name no other worker has, copies the cached Store, and runs
`syncHandler`, one API call per action: `SyncConfigMap`, `CheckSecretExistence`,
`SyncDeployment`, `UpdateStoreStatus`. Each call succeeds, is refused (conflict,
already exists, not found), or fails with or without having taken effect (`Fault`).
An error puts the name into `retry`, from where `RetryDue` puts it back.

Around it: users who create, edit and delete Stores, toggle a Secret, scale the
Deployment or meddle with the ConfigMap; the garbage collector, which removes objects
whose owner is gone; the Deployment controller and the pods (`Rollout`), which keep
the `config.json` they were started with until the pod template changes.
`Restart` is a controller that stops at any point and a new one that has listed
everything.

What is left out: the order of the queue and its rate limits (`dirty` and `retry` are
sets), labels, image, environment and service account of the objects (they change only with the
controller's own release), events for users, a second controller that overlaps the
first during an update of the controller itself, and a call of a dead controller that lands late. The
read of a cache and the call made from it are one action; a cache that is late already
covers the time between them. `config` is one value here; what is in it is the subject
of `Startup`, whose `file` is the `config.json` a pod mounts.

## Runs

| Run | What it asks | Bounds | Result |
|---|---|---|---|
| `flow_serial` | do the routes implement `FlowApi`, is every request answered, what does a second lock change? | 1 handler, 1 flow, all attributes, 1 tag, 2 values, 2 dates; strong reads | holds |
| `flow_race` | what survives two overlapping requests over a lagging copy, and a late write? | 2 handlers, 1 flow, 1 tag, 1 value, 1 date, 5 requests each, 1 stray | holds |
| `flow_read_only` | is a read-only flow changed only by an unlock? | the same, strong reads, no stray | **violated** |
| `media_storage` | what survives overlapping, failing and late writes of media objects? | 2 handlers, 1 flow, 2 names, 1 generated, 2 backends, 1 stray, lagging copies | holds |
| `sources` | which edits of a source can be lost, and what is never lost? | 2 handlers, 1 source, 2 tags, label, description, 1 value, lagging copy, 1 stray | holds |
| `flow_catalogue` | does every stored flow come back as it was sent, and what does a walk see? | 7 scenarios: 5 formats full and minimal; 2 to 3 items, pages of 1 and 2 and fractional limits, 1 lagging item | holds |
| `startup` | do replicas come to serve, and do tables and backends fit? | 2 replicas, 4 Stores, 3 environments, 1 edit, 1 fault | holds |
| `store_serves` | does the Store of the README make a service? | 2 replicas, that Store, no environment | **violated** |
| `store_safety` | is the ConfigMap there first, and never set back? | 1 name, 2 workers, lag 2, 3 changes, 1 fault | holds |
| `store_events` | do events and retries alone lead to convergence? | 1 worker, lag 1, 3 changes, 1 restart | holds |
| `store_faults` | does the resync make good a lost error and a foreign edit? | 1 worker, lag 1, 3 changes, 1 fault | holds |
| `store_lost_error` | does syncConfigMap ensure the ConfigMap? | 2 changes, 1 fault | **violated** |

One flow, or source, is enough: handlers of different ones share no state (of media
objects they share the names, and the record says which flow has one), so two are two
independent systems. Two handlers are the least that overlap; `SealHolds`, both `SettledStays`,
`OnlyPutFlowCreates`, `RecordFinal`, `RetryRefused` and `LockHolds` are proved for any number, of
strays too. With one date in `flow_race` a second lock is not seen there; `flow_serial` has two.
The properties of `flow_catalogue` are proved for any items, page sizes, lag, bodies and tags.
The same holds of the names, workers, lag and faults of the controller's safety properties, but
for `ConfigMapEnsured`.
Two names show a batch that is half done and half failed. Three items give a walk a first, a
middle and a last page, and an item that moves out of the match between two of them; one item
at a time may lag, in any combination with what was stored since. The
documents of `flow_catalogue` have every field of their format, and only the required ones.
Two replicas race for a table in every order; one fault kills one between any two steps.
Three changes allow a Store to be created, deleted and made again, or edited twice; a lag
of two lets a cache hold a Store two generations old. Names share only the queue, whose
exclusion is per name, so one name with two workers shows what the queue is needed for.
`CHECK_DEADLOCK FALSE` is set where the system may rightly stop: nothing to do once
the bounds on changes are reached, or once a refused request waits for nothing.
`sources` and `startup` are checked for deadlock as well.

What the properties of the newer runs say, where their names do not:

* `SealHolds` and `SettledStays` (flows), `RecordFinal` and `LockHolds` (media storage) and
  `SettledStays` (sources) say what checks that are not atomic do achieve. A record, a lock
  or a field is *settled* when the copies agree and no request or stray under way may still
  overwrite it; then it stays so, and stays what it is, until a write that sets it lands. What
  is not settled may be lost: two requests for one name can both be answered 201, a flow locked
  in between still gets objects, the later of two edits undoes the earlier. A second lock of a
  sealed flow is stored: it moves `metadataUpdated` and nothing else.
* `CreatedRecorded`: a client told 201 finds every object recorded, and the generated ones
  recorded as its own.
* `RetryRefused`: a batch that has failed half way leaves records behind, and whoever asks for
  one of those names again never gets an upload URL: the answer is 400, or 500.
* `PutBackStable`: a flow put back as GET has shown it is the same flow, but for the date.
* `WalkComplete`, `SeenOnce`, `RefusedByChange`, `WalkAdvances`: what matched throughout a walk is
  shown, once; a walk is refused only for what happened to the item its token names, and only
  in memory; every token is further on, so that empty pages do not make a walk endless.
* `TablesReady`: whoever serves has all its tables, with the right keys. Where two roles are given
  one table name the code does not notice, and the key is that of whichever came
  first: `SharedName` excepts those.
* `Recovers`: once the file stays acceptable every replica comes to serve. A lost race for
  a table, a kill half way and an earlier bad configuration are all made good by restarts.

**Fairness.** In `FlowStore`: Node resumes a handler whose await is over, DynamoDB
answers or the SDK gives up, a lagging copy catches up. Requests, failures and crashes
owe nothing. In `Startup`: the kubelet restarts a container that exited and the process goes
on (`WF` of each replica's steps), and DynamoDB makes a new table active; edits, kills and failed
calls owe nothing and are bounded. In `StoreController`: the work on a name goes on (a goroutine takes what
is queued, each call returns, a back-off ends), informers receive their changes, the
garbage collector and the Deployment controller work. Users, faults and restarts owe
nothing; they are bounded, so each run ends in a calm in which convergence is asked
for. `ResyncSpec` adds the 30-second resync of `main.go`, which `store_faults`
needs: `store_events` holds without it. `MediaStorage`, `SourceStore` and `Catalogue` state
no fairness: their properties are about what may happen.

### What the violated runs show

* **Read-only is not a guard against overlapping requests** (`flow_read_only`). The check
  and the `PutItem` are separate steps; a `PUT` that read the flow before it was
  locked overwrites the lock. `SealHolds` states what the checks do achieve: once no
  straggler is left, a locked flow stays as it is, but for the date of a second lock, until an
  unlock is stored.
* **syncConfigMap loses the error of `Update`** (`store_lost_error`, `configmap.go:135`):
  assigned to a variable of the inner block. The resync repairs it 30 seconds later.
* **The Store of the README never serves** (`store_serves`): the controller's type of the database
  (`database.go:15-22`) knows three of the five table names and drops the others, the
  validator of the service requires all five (`validator.ts:4-13`). Every pod exits over its
  configuration and is restarted, unless its environment names the two missing tables.

### Seen while modelling, without a run of their own

* `configmap.go:98-109`: the outcome of `Create` is assigned to a variable of the inner
  block and the NotFound of the lister is returned, so every new ConfigMap costs one
  back-off (`CreateConfigMap` models it).
* Pods keep an old configuration: `config.json` is mounted by subPath, read at startup,
  and not part of the pod template (`Rollout`, `running`).
* Removed replicas are not reset: `isDeploymentUpToDate` skips the comparison, although an
  Update for another reason resets them to 1.
* `dynamodb/flows.ts:183` filters formats by an attribute `flowFormat` that no record has
  (`FlowAttribute`): over DynamoDB the filter finds nothing.
* `flow.adapter.ts:95` stores `aspect_ratio` as the pixel aspect ratio.
* `dynamodb/flows.ts:204`: a tag key that is no legal placeholder makes the listing fail
  (`ScanRejected`). The listing of sources numbers its placeholders and does not.
* A fractional `limit` passes the validators of media storage and of the flow listing
  (`flows.query.ts:15` lacks the `integer()` of the sources) and ends in a 500.
* GET of the tags of a flow that has none is a 500: the response must be an object (`GetFlow`).
* A page token of the sources that is JSON but no key of the table is a 500, not a 400
  (`source.ts:163-171`).
* Two roles may be given one table name; the second finds a table with the key of the first.

## Proofs

Seven modules are checked by TLAPS, for all values of the constants, under the
assumptions stated in the modules (sentinels are not values, workloads are made
of requests, settings have the shape the parser sees, bounds are numbers).

`FlowStoreProofs`:

* `TypeCorrect`: `Spec => []TypeOK`. `TypeOK` is inductive: besides types it says that a handler
  about to store holds a flow, and one that waits serves a request of its workload.
* `SealCorrect`: `Spec => SealHolds`. Each step moves the table by at most one write that lands,
  of a handler or a stray, copies take over what the table has, and a new write comes from a
  handler that held the flow. The lemma `CheckVerdict` reduces the fourteen handlers to two cases,
  an answer or a flow that `FlowApi` accepts, and `AcceptedLocked` says that what is
  accepted of a locked flow is an unlock, or like the flow itself but for `metadataUpdated`.
* `FieldsSettle`: `Spec => SettledStays`, by the same cases: what is accepted of a flow has
  every field the request does not set.
* `CreationCorrect`: `Spec => OnlyPutFlowCreates`, from the invariant `Grounded`: what the
  lagging copy shows or a handler has read is in the table, which no flow leaves.
* `Refinement`: `StrongReads /\ Partitioned /\ MaxStrays = 0 => (Spec => ApiSpec)`. The invariant
  `Atomic` says that what a handler read is still in the table when it checks and
  when it stores (no other handler is about its flow: lemma `Apart`), and that a flow
  about to be stored for the first time is one `FlowApi` accepts for the flow as it then is.
  It is needed because the step that implements `Execute` is `PutItem`, long after the check.

`MediaStorageProofs`:

* `TypeCorrect`: `TypeOK` is inductive as it stands.
* `Orphanless`: `Spec => []NoOrphan`, from `Grounded`: a flow that a lagging copy shows, that a
  handler is about to write for, or that a stray names, exists; no flow is ever removed.
* `CreatedKept`: `Spec => []CreatedRecorded`, from `Owned`: no two requests hold the same
  generated identifier, no stray has one of a living request, and what a handler counts
  as done is in the table.
* `RetriesRefused`: `Spec => RetryRefused`, since no step takes a record away (`RecordsStay`), so
  that a lookup that is still to find one will, and one that has found it is remembered in `clash`.
* `RecordsFinal`, `LocksHold`: the action properties, by cases of the step: whoever could
  overwrite must have passed its check while the record, or the lock, was already visible.

`SourceStoreProofs`:

* `TypeCorrect`: `TypeOK` is inductive.
* `FieldsStay`: `Spec => FieldsKept`, from `Consistent`: the table, its copy, what each handler
  holds of a source and what each stray carries agree on the fields no route edits and on the
  second of its date.
* `SettledRemains`: `Spec => SettledStays`, also from `Consistent`: the write that takes effect
  carries, of every attribute but its own, what the handler held.

`CatalogueProofs`, under `CatalogueAssumption` (the catalogue is finite, tokens that name
nothing are no identifiers, flows come in by PUT alone, sources are those of DynamoDB, a scenario
is about identifiers there are):

* `TypeCorrect`: `TypeOK` is inductive. It says that the order of a repository holds each item
  once, all identifiers over DynamoDB and those present in memory, and that no copy lags in memory.
* `WalksComplete`, `ShownOnce`, `RefusalsExplained` are parts of one invariant, `Walked`. An item is
  *passed* when it stands at or before the item of the token. `SeenPassed` (what was shown is
  passed), `PassedSeen` (what is passed and matched throughout was shown), `CertainStays`
  (`began \ left` still matches in the table and in its copy) and `TokenGiven` (a token that was
  given is in the order; in memory its item still matches, or is in `left`) are what makes the three
  inductive. The two repositories enter through `SoundPage` alone: a page lists what matches of the
  items that the token has left, up to the next token or to the end (`ScanPageSound`,
  `MemoryPageSound`). An item that is stored anew keeps its place or goes behind all others
  (`PositionAppended`), so no item moves to the other side of a token (`KeptStep`).
* `WalksAdvance`: the action property, from `SoundPage`.
* `LeastNumber` says that a predicate on numbers that holds somewhere has a least place, from the
  well-foundedness of `<`. With it `FinalOfSet` finds the last item of a page and `FirstOfSet` the
  first that a page has left, without induction over a sequence.

`DocumentsProofs` has no theorem of the runs. It shows that every table of names is made of
one-to-one pieces whose paths begin differently (`FieldsRenaming`, `UnderRenaming`,
`AddedRenaming`), for any set of tag names, and from it `FlowNamesTable`: no two fields of a
flow share a name on either side. `FromApiFields`, `ToApiFields` and `RecordToFlowFields` say
what the adapters and the record do with each field. `FlowDocumentsProofs` uses them:

* `FlowsReadable`, `BodiesReturned`, `PutBackHarmless`, from the invariants `Stored` and `Returned`
  (TLC has checked both on the instance of `flow_catalogue`). `Stored` says of each flow and of each
  copy that it is `WellFormed`: its fields are those of its format, none malformed, the dates
  as the table keeps them, the two dates putFlow sets are there, and the two aspect ratios of a
  video are equal or both missing. The last is what makes `PutBackStable` hold although
  `pixelAspectRatio` is read from `aspect_ratio`; without it the property is not inductive.
  `RequiredApart` says that the validator asks for no field that putFlow takes from elsewhere: were one
  of those required of a response, a body without it would be stored and could not be shown.

`StartupProofs`:

* `TypeCorrect` and `BackendsFound` from `Typed` and `Configured`: a replica past the
  reading holds a *sound* configuration, one that names a table for every role and whose
  flagged backend and identifiers are unique; the parser lets no other in.
* `TablesFound`: `Spec => []TablesReady`, from `Made` (the tables before `next` exist) and `Keyed` (a
  table has the key of a role some configuration gives its name to).
* `TablesStay`: `Spec => TablesKept`, from `Grown`, what one step may do to the tables.

`StoreControllerProofs`:

* `TypeCorrect`: `TypeOK` is inductive as it stands. The lemmas `UserWrites`, `ClusterWrites`,
  `SyncWrites` and `Effects` reduce the actions to what they do to the objects: nothing, one
  `Write`, one `Deliver`, or a `Restart`; the proofs below split on those.
* `NoRollbackHolds`: `Spec => NoRollback`, from `Chain`. A cache may be any number of versions late and
  Stores are made anew under one name, so `NoRollback` is not inductive: what is, is that
  for each name the versions written (`applied`), copied by a worker, cached, under way to the
  cache and stored are in this order, none above the `revision` given out, and that
  no two active workers have one name. The exclusion is what the work queue is for; without
  it a worker with an older copy could write last.
* `ConfigMapStaysMounted`: `"meddle" \notin Users => (Spec => []ConfigMapMounted)`, from `Chain` and
  `Mounting`: whatever uid a Deployment, a cached ConfigMap, or a worker past the ConfigMap names,
  if the stored Store has it, a ConfigMap of that Store is stored. A uid that is no longer the
  stored one is never given again. With a user who deletes ConfigMaps it does not hold.
* `DeploymentIsEnsured`: `Spec => DeploymentEnsured`, from `InSync`: what the informer was last
  sent, or has cached when nothing is under way, is what the API server stores.

Only model-checked: liveness (`EveryRequestAnswered`, `Recovers`, `EventuallyConverged`;
fairness is beyond the prover). Three properties do not hold, as their runs show.

## Not modelled

* Flow delete requests: `saveFlowDeleteRequest` has no caller, so the two routes only read
  what other programs have stored. Two latent differences of the repositories (a second save
  of one request is appended in memory; a record is marshalled twice in DynamoDB) have no step
  that would reach them.
* The flow routes over the memory repository, but for PUT in `Catalogue`: that repository
  hands out the flow it keeps, so an edit alters the flow in the step that checks it.
* S3: signing is local computation, `getBucketInformation` a read; `BackendManager.initialize`,
  which would check the buckets, has no caller.
* The DI container (filled once, before any request), the logger, generated code, and code
  without a caller (`createTable` of the repositories).

## Plan

1. `FlowStore` over the memory repository, whose handlers share the flows it keeps, and the
   proof that it implements `FlowApi` without any assumption on overlaps.
2. What a walk is for its client, without pages: an abstract specification of the listing that
   `Catalogue` implements over either repository.
