# Formal models of qb-rest-service

TLA+ models of the QuickBooks Online (QBO) front service in `src/`, checked with
TLC on small instances and, for the results listed under *Proofs*, proved with
TLAPS for every value of the constants.

## The system

One image is deployed twice on Cloud Run. `qb-service` serves the data routes
(`deploy/cloud-run.yaml`: up to ten instances, eighty requests each), `qb-admin`
serves the OAuth routes (`deploy/qb-admin.cloud-run.yaml`: up to four). Both
read and write the one Secret Manager secret that holds the OAuth token pair of
the one QuickBooks connection. FastAPI runs the synchronous handlers in a thread
pool, so the handlers of one process interleave at every call they make; the
`refresh_lock` they share is a `threading.Lock` of that process. Nothing else is
persisted.

| Component | State it keeps | Operations | Hard behaviour | What makes it correct |
|---|---|---|---|---|
| Token lifecycle: `api/client.py`, `auth/oauth.py`, `auth/secret_manager.py`, callback and disconnect of `routes/admin_oauth.py` | the stored token, one lock per process, a token cache per request | load, expiry check, send, refresh on expiry or 401, callback save, disconnect | threads and instances that interleave, failures between Intuit's rotation and the save, crashes | no live grant is lost; a refresh presents a live token; disconnect lasts; every call ends |
| Rate limiter: `api/rate_limit.py` | tokens, last refill, one lock | `try_acquire`, `retry_after_seconds` | concurrent callers, one acquisition but up to three sends, one bucket per process | never more admissions than burst plus rate times time |
| OAuth bootstrap: `auth/oauth_state.py`, `auth/admin_launch.py`, `routes/admin_oauth.py` start and callback | the issued states of one process, signed launch tokens | create, consume, purge; mint, verify | two tabs, replay, expiry, several instances, a state burned before an error | one exchange per started flow; no exchange without a start |
| Invoice writes: `routes/invoices.py` | none here; QBO keeps lines and a SyncToken | create, append, replace, patch, delete, void, update line, delete line | read-modify-write by concurrent callers, lost answers | no lost update; an invoice never loses its last line |
| Item writes: `routes/items.py` | none here; QBO keeps the item and a SyncToken | create, sparse update, deactivate | same, on a sparse body | no lost update; true answers |
| Request pipeline: `QBClient._request`, `errors.py`, `middleware.py`, `request_context.py` | request id and intuit_tid of the context | one bucket token, send, one 429 retry, one 401 retry, error mapping | a retry of a retry, a tid left from an earlier call | bounded sends; the response names the call that failed |
| Listing: `api/pagination.py`, `api/cursors.py`, `routes/_common.py` | none; the cursor is an offset | list, paginate | rows inserted or deleted between pages, limit at its maximum | rows are skipped or repeated only as others move them; the last page is marked |
| Discovery cache: `auth/discovery.py` | the document and its stamp | get | fetches that overlap, failures | a returned document was served less than a TTL before the call; the fallback is not kept |
| Memoized dependencies: `deps.py` | one token store, state store and limiter per process | get | first requests that race | one store (one lock) per process |
| Admin gate: `auth/admin_gate.py`, `deps.require_launch_authorization`, `main.py` | none | refuse to start, allow or deny | combinations of the two gates, the settings and the platform | no admin route open on Cloud Run |
| Request id: `middleware.py`, `request_context.py` | the id in a request's context, the status to log | resolve, stamp, answer an exception, log | an exception before or after the response starts, answers from several layers | every answer carries its id; one true log line |
| File token store: `auth/tokens.py` | a file | load, save, clear | loads and saves that overlap a save which is not atomic | a refresh's save lands; nobody takes it for an empty store |
| Seeding script: `scripts/seed_sandbox.py` | `.seed_state.json` | sort parents first, post, retry, save; rerun | crashes around a save, lost answers, limits, cycles of parents | reruns copy nothing twice that they know of; parents first; it ends |
| Settings, logging, schemas, correction script, deploy files, static pages | - | - | - | - |

How they interact: a data route takes the client from `deps`, the client takes a
bucket token, then a token pair from the store (refreshing it under the lock),
then calls QBO; an error becomes an envelope. `/admin/oauth/start` creates a
state and redirects to Intuit; `/admin/oauth/callback` consumes it, exchanges
the code and saves the pair; `/admin/oauth/disconnect` revokes and clears. Every
call to Intuit's OAuth endpoints asks the discovery cache for them first. Around
all of it are `RequestIDMiddleware` and, inside, `AdminGateMiddleware`.


## Modules

| Module | What it models | State and actions against the code |
|---|---|---|
| `TokenLifecycle` | the token pair, from authorization to disconnect | `store` is the latest secret version; `holder` the `refresh_lock` of each instance; `cached` is `QBClient._tokens`; `grantOf`, `live`, `revoked`, `refused` are Intuit's side. One action per step between two points where another thread or process can run: `Load`..`Unauthorized` are `_ensure_tokens` and `_request`, `AcquireLock`..`SaveFails` are `_refresh_tokens` and `oauth.refresh`, `Authorize`..`CallbackSaveFails` the callback after its state check, `NothingToDisconnect`..`ClearFails` the disconnect. `Crash`, `Expire`, `Withdraw` are the environment |
| `OAuthFlow` | `/start` and `/callback` up to the exchange | `states` is `OAuthStateStore._states` per store, `memo` the `lru_cache` of each process, `uses` the store a request was given, `now` its clock reading. `Hit`, `Miss`, `Build` are `lru_cache`; `Create` and `Consume` the critical sections of the store; `Stop` is Cloud Run |
| `QBRequest` | `QBClient._request` for one or two requests of a call | `Acquire` takes a bucket token, `Throttled` and `Refused` are the 429 and 401 branches in the order of the code, `Faulted` the other 4xx, `Inconclusive` a 5xx or an unusable 2xx with the write done or not, `Capture` the `intuit_tid` context, `Answer` the envelope |
| `TokenBucket`, `BucketOps` | `rate_limit.TokenBucket` | `Enter`, `ReadClock`, `Refill`, `Admit`/`Deny` are the lines under the lock. Floats become integers: a token is `Unit` units and `Rate` units flow per tick |
| `InvoiceWrites` | the eight write routes of invoices | `invoices` is what QBO holds (status, SyncToken, DocNumber, lines, fields), `read` and `body` are the locals of a handler. Each call reads, prepares its body and posts it; QBO compares the SyncToken |
| `InvoiceLines`, `Picks` | the `Line` array of an invoice; the elements of a list at some of its indexes (`[x for i, x in enumerate(s) if ...]`) | operators only |
| `AtomicInvoices` | what the write routes promise: each write happens at once, on the invoice as it is, or not at all | abstract; `ImplementsAtomic` checks that `InvoiceWrites` implements it under a refinement mapping |
| `ItemCatalogue` | the item routes, and the listing that all entities share | `items` is what QBO holds (SyncToken, name, Active). A write reads and posts as in `InvoiceWrites`, on a sparse body. A walk is a client that follows `next_cursor`; `ServePage` is one `list_entity`, and `left`, `joined`, `stayed` record what moved between its pages |
| `AppEdge` | the startup check, the middlewares, the route groups and the launch gate | `phase` is the process, `at` where a request is, `bound` the id in its context, `holder` the `status_holder`. `Boot` is `create_app`; a request passes the stack in one step (`Forbid`, `NotFound`, `LaunchDenied` or `Admit`), since no await on the way gives way; `Respond`, `Raise`, `InternalError`, `Leave`, `LeaveRaising` are the way out |
| `Discovery` | `get_discovery` | `cache` is the entry of `_cache` for the environment, `lookup` each caller's locals. One action per critical section, one for the fetch between them. A document is the time at which Intuit served it |
| `FileTokenStore` | the token file | `Truncate`, `Write` and `ChmodFails` are the three parts of `save`; `writers` have the file open |
| `ServiceProcess` | one process: extends the three above | `pc`, `hand`, `lock`: where each handler is, the token it holds, the `refresh_lock`. One action per step of a handler of `admin_oauth.py`, `health.py` and the token path of a data request |
| `SeedSandbox` | `scripts/seed_sandbox.py`, run again and again | `file` is the state file, `state` the dict in memory, `sandbox` what QBO holds; `remaining`, `deferred`, `todo`, `tries` are the locals of `_topo_sort`, the loops and `_post_with_retry`. `Create`, `Effect` are the sandbox, `Crash` may strike at every step and inside a save |
| `MC*` | the values of the constants for TLC | |
| `*Proofs` | theorems and their proofs | |

`QBRequest` and `TokenBucket` share `BucketOps`, so the limiter that the pipeline
uses is the one whose concurrency `TokenBucket` settles. `QBRequest` reduces
the token pair to "the bearer token may die at any time", which is what
`TokenLifecycle` details; `TokenLifecycle` starts its callbacks after the
state check, which is what `OAuthFlow` details. `ServiceProcess` composes the
edge, the discovery cache, the file store and the lock: there a token is a
number, what Intuit makes of it is left to `TokenLifecycle`, a data request ends
once it has a token (the rest is `QBRequest`), and a callback's refusals are one
action (`OAuthFlow` tells them apart). What a process does to the cache is
shown to be steps of `Discovery` (`ProcessImplementsDiscovery`).

What is assumed of the outside, from how the code uses it:

- Intuit accepts a refresh token once, refuses dead tokens
  (`deploy/oauth-setup.md:384`), and on a new authorization may keep or
  supersede earlier grants. Whether it honours the revocation of a token that
  was already rotated away is not known; the fault `stale_revoke` lets it.
- QBO bumps an invoice's SyncToken on every write, refuses a stale one, keeps
  DocNumbers unique, adds a subtotal row to the lines it returns, and may answer
  429 at any time.
- It does the same for items, keeps the names of active items unique, and
  answers a query in the order of ids (`list_entity` asks for none); the
  listing's properties count on a stable order.
- What QBO answers with a 4xx, 401 and 429 included, it has not done. What it
  answers with a 5xx, and what is lost or comes back unusable, it may have done:
  `QBRequest`, `InvoiceWrites`, `ItemCatalogue` and `SeedSandbox` all let both
  happen, and no property reads a 502 or a 500 as a refusal.
- Cloud Run routes each request to any instance and stops instances when it
  likes.
- Secret Manager is linearizable: `latest` is the last version added.
- Intuit serves the discovery document as it is when it is asked for. A file that
  is opened for writing is empty at once; a write starts at its beginning.
- The sandbox refuses a second record of the same name; a POST that fails may
  have taken effect.

## Runs

Every run covers every interleaving of its calls; a pass means that TLC visited
all reachable states of the instance.

| Run | Instance | Shows |
|---|---|---|
| `tok_instance` | one instance; either two requests, two disconnects, or a readiness probe with a disconnect and a callback; every fault, and Intuit may honour a stale revocation | types; no refresh presents a dead token; "left intact" is true when said; every call is answered |
| `tok_fleet` | two requests and a disconnect over two instances, every fault, crashes included | the lock discipline; no live grant is stranded; `clear()` wipes nothing live; a disconnect lasts |
| `tok_v_two_instances` (violation) | two requests, one on each instance, no fault | the loser of a refresh race presents a dead token, though `client.py:235` says the lock prevents it |
| `tok_v_reconnect_wiped` (violation) | a disconnect and a callback | `clear()` wipes the live token the callback has just saved (`admin_oauth.py:148`) |
| `tok_v_refused_token` (violation) | one request whose token Intuit withdraws | the send after the 401 carries the same token |
| `oauth_flow` | two starts, two callbacks with any state, two processes, TTL 2 | a state is accepted once, fresh, and refused only for a reason |
| `bucket_window` | two threads, capacity 2, time to refill it | no window admits more than capacity plus flow; the Retry-After hint is enough |
| `req_resends` | a read-modify-write and a read that share a limiter; every fault, two deaths of the token, writes done or not under a 5xx or a lost answer | resends repeat no effect: once if ok, none if refused, at most once under a 502 or a 500; the tid is that of the failure; every call is answered |
| `inv_writes` | three or four calls on one invoice that has two lines: append, update line and delete line, both deletes with an append, create with replace and custom fields, or create with delete, void and a malformed id; every fault, an edit by a person, creates retried | no lost update; the last line stays; answers are true; a create takes effect once; it implements `AtomicInvoices`; every write settles |
| `items_walks` | a rename (or a change of price, or a bad id), a deactivation (or a get), a create that wants the same name, an outside edit, every fault; a walk with limit 1 or 2 and QBO's cap at 2, over three items any of which may be inactive | no lost update; true answers; a walk below the cap skips no more rows than left, and repeats none more often than rows joined |
| `seed_reruns` | two runs, each dry, whole, or limited to one customer; four shapes of ParentRefs (chain, fork, inactive parent, cycle) over three active customers and four items; every fault | the state file holds only true copies; a record is posted again only in doubt; a whole run copies all but what it logs as failed; an orphan has a reason; every run ends |
| `service_process` | one request of any kind under all settings and credentials; or, on a developer's machine, mixes of two or three that share the lock, the file or the cache; outages of discovery, TTL 1 | no admin handler is open on Cloud Run; every answer carries its id, every request has one true log line; no stale document, no kept fallback; the lock is held where it should be, a refresh's save lands, "no connection" is true; every request is answered |

Bounds, and why they are enough. Three or four calls: each race the code is
exposed to is between two calls, and the third and fourth are what makes the
first two meet (a refresh that outdates both, a disconnect, another writer). Two
instances: the code never counts them. `MaxDeaths = 2`: the pipeline sends at
most three times, so two deaths reach every branch. `MaxEdits = 1`: one edit by
a person makes any SyncToken stale, further ones add nothing. `MaxClock`: in
`TokenBucket` one tick more than fills an empty bucket, so that the cap matters;
in `OAuthFlow` the TTL, so a state can be used just
before and just at its end; in `QBRequest` what brings one token back. The
two starts and the two processes of `OAuthFlow` are the fewest that let another
flow purge the store and a callback go astray. In
`items_walks` three items and a fourth that may be created let a row before, at
and after the cursor move, and a cap of 2 (1000 in the code) makes limit 2 the
one without a probe row. One walk: walks change nothing, so they cannot meet.
`Arrivals` chooses, at the start, which of the calls arrive: the groups of a run
share one instance of the model, not one state space. In `seed_reruns` two runs
let every crash meet a rerun, and `Attempts = 2` (5 in the code) both a retry
and its failure. In `service_process` a clock of two and a TTL of one let a
document expire between two fetches; three requests are the fewest in which a
refresh waits for another while a callback saves. The properties of the edge
speak of one request each, so one request under all settings is enough for them.
Symmetry is used where no
property names a member: threads in `bucket_window`, processes and callbacks in
`oauth_flow`; neither run checks liveness.

Deadlock is checked in every run: a specification whose calls end has an
explicit step for "everything is answered" (or, in `OAuthFlow`, cut off), so any
other state without a successor is reported.

Fairness. `FairSpec` of `TokenLifecycle`, `QBRequest` and `InvoiceWrites`
assumes weak fairness of each call's steps: a thread of the pool keeps running
until it answers. Weak fairness is enough for the lock, since finitely many
calls hold it, each finitely often, and `threading.Lock` wakes a waiter when
it is free for good. Nothing is assumed of faults, of time or of Intuit. In
`InvoiceWrites` and `ItemCatalogue` a caller that is told 409 fetches and tries again, as
`docs/qb-service-scope.md` section 12 asks of it. `SeedSandbox` assumes that the
script runs on until it stops (its faults are never forced, nor is a rerun).
`ServiceProcess` assumes only that some request that has arrived takes a step
while one can: httpx's timeouts bound every wait for Intuit, and every step of a
handler is progress, so no request needs a fairness of its own.

## Proofs

Each theorem holds for every value of the constants: any number of calls,
instances, threads or processes, any TTL, capacity and rate. The assumptions are
the ones named in the modules (`CallsAssumption`, `FaultsAssumption`,
`BucketAssumption`, `FlowAssumption`, `ItemAssumption`, `ExportAssumption`,
`DiscoveryAssumption`, `ScenariosAssumption` and the like): that sets of
names are disjoint, that functions have their domains, that capacities,
rates and TTLs are positive (`config.py` enforces it for the limiter with
`gt=0`), that the export lists a record once, and that the invoices there are at
the start have DocNumbers of their own. Theorems that need more (no callback,
one instance, one callback at most) say so in the theorem.

| Theorem | Says | Invariant, and why it is needed |
|---|---|---|
| `TypeCorrect` | `TypeOK` of `TokenLifecycle` | adds that the tokens in use were issued; a step that saves or adopts keeps its type only then |
| `LockDiscipline` | `LockHeldInCritical` | the lock of an instance and the locations of its calls, both directions, over `Crash` as well |
| `GrantNeverStranded`, `ClearIsSafe`, `StaysDisconnected` (no callback runs) | `NoStrandedGrant`, `ClearWipesNothingLive`, `OnlyCallbackConnects` for a fleet of any size | `FleetInv`: one grant, whose tokens form a chain in which only the newest can live; who is about to save holds the newest and nobody else does; a finished connection leaves nothing alive. The refresh token that works once is what keeps instances apart, not the lock |
| `LockPreventsStaleRefresh` (one instance, at most one callback) | `RefreshPresentsLive` | `SoloInv`: a token that was rotated away and is not excused has its successor in the store or in the hand of the call about to save it, and whoever is in the critical section works on that same grant; so a refresh, which reads the store under the lock, cannot present it. With two instances it is false (`tok_v_two_instances`), and with two callbacks as well, see below |
| `FailedDisconnectIsHarmless` (one instance) | `FailedDisconnectLeftIntact` | `FateInv`: no live token, no token about to be saved and none a callback has just received is of a revoked grant; if the stored one is, a disconnect is about to clear it, or one was cut short. The token of a new grant is in one hand only until it is saved |
| `StatesAreOneTime`, `StatesAreFresh` | `AcceptedOnce`, `OnlyFreshFlows` | a store holds a state only if its start used that store and is past `create()`; no store holds an accepted state. `create()` runs once in a start, so it never comes back |
| `NoRefusalWithoutReason` | `RefusalsExplained` | `KInv`: a state that a start minted is in the start's store, was accepted, or was purged by a request a TTL later; a request uses its process's store or one it built itself; and no step takes back a reason that was there |
| `NoWindowOverruns`, `HintIsHonest` | `WindowBound`, `HintSuffices` | the lock excludes, so the clock reading under it is no older than the last refill (a stale one would refill the same ticks twice); then what is in the bucket plus what was admitted is bounded by capacity plus flow, from every instant on |
| `ResendsNeverRepeat`, `TidNamesTheFailure` | `ResendsAreSafe`, `TidIsOfTheFailure` | a call that is not done has neither an answer nor an effect, so what a resend repeats was not applied. A 5xx, under which the write may be done, ends the call: nothing is sent after it. The refusals are the 404, 409, 429 and 503 |
| `SyncTokenPreventsLostUpdates`, `AnswersCanBeTrusted` | `NoLostUpdate`, `AnswersAreTrue` | the body of a call was computed from the read it carries the SyncToken of, and a SyncToken identifies a content of the invoice; for the answers, `applied` follows the call's location |
| `RetriedCreatesAreOnce` | `AppliedAtMostOnce`, for callers that retry a lost answer only of a create | a create's body is its request whatever it read, so once applied its DocNumber is taken and a retry is refused as a duplicate. Assumes in the theorem that the other calls write to the first invoices (`OnlyFirstWritten`): a delete or a rename of what a create made frees its DocNumber, and the retry then creates a second one |
| `AnInvoiceKeepsALine`, `RoutesAreAtomic` | `KeepsALine`, `ImplementsAtomic` | `LInv`: the lines of an invoice have ids of their own, among those QBO has given out for it, DocNumbers are distinct, and the body of a call that is about to post is what its route makes of the invoice it read. With the SyncToken that read is the invoice as it is, so the POST does in one step what `AtomicInvoices` does, and any other step leaves the invoices alone. The lemmas on `Picked` say that a list without one of its elements, or with none left out, is what it should be |
| `ItemUpdatesAreNotLost`, `ItemAnswersAreTrue` | `NoLostUpdate`, `AnswersAreTrue` of `ItemCatalogue` | the same argument for the sparse bodies of items, which also holds with a create that runs beside them and with any number of listings |
| `ItemTypesAreKept` | `TypeOK` of `ItemCatalogue` | the types of what each call read and asks, and those of the walks |
| `SkipsAreOnlyDepartures`, `RepeatsAreOnlyArrivals` | `SkipsAreDepartures`, `RepeatsAreArrivals` | `WInv`, between two pages: the rows that stayed, lie before the cursor and were not served are no more than the rows that left; those that were served and are now at or behind the cursor, with those served twice already, are no more than the rows that joined. A row that leaves moves one row at most across the cursor, and so does one that joins: the lemmas on positions and cardinalities |
| `StateFileIsTrue`, `RerunsCopyOnlyInDoubt` | `StateIsTrue`, `CopiedAgainOnlyInDoubt` of `SeedSandbox` | what is in memory and in the file was created, and what was created is in memory, in the file, or in doubt; a dry run's marks never reach the file |
| `WholeRunsCopyAll`, `OrphansAreExplained` | `WholeRunCopiesAll`, `OrphansExplained` of `SeedSandbox` | `LInv`: in a whole run every active record is settled, still to come, or on one of the lists of the sort and the loop; on the list to post a record comes after its parent, unless that is settled or inactive or the record lies below a cycle; a sweep of the sort that has placed nothing has only children of what it leaves, which are those below a cycle |
| `ProcessImplementsDiscovery`, `DocumentsAreFresh` | `Spec => DiscoverySpec`, hence `BoundedStaleness` | the second fact is proved of the cache alone: a stamp is never younger than its document, nor a caller's `now` than the clock; the process inherits it because each of its steps is a step of the cache or leaves it alone |
| `NoOpenAdminAtAll`, `AnswersCarryTheirIds`, `LogsAreTrue` | `NoOpenAdmin`, `EveryAnswerCarriesItsId`, `LogTellsTheTruth` | `EdgeInv`: a process that is up has a gate; a request in its handler passed the three checks and still has its id in its context; once a response has started, what will be logged is its status |
| `CallbacksAloneTear`, `RefreshesLand`, `DisconnectIsTruthful` | `OnlyCallbacksTear`, `RefreshSaveLands`, `NoConnectionIsTrue` | `FileInv`: who is in a critical section has the lock; who has the file open is between its truncation and its write; if two have, one of them is a callback; an empty file has a writer. `OnlyCallbacksTear` is proved but in no run: `NoConnectionIsTrue` is the part of it that a user sees |

| `ProcessTypesAreKept` | `TypeOK` of `ServiceProcess` | the types of the edge, of the cache and of what the handlers hold, by the three invariants above: a token in a hand was given out, and a number once given out stays so |

With these every safety property of the passing runs, invariant or action
property, is a theorem. Only model-checked: liveness (`EveryCallAnswered`,
`EveryWriteSettles`, `EveryRunEnds`, `EveryRequestAnswered`), since fairness
and ENABLED are out of the prover's reach. So is induction over data, which
takes an operator as a parameter. Where a proof needs it, it is had in another way:
a set of numbers that is not empty has a least member (`LeastOf`, from the
well-foundedness of finite sets), the elements of a list are counted by an
injection into its indexes, and lists are cut by index (`Picked`, in `Picks`)
rather than by `SelectSeq`, of which nothing can be proved.

Each property was checked on the instances of its run before it was proved.
Two attempts failed for a reason worth knowing:
`RefreshPresentsLive` with two callbacks (below), and `RetriedCreatesAreOnce`
for calls that delete or rename what a create made (in the table).

## Known races and divergences

Shown by a run: the three violation runs above. Seen while modelling, without a
run of their own:

- A refresh that rotated before a callback saved writes its token of the old
  grant over the new connection (`oauth.py:203`); `docs/qb-service-scope.md:197`
  expects the reconnect to last.
- Two callbacks on one instance that save in the other order than they exchanged
  leave the older grant in the store over the newer one, which is live but
  unknown; a disconnect then revokes and clears the older one only, and a request
  that had cached a token of the newer grant, rotated away since, presents it
  (`client.py:252`). `LockPreventsStaleRefresh` is therefore about one callback.
- With the file store, a data request that loads while a refresh or a callback
  has truncated the file is answered 503, not authenticated (`tokens.py:94`).
  Two callbacks, or a callback and a refresh, that save at once can leave a
  mixture, which every later load reads as "no connection"; a disconnect that
  unlinks the file under a callback's save makes its chmod raise, a 500. The
  refresh lock keeps refreshes and disconnects out of this, as the theorems say.
- With both an allowlist and a launch secret, `deps.py:122-131` admits a browser
  with a launch token and Intuit's callback, but the middleware in front
  (`admin_gate.py:130`) has already refused both, for want of an identity.
- `_unhandled` (`errors.py:133`) never answers a request: an exception that no
  other handler names reaches `RequestIDMiddleware` first, which answers for it.
- A disconnect can be undone, where `deploy/oauth-setup.md:262` says that
  calls return NOT_AUTHENTICATED until the operator re-connects. A request that finds the store empty falls
  back to its cached token (`client.py:252`); with one grant Intuit refuses that
  token, but one of an earlier grant that a reconnect left alive still works.
  And if Intuit honours stale revocations, another instance that has rotated
  but not saved writes its (dead) token after the clear.
- After `clear()` failed, a disconnect that is run again revokes a dead token,
  is answered 502 and never clears (`admin_oauth.py:166-176`), where
  `deploy/oauth-setup.md:385` says to run it again.
- A crash of the seed script between the truncation and the write of its state
  file (`seed_sandbox.py:115`) leaves a file that every later run fails on until
  the operator discards it, and a POST that was applied under a 5xx
  (`seed_sandbox.py:209`) is retried, refused as a duplicate and never in the
  map. The properties of `seed_reruns` speak of readable files, and except the
  records in doubt.
- `lru_cache` is not single-flight (`deps.py:19` says so of the token stores):
  the first requests of a cold process can build two state stores or two
  limiters (`deps.py:74`, `deps.py:84`). `OAuthFlow` models the former.
- The state store lives in one process, but `qb-admin` may run four
  (`deploy/qb-admin.cloud-run.yaml:54`): a callback that reaches another one is
  refused. `RefusalsExplained` lists it among the reasons.
- The limiter lives in one process too, and takes one token for up to three
  sends; ten instances together can pass QBO's per-realm limit that it is meant
  to stay under (`rate_limit.py:16`, `client.py:118`).
- `client.py:119` promises a Retry-After header, but the data routes catch
  `RateLimitError` inline and drop it (`_common.py:135`, and the same in
  `invoices.py` and `items.py`).
- A 429 to the send that follows a refresh is answered 502 (`client.py:178`: the
  429 check at line 149 came before), where `docs/qb-service-scope.md:153` says
  that a 429 is mirrored and 502 is for unexpected failures.
- A walk can skip a row that was there all along, when another row leaves the
  listing between two pages; `items_walks` bounds how many.
- At limit 1000 a full page says it is the last (`_common.py:115` documents it);
  `SkipsAreDepartures` leaves that limit out.
- A write that the limiter denies before its POST is answered with the tid of
  its GET (`errors.py:43`), where `exceptions.py:65` says None.

## Plan

Done, in this order: `TokenLifecycle`, `InvoiceWrites`, `TokenBucket`,
`QBRequest`, `OAuthFlow`, `ItemCatalogue`, `SeedSandbox`, and `ServiceProcess`
with `AppEdge`, `Discovery` and `FileTokenStore`, each with its theorems. Next:

1. Proofs: what can be said of fleets while a callback runs, and of two
   callbacks.
2. Liveness without fairness: a measure that each step of a call decreases, as
   an action property (`SeedSandbox` first), which the prover can handle.
3. A walk nobody writes under serves every row exactly once, as a corollary.
4. An abstract catalogue that `ItemCatalogue` implements, like `AtomicInvoices`.
5. The launch token that expires between the disconnect page and its POST.

## Not modelled

URL building, query text, schemas and their validation, logging's format, HTML and
the signatures of launch tokens: straight-line code whose state no other
step shares. `scripts/update_production_invoice_custom_fields.py` is a dialogue
that edits one invoice through the routes `InvoiceWrites` models.
`oauth.login()` (`oauth.py:102`) is a local flow that nothing calls. Of the file
store, a full disk and a crash within a save; of the edge, a request that is
cancelled when the server stops. `readyz` is in `TokenLifecycle`; in
`ServiceProcess` a data request takes the same steps.
