# A verification development for ServeLLM

ServeLLM is a FastAPI gateway over in-process vLLM engines. One gateway process
loads the models of `models.yaml`, routes OpenAI-style completion calls to
them, loads LoRA adapters at run time, limits the request rate of each client,
and keeps metrics and a request history. This directory holds TLA+ modules of
the parts whose state and order of steps matter, TLC configurations that check
them on small instances, and theorems that TLAPS proves for every value of the
constants. All paths are relative to the repository.

## 1. Inventory

| Component | State | Operations | Modules |
|---|---|---|---|
| Dynamic LoRA adapters: `lora/dynamic.py`, `lora/manager.py`, `database/adapter_catalog.py`, the adapter handlers of `gateway/main.py` | table `adapter_registry`; `_loaded` and `_next_id` of each process; the sweep task | resolve, record a use, register, delete, sweep, restart | `AdapterCache`, `AdapterService`, `AdapterCacheProofs`, `AdapterServiceProofs` |
| Rate limiter: `gateway/rate_limit.py` | `_buckets`, the clock | one call per request | `RateLimit`, `SlidingWindow`, `RateLimitProofs` |
| Completions: `gateway/main.py`, `database/request_log.py`, `metrics/middleware.py` | handlers and generators under way, Prometheus series, table `request_log` | call, stream, engine output, failure, disconnection, logging | `Completions`, `CompletionsProofs` |
| Registry, routing, start-up: `router/registry.py`, `lifespan` of `gateway/main.py` | `_specs`, `_engines`, `_adapters`, the cache's names | load the configuration, start, stop, resolve, list | `Registry`, `RegistryProofs` |
| Engine wrapper: `vllm_engine/engine.py` | the engine handle | start, ready, generate | inside `Completions` and `Registry` |
| Authentication: `gateway/auth.py`, `issue_token` of `gateway/main.py`, `core/config.py` | cached settings; the tokens are with their holders | issue, verify, reconfigure, restart | `Auth`, `AuthProofs` |
| GPU telemetry: `metrics/gpu.py`, `lifespan` | gauges, `_last`, the poll task | start, poll, snapshot, shut down | `GpuPoller`, `GpuPollerProofs` |
| One gateway process: the dependencies and handlers of `gateway/main.py` | where each call stands | a call from its arrival to its answer | `Gateway`, `GatewayProofs` |
| Database sessions: `database/session.py` | engine, identity maps | session, commit | inside `AdapterCache` |
| Prompts, settings, schemas, the empty scheduler package, dashboards, deployment, benchmarks, client scripts | none that changes | - | constants, or not modelled |

**How they interact.** A completion call passes authentication, then the
limiter, then `ModelRegistry.resolve`, which for `<base>:<name>` looks at the
static adapters, the cache and the catalog; then the handler, or for a stream
the generator that outlives the handler, reads outputs from the engine, updates
the series and writes a row. The sweep task and the admin handlers change the
catalog and the cache that resolution reads. Everything in one process runs on
one asyncio event loop; only the database can be shared by several processes.

**What is hard.** No two handlers run at once, but the order of handlers, sweep
turns and stream resumptions is free; the catalog outlives the process and the
cache does not; any database statement, engine output or client connection may
fail; `finally` runs before a returned stream generates anything; ids are drawn
from counters and clocks; windows, Retry-After and token expiry have off-by-one
ends, and the wall clock may be corrected. The full
list, with the line each hazard bites at and the properties aimed at it, is
`hazards` in `PROJECT.json`.

**What makes each part correct.**

* Adapters: an engine never sees one `lora_int_id` for two adapters; deletion
  takes effect at once; the sweep drops idle adapters, all of them and no
  others; table and cache agree; the hit count is the number of uses.
* Limiter: it is a sliding window, with a Retry-After that is neither too short
  nor too long.
* Completions: gauge, counters, history and answer agree however a call ends;
  a stream's deltas spell the text once, in order.
* Authentication: a token is good for the time its client was told and no
  longer, and access ends a bounded time after its key is revoked, as long as
  another key is left (with none, authentication is off).
* GPU telemetry: no device is shown staler than one behind it, whichever query
  fails, and a device that works is shown up to date.
* The process: every call is answered whatever fails around it, and the hits of
  an adapter are the calls that were given it.
* Registry: what `/v1/models` lists is what a request for it reaches, on an
  engine that was started.

## 2. The modules

Definitions carry the names of the functions they model where TLA+ allows it;
`map` in `PROJECT.json` gives the lines of each. Definitions called *mutants*
in a comment are plausible bugs: each replaces one definition, and the
property named beside it in `PROJECT.json` must then fail.

**AdapterCache.** `db` is the table (primary key to row), `loaded[p]` the
`_loaded` of process `p`, `nextId[p]` its `_next_id`. The handlers and the sweep
await nothing between two statements, so a process runs one *section* at a time:
`section[p]` says which and what it has in hand. An action is one database
statement with the local work after it, so sections of different processes
interleave at the database while those of one process do not. The ORM is
modelled where it matters: an UPDATE writes only the attributes that changed,
`touch_adapter` writes the count it read plus one, a commit expires the sweep's
objects and reading one whose row is gone raises. `lastUsed` abstracts the time
stamp to what `find_idle_since` tells apart; `Age` is the passage of
`adapter_idle_ttl_seconds`. `issued` and `uses` are history variables.

**AdapterService** is what the adapters promise: registering, deleting, loading,
using, ageing and dropping are one step each. `AdapterCache` has the refinement
mapping (`Service`): the catalog is the repository in the row (`Catalog`), what
is resident is the snapshot in the cache (`Resident`), hits and idleness are the
row's (`Hits`, `IdleKeys`). `ImplementsAdapterService` holds for one process; two
processes, whose caches go their own ways, do not implement it.

**Gateway** extends `AdapterCache` with the calls of one process
(`GatewayAssumption`: `Procs` is that one). A call passes
authentication, the limiter (by its abstract specification `SlidingWindow`,
which `RateLimit` implements), the resolution of its adapter statement by
statement, the prompt and the engine; `call[c]` says where it stands, which
request the engine got, and which row counted it. From its admission to the
engine a call awaits nothing, so its steps are the sections of `AdapterCache`;
while it generates, the admin handlers, the sweep and other calls run.

**RateLimit** models the whole of `enforce_rate_limit` as one action (it awaits
nothing) over a clock of `TicksPerSecond` ticks. The loop that pops expired
entries is the number `n` of entries dropped. `accepted`, `expired` and `until`
are history. **SlidingWindow** is the abstract specification: no buckets, just
the times at which a client was admitted. `RateLimit` implements it.

**Auth** has elapsed time and a wall clock that is off by `skew`, the
environment and the settings cached from it, and the tokens. A token is its
`iat` claim and the secret it was signed with; key, time and skew at issue are
history. Verification keeps no state and is an operator.

**Completions** follows a call from arrival to last byte; what runs between two
awaits or yields is one action. A text is its length, since vLLM yields longer
and longer prefixes of one text; a delta is an interval. `rows` is
`request_log`, `attempts` the history of `_log_request` calls and whether the
row was kept: a duplicate request id violates the unique column, and any commit
may raise. `http` is the middleware's counter: an exception passes it uncounted.
The engine is external: it produces outputs, the last of which has a
finish reason, or raises. The HTTP server is external: it cancels the generator
of a client that goes.

**Registry** goes from the configuration file through the start of each engine
to routing, and through restarts with another configuration. An id is the
sequence of its colon-separated segments. The catalog is here only the set of
pairs that have a row; `AdapterCache` has the rest.

**GpuPoller** is the poll task in the lifespan. A measured value is told by its
age in turns of the loop; which NVML queries succeed changes at any time. A turn
goes through the devices in order and ends at the first query that raises. The
snapshot is a function from the devices that have been read (`Shown`); the code
returns their values as a list in the same order, each with its index. The
gauges are set with the same values in the same statements and are not modelled
beside it.

## 3. The runs

| Run | Question | Instance and why it is enough |
|---|---|---|
| `AdapterCacheLive` | Do table and cache agree, is the hit count exact, does the sweep go on, are idle adapters dropped, does the table catch up after a restart? | One process, two dynamic adapters, so that a sweep turn has a second row after a commit, and a static one listed twice; no database fault. |
| `AdapterCacheShared` | Do racing registrations leave one row per adapter? | Two processes over one table, two adapters, statements that may raise; processes, adapters, repositories and keys are symmetric. |
| `Gateway` | Are ids unambiguous and deletion immediate while calls generate, are hits the calls that were given the adapter, is every call answered, does the sweep spare what was just used, do rows, cache and statements behave like atomic steps? | One process, two calls of one client with a limit of one per tick (so one is refused and sent again), a dynamic and a static adapter, two repositories, one primary key that is reused, two loads, one restart, statements, downloads, prompts and engines that fail. Two loads are what it takes to confuse ids, a restart what it takes to reuse them, two calls what it takes for one to generate while the adapter of the other changes. |
| `RateLimit` | Budget of every window, both sides of Retry-After, refinement of the sliding window. | Two clients (one header, and the client with neither header nor address), limit 2, window of two seconds of two ticks, clock up to twice the window: bursts on one tick, expiry between seconds and a full turn of the bucket happen. |
| `Auth` | How long is a token good for, and how long does access outlive its key while another key is left? | Two keys, two secrets, one token, half-second ticks so that issue is truncated, an expiry of two seconds, a clock that is set a second forward or back, time for two expiries. A second token would be independent of the first; keys and secrets are symmetric. |
| `Completions` | Do the series, the history and the answers agree on every path, do deltas spell the text, does `[DONE]` mean the whole of it and a row, is every call answered and every stream that is read ended? | Two calls of any kind, two request ids (so they may collide), three tokens (a first, a middle and a last output), commits that may raise. |
| `Registry` | Is what is listed what is routed, on an engine that runs? | Every file of up to two models over two ids, with tags that may be the other model's id or a name of their own, an optional static adapter, two adapter names of which one contains a colon, one restart with another file. |
| `GpuPoller` | Which devices may be shown stale, is a device that works refreshed? | Three devices (one before and one behind a failing one) of two queries each, ages up to three turns. |
| `AdapterCacheStale`, `AdapterCacheSweepFault`, `RegistryNoLora` | Expected to be violated: section 6. | The smallest instance that shows it. |
| `CompletionsStreams` | Expected to be violated: section 6. | Three streams of one token: one that completed, one that failed and one that generates, which refute a claim each. |

The bounds are `AdminKeys`, `MaxHits`, `MaxLoads`, `MaxRestarts`, `MaxNow`,
`MaxTokens` (model tokens in `Completions`, access tokens in `Auth`), `Skews`
and `MaxAge`; each is a constant with a comment that says what it limits.
`Completions` and `Registry` are checked without deadlock checking: in the
first all calls end, in the second a process that failed to start stays down
once the restarts are used up. The runs of `RateLimit` and `Auth` with their
clocks at the bound never stop, because a request is always answered and the
operator can always act.

## 4. Fairness

*AdapterCache.* Weak fairness of `Continue`: a section that has begun runs to
its end, because it is synchronous code. Strong fairness of `SweepSelect`: the
sweep's timer puts the task into the loop's first-in-first-out ready queue, so
it gets its turn although handlers take turns in between and the condition
comes and goes. Weak fairness of `Age`: time passes. Nothing is assumed of
requests, registrations, failures or restarts.

*Gateway.* Weak fairness of a call's and of the background's running section,
which is synchronous code, and strong fairness of `Finish`: vLLM finishes or
fails, and the handler is in the loop's first-in-first-out queue while other
sections come and go. Nothing is assumed of clients, of the sweep's timer, of
failures or restarts.

*Completions.* Weak fairness of `Output`, `FinishCall` and the generator's
steps: vLLM keeps producing tokens, and the loop resumes a handler or generator
whose output has arrived. Nothing is assumed of clients: one may neither read
nor disconnect for ever. `CallsAreAnswered` says that this holds nobody else
up; `StreamsEnd` has the client's reading as its premise.

*GpuPoller.* Weak fairness of `poll_once`: `asyncio.sleep` ends and the loop
resumes the task.

## 5. The proofs

Every invariant and every action property that a run checks is also a theorem,
for every value of the constants that the named assumptions of the modules
allow, and so are both refinements. Bounds such as `MaxNow`, `MaxLoads`,
`MaxRestarts` or `MaxTokens` are constants of the theorems: they hold for every
bound. The assumptions are those the code or its configuration justifies (the
types of the settings, at least one tick a second, fewer static adapters than
`_DYNAMIC_ID_START`) and those that keep sentinels such as `None` and `NoRow`
apart from the values they stand beside.

*AdapterCache* (`AdapterCacheProofs`). `TypeCorrect` needs, beyond `TypeOK`, that
a section about to record a use has its adapter cached (`TypeInv`), since that
request is handed out. `IdsNameOneAdapter` (`LoraIdNamesOneAdapter` for any
number of processes) rests on `IdInv`: every known request either is the static
adapter at the position that is its id, or has an id from `DynIdStart` up to
below `nextId`, and two known dynamic ones with one id are the same. The
assumption `IdRangeAssumption` says that no model lists `DynIdStart` or more
static adapters, as the comment in `dynamic.py` claims of its 1000.
`CacheFollowsCatalog`, `HitsCountUses` and `SweepTaskLives` hold for a single
process; the first two also when statements raise, the third without database
faults. Their invariant `SoleInv` relates what the running section has in
hand to the row it was read from, and says that the rows the sweep has still to
visit are in the table. Two processes break all three, so a proof
cannot do without it: the assumption `SoleProcess` is part of each statement.

*The adapter service* (`AdapterServiceProofs`). `OneRowEach` holds for any number
of processes: only the INSERT adds a row, and the unique constraint decides
there. The others are about one process. `ServiceInv` adds to `SoleInv` one row
per adapter, that a row that was used has hits (`UsesCounted`), and what each
point of a section still knows of what it read before (`InHand`): a section about
to fill the cache has the repository of the row, one about to rewrite a row has
its old value, the sweep between its statements has evicted exactly the adapter
it is about to mark. `IdleHidden` says that an adapter whose row is idle is
cached only between its loading and the statement that says so;
`CatalogIsAccurate` follows where statements do not raise. `SweepSpares` and
`ServiceImplemented` hold whatever raises. The refinement is proved action by
action: each statement is either one step of `AdapterService` or leaves
`Catalog`, `Resident`, `Hits` and `IdleKeys` as they are.

*Gateway* (`GatewayProofs`). `GatewayIsAdapterCache` shows that the behaviours of
a gateway are behaviours of `AdapterCache`, so that what is proved there for one
process holds beside calls that generate: ids, deletion, the sweep and the
refinement. `GatewayHitsAreCalls` needs that a call that names a row is past its
resolution and that the row is still there (`CallInv`), and that finitely many
calls name one.

*RateLimit* (`RateLimitProofs`). The inductive invariant `IInv` says that the
bucket is the history of admissions without its first `expired` entries, that
the history is sorted and not in the future, that what was dropped is out of the
window for good, and that the budget holds. `BudgetHolds` follows. `Implements`
(the refinement, also for a limit of 0, the limiter that is switched off) needs
the lemma `RestCountsRecent`: what remains of the bucket after the expired
entries are popped has as many entries as the sliding window has recent
admissions. Both sides of Retry-After need `AllAdvised`: while the advice stands,
the `Limit`-th last admission leaves the window within the last second before
the time the client was told, and the bucket never has more than `Limit` entries.
That the advice is that tight is where the rounding of `int(...) + 1` enters
(`AdviceIsTight`).

*Auth* (`AuthProofs`). `AuthInv` says of every token that its `iat` is the time of
its issue on the clock of then, truncated to a second, and that if its key is
not in the settings any more, it was issued before the restart that dropped the
key. `RevocationIsFinal` speaks of what the gateway accepts, in a gateway that
has a key left: one without keys accepts everything, as `auth.py` documents. The bounds on a token's life follow by arithmetic of truncation,
for every expiry, skew and resolution of the clock.

*GpuPoller* (`GpuPollerProofs`). `Fresher` says that the devices that were read
are the first ones and that no value is older than one behind it; the turn that
fails in the middle keeps this because it refreshes a prefix.

*Registry* (`RegistryProofs`). `RegistryInv`: a process that serves has started
every engine of its file, so that the id of a listed model
is routed, and what is cached and advertised is on an engine that
runs. `AdvertisedRoutes` rests on `AdapterIdSplits`: an adapter's id, behind a
model id without a colon, comes apart where it was put together, colons in the
adapter's name or not.

*Completions* (`CompletionsProofs`). `CompletionsInv` has, for each call, what
handler, engine and log know of one another (`Control`), and for the series the
finite sets they count: the calls that wait for the engine, the rows and the lost
rows of each endpoint and status, the opened streams, the failed calls.
`StreamInv` ties a stream's transcript to the engine's output: role, deltas that
join and end where the text sent so far ends, then the finish reason, then
`[DONE]`, which only a stream that was logged "ok" has. `DoneIsTheEnd` follows
with `DeltasCover`: deltas that join from 0 to the length of the text leave no
character out, since one left out would have a smallest delta behind it
(`Smallest`). `GaugeIsBounded` is about the finite set of calls that wait for
the engine, which the gauge counts; `GaugeFollowsRequests` only says that the
gauge is between these and all requests under way, because whether a stream
should count is what section 6 is about. For `TokensAreUsage` the sum over the
answered calls is shown to be the number of elements of a set of units
(`Units`), which grows with each answered call; that the recursive sum of the
community modules is that number follows from the uniqueness of its recursion
(`SumsUnique`), proved with a smallest set on which two solutions would differ,
since induction with an operator parameter is not available. The upper bound
is that a sum over more requests is no smaller (`MoreSummands`), and that what
was answered had completed (`RepliedCompleted`).

*Only model-checked:* liveness (`IdleAdapterIsDropped`, `CatalogCatchesUp`,
`EveryCallIsAnswered`, `CallsAreAnswered`, `StreamsEnd`,
`WorkingGpuIsRefreshed`), which rests on fairness and so on ENABLED, beyond the
prover. The four properties of section 6 are refuted by TLC.

## 6. What the code does not do

Four runs show where the code departs from what its documentation says; the
quotations are in `findings`.

* `AdapterCacheStale`: registering a cached adapter again with other weights
  has no effect until it is evicted.
* `AdapterCacheSweepFault`: one database error ends the sweep task for the life
  of the process.
* `CompletionsStreams`: three things that are said of all requests do not hold
  of streams. The in-flight gauge, "Requests currently being generated", leaves
  out a stream that generates (`GaugeIsGenerating`); "Prompt tokens processed"
  and "Completion tokens generated" leave out those of a stream, even of one
  that completed (`CountersHaveAllTokens`); and a stream that fails, or whose
  client goes, leaves no row and no error count (`EveryCallIsLogged`). The run
  checks their disjunction, `SomeClaimHolds`: the last state of its trace makes
  all three false, and so refutes each as an invariant.
* `RegistryNoLora`: an adapter can be registered for, and is routed to, a model
  whose engine was started without LoRA.

The invariants of the run `Completions` take no side where the code and these
texts differ: `GaugeFollowsRequests` and `TokensMatchUsage` give bounds that hold
of the code as it is and would hold if it counted a stream until it ends and its
tokens when it completes.

Seen while modelling, without a run of their own: the limiter's
docstring gives a wrong token a bucket of its own, but such a request is
answered 401 before the limiter is asked; an adapter registered again
while cached has status `registered` and stays out of the sweep until it is used
(`IdleAdapterIsDropped` excludes it); taking
out the last API key revokes nothing but lets everybody in (`auth.py` documents
it; `RevocationEnds` excludes it); the HTTP counter misses
responses of handlers that raise (`HttpMatchesInference`); the snapshot shows
the last values of a GPU that no longer answers, and of all behind it, for ever
(`EarlierIsFresher`); a restart forgets the limiter's buckets; a token is good
for up to a second less than `expires_in`; a `served_model_id` with a colon is
loaded, listed and out of reach (`AdvertisedIsRouted` excludes it).

## 7. Not modelled, and why

What vLLM does with weights, slots, priorities and KV memory is outside the
repository. Request validation is pydantic's, signatures and claims are PyJWT's.
The duration of a download, which holds up the whole event loop, has no
counterpart in a model without real time. Histogram values, log lines, the
prompt's text and the GPU memory shares handed to the engines are data no
property here tells apart. `/healthz` and the readiness checks of the handlers
are left out: the application answers nothing before every engine has started.
Several processes over one database are modelled by `AdapterCache` and checked
by `AdapterCacheShared`, but the lost updates of `hits` and the rows that
vanish under another process's sweep are covered by no property: nothing
documents what should hold, and the properties about counts, status and sweep
are stated for one process. The request listing and the dashboards only read.
The benchmarks and scripts are clients of the system. Memory use of `_buckets`,
which never forgets a client, does not change an answer.

## 8. Plan

Done: `AdapterCache` with `AdapterService`, `RateLimit` with `SlidingWindow`,
`Gateway`, `Auth`, `GpuPoller`, `Completions`, `Registry`, and proofs of every
invariant, action property and refinement their runs check. What is left to
prove is about how much the theorems assume and how they compose:

1. Which of the theorems about one process survive several. `CachedHasRow` and
   the service do not; that an eviction by the sweep is of a row that was idle
   in some process's reading may.
2. The limiter inside `Gateway`: that its steps are those of `SlidingWindow`,
   restarts apart, so that between two restarts the budget bounds the calls that
   reach an engine.
3. Safety lemmas from which the liveness properties follow by fairness alone,
   such as that a running section always has a next statement.
