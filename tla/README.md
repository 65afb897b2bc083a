# Verification of Nexus API Balancer

TLA+ models of the balancer in `src/src/*.rs`, the TLC configurations that check them on small
instances, and TLAPS proofs of what matters most for every instance. Every definition that stands
for code is listed in `PROJECT.json` (`map`) with the lines it stands for; every property has there a
mutant of the code that breaks it.

## 1. The system

| part | state | operations | interacts with | correct when |
|---|---|---|---|---|
| API key (`core.rs`) | counters of the second, minute and day, tokens, `banned_until`; one mutex | `try_use`, `record_usage`, `set_cooldown` | all clones of the key share it | limits bound what is admitted and charged; refusals have a cause |
| Key pool (`core.rs`, `lib.rs`) | a bounded channel of key clones | `acquire`, `release`, `add_key` | handlers, import | a clone is in one place, and comes back |
| Proxy handlers (`api.rs`) | locals of a request; a task per event stream | `handle_proxy_internal`, `handle_execute` | pool, keys, provider, log | every exit charges, gives back and logs alike |
| Token estimation (`utils.rs`, `api.rs`) | none | estimates of bodies and answers | proxy, keys | a body with text is not free, no text counts twice |
| Unified gateway (`api.rs`, `model_registry.rs`) | locals of a request | choice of candidates, failover | configuration, grants, routes, proxy | only granted and suitable pools, none twice unless its route says so, all before giving up |
| Model registry (`model_registry.rs`, `db.rs`) | table `provider_models`, cache of routes | periodic synchronisation, lookups, listing | configuration, providers, gateway | table, cache and providers agree after a pass |
| Configuration and import (`mcp.rs`, `api.rs`, `storage.rs`, `config.rs`, `lib.rs`) | `ArcSwap`, `config.yaml`, secret files, grants, running pools | `import_key`, `update_pool_description`, `PATCH /config`, start | every other part reads it | a start succeeds; answered changes stay |
| Authentication (`auth.rs`, extractors in `api.rs`) | the settings of the start; the live ones | token checks, tokens made at registration | handlers, gateway | a token names its client and no other, admins have a reason |
| MCP envelope, stdio bridge, statistics, key verification | none | format and forward | | |

What is hard in it: slots of one key run concurrently on shared counters and finish in any order; limits are
checked before a request and charged after it, maybe in another minute or day; a handler is a future
that may be dropped at any await, with the slot it holds; event streams are finished by a second task; a pool
is a channel of fixed capacity that imports push into; pools of one provider share rows of a table that a
task rewrites statement by statement; changes of the configuration are copied, awaited over and
written back whole, into files that are truncated before they are written; settings change under handlers that
read them twice; the process may end anywhere. `PROJECT.json` lists each of these hazards at its
line, with the properties aimed at it or the reason there is none.

## 2. Modules

Operators and components:

* `KeyLimits` - `ApiKeyInner` as a record and `try_use`, `record_usage`, `set_cooldown` as operators on
  it, in the order of the code: expiry, ban, roll of second, minute and day, limits, increments. Saturating `u32`.
* `ApiKey` - one key and its slots: a slot is admitted or refused, the answer arrives (with or without a
  cooldown), its tokens are recorded; or the provider fails, or the request ends without an answer. A clock in abstract
  instants; UTC midnights are arbitrary instants, since days and windows are not aligned.
* `ApiKeyAudit` - history beside `ApiKey` (admissions and tokens of the UTC day, admissions of
  the last second, tokens recorded in the last minute, promised cooldowns) and its properties.
* `SlotLedger` - the abstract pool: free slots and lent slots, nothing about a queue.
* `KeyPool` - the channel: requests wait, take the oldest clone, give it back, wait for room; imports add
  clones; a dropped task takes its clone along. `Capacity` is the computation of `run_server`.
* `Proxy` - the requests of a pool, composed of `KeyPool` and `KeyLimits`: every early return, the attempts of
  idempotent requests, the cooldown by status, buffered and streamed bodies, `/execute`, what an answer is charged,
  log row, disconnects, imports. It EXTENDS both modules; its own `ProxyInit`, `ProxyNext` and `ProxySpec` call the
  operations of the pool as conjuncts, so `Spec` in it is the specification of the pool.
  `ProxyChecks` has its properties, among them that it implements `ApiKey` (`OneKey == INSTANCE ApiKey WITH ...`).
* `TokenEstimate` - which texts of a JSON body are counted, and what an answer or a stream of events amounts to. `utils.rs` recurses
  over the tree and stops at the fields it does not know; what it collects are the texts whose path from the root it knows, so a body is a
  function from paths to the tokens of the texts there (`Collected`, `TokensIn`). That is no recursion over data, and can be proved
  about. The tokens of one text are given (the tokenizer is a library). `Proxy` extends it: its requests have `Bodies`, its providers
  give `Answers`, and the estimate decides about 413 and the charge. `EstimateCoversText` is in `ProxyChecks`.
* `Ordering` - sorting a finite set by a relation and filtering a sequence, as functions, so that the two modules below can
  be proved about.
* `ModelRegistry`, `RegistryChecks` - the task statement by statement (mark stale, fetch, store,
  clean up, rebuild), failures of each, pools created meanwhile and lost again when an older copy of the configuration is
  written back, restarts that lose the cache, keep the table and may find `config.yaml` edited; the lookups and the listing as
  operators. A configuration gives each of its pools a provider, a priority and `skip_model_sync`; an edit may change all three. A pass
  visits the pools of the configuration it has loaded (`plan`), while the cache is rebuilt with the one that is live by then.
* `Identity`, `IdentityChecks` - the extractors `AuthToken` and `AdminToken`, `validate_token` and `generate_token`
  over the settings that are live and those the server started with. A signature is the signer it was made with.
* `Gateway`, `GatewayChecks` - a request from its role, path and model to its candidates and down the list, while
  configuration, grants and routes change. The handler reads them one by one: the configuration (`Load`), the grants
  (`ReadGrants`), the cached route (`LookUp`), the configuration again for the other pools (`Fill`), and both once more at the door
  of each pool (`Enter`), where the id "admin-bypass" needs no grant. The list then goes through `dedup`, which removes neighbours only. Inside
  a pool it is `Proxy`, reduced to its status. `Routes` are all those that `RoutesAsGatewayExpects` allows `ModelRegistry` to make: best pool
  first, one entry per provider at most, and a pool twice when it has stored the model for two providers.
* `ConfigStore`, `ConfigChecks` - imports and edits step by step over the places that hold configuration,
  with failures between any two steps, writes in two steps (truncate, fill), crashes and starts. How many slots a
  channel has room for is left to `KeyPool`; here the running pool either takes an imported key or drops it (`AddLive`).
* `ApiKeyProofs`, `KeyLimitsProofs`, `KeyPoolProofs`, `ProxyProofs`, `OrderingProofs`, `GatewayProofs`,
  `RegistryProofs`, `ConfigProofs` - lemmas and theorems.
* `MC*` - instances for TLC.

Correspondence. One action is the code from one access to shared state to the next (a mutex, the
channel, a database statement, a file, the `ArcSwap`, the network). Values that nothing depends on are left open: a
provider gives any of `Answers`, which may be charged any of their `Outputs`, a database statement may fail where the code handles that. Headers,
URLs and log texts are left out. Mutants stand before the definition they alter and are used by nothing.

## 3. Runs

| run | instance | shows |
|---|---|---|
| `api_key` | 2 slots, RPS 2, RPD 5, TPM 2, TPD 4, windows of 2/4 instants, two midnights in 12 instants, expiry at 11, u32 max 6 | daily requests never exceed RPD; a second holds at most twice RPS; tokens overshoot by less than one request per slot; a refusal has a true cause, for each of the four limits and for a cooldown; refused calls do not prolong a cooldown |
| `cooldown_overwritten` | the same | finding: a shorter cooldown cuts a longer one off |
| `tokens_over_midnight` | the same | finding: tokens recorded after midnight vanish |
| `key_pool` | 3 requests, 2 slots, 2 imports | a slot is in one place; a release finds room until something is imported; the channel implements the ledger |
| `import_into_full_channel` | the same | finding: imported slots are silently dropped |
| `proxy` | a POST with one of two bodies and a GET on one slot, one import, answers without, with too low and with overflowing totals | concurrency per key, slots given back on every exit, log equals charge, no answer for less than its request, keys over their token limits by less than an answer per slot, no body with text counted as nothing, every step is a step of `ApiKey` for each key |
| `proxy_liveness` | POST, GET, `/execute` on 2 slots | whoever waits is answered, unless the slots are lost or behind streams that stay open |
| `slots_lost` | as `proxy` | finding: a disconnect takes its slot for good |
| `registry` | 3 pools, 2 providers, a model, passes in 4 periods with a day of one, four configurations to restart with | found models are routed, routed models were found there or have a row of a provider that was not synchronised, rows live for a day, the listing and the routes agree, routes have the form `Gateway` takes them in |
| `best_pool_unseen` | the same | finding: the better of two pools of a provider may be hidden |
| `gateway` | 4 pools, 3 providers, every kind of request, all grants and routes; all settings and requests of 2 clients, one of them called "admin-bypass", signers and keys | only granted pools, but for that id at a single pool; none twice unless its route names it twice; no unwanted replay; a request stays in its provider and capability; a transcription fails only after all pools; an issued token names its client, or "anonymous" where the server was started without authentication; admins have a documented reason or that id |
| `config` | three imports and an edit on 2 pools that share a secret file, any number of crashes, in writes too | a start finds its files and can read `config.yaml` unless its last save was met or cut off; a change that overlapped none stays, but for the limiter of a key the full channel dropped; a pool has no more limiters for a secret than imports of it |

Bounds and why they are enough. `api_key`: more slots than tokens left, twice as many instants as any
window and two midnights let every counter roll while requests are in flight, the ban span a roll, and both the
daily overshoot and its carry-over happen; the u32 bound is reached. Saturation at 6 also keeps the counter of the day below
what `OvershootBounded` allows it, so its conjunct for the day says nothing in the run and is carried by the theorem `Overshoot`; the one for the minute is tested. `key_pool`: one request more
than slots, so that one waits, and more imports than room. `proxy`: the two requests that differ (retry or not) must share the
slot; a longer list of requests adds only more of the same waiting; one body has its text in a usual field and one in unusual fields only,
and the answers are no JSON, a text, a total over 32 bits and a stream of events with both (section 5 has the proof for all bodies and answers). `registry`: two pools of one
provider and one that an import may create are the least in which rows are taken over and left over; four periods
exceed a day of one. The edited configurations drop a pool that owns rows, move one to the other provider while nobody marks its old
rows, so that it gets rows of both, and change priorities. Every statement acts on the rows of a model as if it were alone, so one model is
enough. `gateway`: two pools for audio make one failover, a third provider lets a route name one, the other and the first again, and the
created pool is the one that does not run. `config`: three imports are needed for one change
to complete and two others to race after it. Bounds are the
constants marked "(bound)" in the modules: `MaxTime`, `MaxTokens`, `Midnights`; and the finite sets of requests, each used once.

Deadlock is not checked where the model ends by its bounds (the clock stops, or every request is
done), nor in `config`, where a torn `config.yaml` really keeps the server from starting: `Restartable` says when that may happen.

Fairness. Only `Proxy` states it: weak fairness of `Proceed`, the steps of each request once it has entered. The
runtime polls a task that can go on, a slot that lies in the channel wakes a waiter, and each wait on the
provider ends by a timeout (60 s for an answer, 120 s for a body). The next event of a stream has no
timeout (`api.rs:1616`), so streams may stay open for ever, and `EveryRequestAnswered` excuses waiters while
every slot is lost or behind one. One thing the code does not promise is left to the bounds: a waiter is not overtaken for ever,
since requests are finitely many. Nothing is assumed of clients, imports, streams or the clock.

## 4. Findings

Each is a violation run; the trace is its first counterexample.

* `set_cooldown` overwrites (`core.rs:165`) against `docs/RATE_LIMITING.md:22`.
* `record_usage` does not roll the day (`core.rs:157`) against `docs/RATE_LIMITING.md:12`.
* `import_key` ignores a full channel (`mcp.rs:169`) against `lib.rs:33` and its own answer.
* A dropped handler loses its slot (`api.rs:1445`) against `docs/RATE_LIMITING.md:34`.
* One row per provider and model (`model_registry.rs:63`) against `docs/MODEL_REGISTRY.md:43`.

## 5. Proofs

For every value of the constants that satisfies the named assumptions (`TimeAssumption`,
`LimitAssumption`, `PoolAssumption`, `ProxyAssumption`, `TextAssumption`, `ChargeAssumption`, `GatewayAssumption`, `RegistryAssumption`,
`IdentityAssumption`, `ConfigAssumption`, ...):

* `ApiKeyProofs`: `Typing`; `DailyAdmissions`, `Overshoot`, `DailyTokens` and `Burst`. The counters of the key lag behind the
  true ones when a day has begun and `try_use` has not run, so the inductive invariant relates both to the
  day the key last saw: while that is today, the admissions counted and real are equal; before, none
  is counted. For tokens it adds what the requests in flight may still charge,
  `Cardinality(inflight) * MaxTokens`, to each side: an admission needs the counter below the limit and raises
  this potential by one request, a record lowers it by as much as it charges. `DailyTokens` carries what was in flight at midnight.
  `Burst` splits the last second where the key's window begins: when the window rolls, every admission of the last second lies in
  the old window and none at this instant, so they become the earlier part, at most `rps_limit` of them, and the new window starts empty.
  `Refusals` (every refusal has a cause) rests on `CauseBooks`: what the key counts is in the books, its ban was promised, its
  tokens were used today, the requests of its window are among the recent admissions; and on `MinuteCause`: the tokens that the
  minute's counter has are among those recorded since the minute began. `Polling` is an
  action property: inside a cooldown `try_use` returns before it rolls anything.
* `KeyPoolProofs`: `Typing`; `Exclusion`, from the invariant that the channel is injective and
  that queued and held slots are disjoint and offered; `RoomToRelease`, by counting: queued and held slots
  are disjoint subsets of the initial ones, which fit; `LedgerRefinement`, each step mapped to a ledger step or a stutter.
* `ProxyProofs`: the handlers are built from the operations of the pool, so the pool's
  theorems hold in the proxy (`PoolKept`); `ProxyTyping`, `LogsAgree`, `AnswersPaid` and `Concurrency` from
  `ProxyInv == ProxyTypeOK /\ PoolInv /\ Hands /\ Sent /\ Books`, where `Hands` ties the phase of a handler to the slot it
  has, `Sent` to its attempts and `Books` to what it was charged; `KeysOvershoot` adds `TokenInv`: what a key has counted plus
  `MaxTokens` for each request it has with the provider stays below its limit plus `MaxTokens` for each of its slots. An admission finds
  the counter below the limit and, by `Concurrency` in the next state, a slot for each request; a charge moves what was reserved to the counter; an import
  adds slots only. `SlotsReturn` from `LossInv`, by
  counting: each lost slot went with a request dropped after sending. `TextsCounted` holds for JSON bodies of any shape: the sum over the texts under
  usual fields is at most that over all texts (`TokenSums`), the estimate is one of the two and the second where the first is 0
  (`EstimateFair`), it fits 32 bits (`RequestEstimate`: `TextAssumption` says that a body of at most 25 MiB, `api.rs:1390`, has fewer than 2^32 tokens), and by `Books`
  a logged request was charged no less. Texts outside the usual fields count only where the usual ones hold none, as in the code. That `Outputs` are
  of 32 bits is proved too (`OutputsFit`), whatever total a provider reports. `KeyRefinement`: each step is a step of `ApiKey` for the
  watched key or a stutter, so the theorems of `ApiKeyProofs` hold for each key in the pool.
* `OrderingProofs`: the ranks of a finite strict total order are a bijection onto `1 .. n`, so `InOrder`
  lists each element once and in order, and `Keep` (a `Selected` sequence) keeps the elements and their order. `Least` and `UpTo` state induction over `Nat` for
  sets of numbers in place of predicates, which no installed prover can instantiate, and `Subsets` induction over the subsets of a finite set. By it
  `SumFunctionOnSet` of the community modules, a sum by a recursive function over subsets, is shown to be defined (`SumsExist`), to be
  independent of the order of summation (`SumRemove`) and monotone (`SumMonotone`); and a finite set of numbers has a greatest one (`Greatest`).
* `GatewayProofs`, all from `GatewayInv == Types /\ Turns /\ Lists /\ Answered /\ Granted`: `Grants` (`Granted`: who got in had the
  grant then, and grants stay), `Replays`, `GatewayTypes`, `RepeatsAsRouted`, `Stays` and `TriesAll`. `Turns` says that the tries are the beginning of
  the list of candidates, so what is true of the list is true of them. `Lists` follows the list through its making: what comes from the cache
  names a pool twice only if the route did, what is added is not yet in it, and `DedupFacts` says that what `dedup` leaves has the
  same pools and none beside itself; all of them suit the request, and each pool that must be tried is among them. `TokensHold` and `Admins`
  rest on two lemmas about `Identify` by cases of the extractor.
* `RegistryProofs`: `ConfigInv` (configurations have their form, and pools that came since the start have priority 0, so one that is
  lost again keeps its priority in the routes). `Keeps` from `TableInv` (a row carries the date its model was last seen); `PassInv` adds what a
  pass has done so far: it goes in order, between the two statements for a pool no row of its provider is fresh, the fresh rows of
  a provider the pass has reached are found ones (`OnlyFound`), and found ones are fresh (`AllFound`). Nothing is assumed of the row of a provider
  the pass has not reached: its pool may have had another provider when it was stored. `CacheInv` carries that over to the routes when the cache is
  rebuilt and keeps their form when the configuration changes: `RegistryTypes`, `Routing`, `FoundIsRouted`, `RoutedWasFound`, `ListsWhatRoutes`.
* `ConfigProofs`: `Restarts`, that every secret file named by a whole `config.yaml` exists, and that it is whole after a save that
  none other met. The inductive invariant says the first
  of the configuration in memory and of every request's copy, and that an import past its write
  has its file: an overlapping request may save or store any of them later.
  `ConfigTyping` first needs what `FlattenSeq` returns when a start reads all lines of all files of a pool: `Flattened`, by `UpTo` over
  the files laid out so far, gives each position of the result the file and the line it comes from. The same lemma carries
  `LimitersBacked`, by which each limiter of a running pool has an import to itself: `TidyInv` (no configuration names a file twice for a pool), `OriginInv` (each line of a file, in the
  copy an import extends too, belongs to an import of its own that wrote it) and `LimiterInv` (the limiters of a running pool map one to one to such
  imports) together give an injection from the limiters a pool has for a secret to the imports that wrote it for the pool's
  provider. It says nothing of the sum over pools: those that name the same secret file have a limiter each, so a key that was imported once may be
  limited once per pool; and a secret imported twice has two limiters in one pool.
  `ChangesStay` is the longest: for each change that was answered and overlapped none, `KeptInv` follows it through the places it must
  survive in. `AloneInv` says how far a change got that nothing has overlapped yet, and that its copy is still the configuration in memory;
  after it every copy that may be written back has the change (`KeptConfigs`, `KeptEdits`). A secret file keeps the key unless another import read it inside a write (`Readable`, `KeptFiles`); and
  a running pool has the limiter, unless the full channel dropped it, and a start makes it again from the file (`KeptLimiters`, `StartHas`).

Only model-checked: `EveryRequestAnswered`, since liveness under fairness is out of the prover's reach. Every safety and action property that a
passing run checks is stated by a theorem.

## 6. Not modelled

* `verify_key` (a request to a provider whose outcome is taken as it comes), `register_client` (one INSERT), the MCP envelope, the
  read-only tools and the stdio bridge (formatting and forwarding), statistics, schema and pragmas, CORS, banner, HTTP headers and URLs.
* `SecretStorage::save_secret` and the row-by-row variants in `db.rs`, which no code of the server calls.
* A start whose channel is too small for its keys (`lib.rs:73-76`): `Capacity` is at least the number of clones, so
  `KeyPool` has no action for that error.
* What `PATCH /config` puts into a section: `GET /config` blanks secrets (`api.rs:764`), and a client that sends back what it
  read replaces a secret by the placeholder; edits are told apart, not their texts.
* The clock of `ApiKey` does not step back (`core.rs:116`), and counters that start afresh with the process (`core.rs:56`) lie outside its one life of the process.
* `ModelRegistry` has no liveness: the discovery request has no timeout (`model_registry.rs:136`), so a silent provider stalls all later passes.
* `Gateway` takes one request through the pools; its pools are `Proxy` reduced to a status. A pool's waiters behind a dropped response
  are in `Proxy`, as the disconnect of a stream.

## 7. Plan

Done, in the order of importance: key limits, pool, proxy, registry, gateway, configuration, token
estimation, authentication; configurations edited between starts, files torn inside a write, streams that stay open; the
proofs of every safety property that a run checks. What is left, in order:

1. A clock that steps back in `ApiKey`, and keys restored after a restart, with the daily bounds that still hold then.
2. `Gateway` over two instances of `Proxy`, so that a failover drops a streamed answer of the first.
