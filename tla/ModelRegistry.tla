--------------------------- MODULE ModelRegistry ---------------------------
(***************************************************************************)
(* Model discovery (model_registry.rs, db.rs): a task that, at startup and *)
(* every six hours, asks the provider of each configured pool for its      *)
(* models, keeps them in the table provider_models and rebuilds from it    *)
(* the cache the gateway routes by.  The steps are the task's database     *)
(* statements, each of them committed alone; what happens between two of   *)
(* them is a failed call, a pool created by an import, or the end of the   *)
(* process, which loses the cache and keeps the table, and after which the *)
(* server may be started with another config.yaml: pools may have come and *)
(* gone, and a pool may have got another provider or priority.             *)
(***************************************************************************)
EXTENDS Ordering

CONSTANTS
  NumPools,     \* pools that may get configured
  Providers,    \* 1 .. m, numbered in the order of their names
  Models,
  FirstConfig,  \* the configuration when the server first starts
  Edited,       \* configurations it may be given for a later start
  Day,          \* 24 h, in periods of the synchronisation
  MaxTime,      \* bound on the clock, in such periods
  NoRow, NotSynced

Pools == 1 .. NumPools     \* numbered in the order of config.pools

PoolConfig ==
  [provider : Providers, priority : Int, skip_model_sync : BOOLEAN]

(* A configuration gives the entries of the pools it has. *)
IsConfig(c) == DOMAIN c \subseteq Pools /\ c \in [DOMAIN c -> PoolConfig]

ASSUME RegistryAssumption ==
  /\ NumPools \in Nat
  /\ Providers \subseteq Nat
  /\ IsConfig(FirstConfig) /\ \A c \in Edited : IsConfig(c)
  /\ Day \in Nat /\ MaxTime \in Nat
  /\ IsFiniteSet(Providers) /\ IsFiniteSet(Models)
  /\ \A ms \in SUBSET Models : ms # NotSynced

VARIABLES
  config,      \* the configuration
  started,     \* the pools it had when the process started
  rows,        \* provider_models: the row of each provider and model
  cache,       \* for each model <<pool, priority>> of the pools that serve it
  now,         \* wall clock, in periods
  pc,          \* the next step of the task
  plan,        \* the configuration the synchronisation has loaded
  todo,        \* pools the running synchronisation has still to do
  found,       \* what it stored for each pool, or NotSynced (history)
  rebuilt,     \* whether the last rebuild succeeded (history)
  seen         \* when a model of a provider was last stored (history)

configs == <<config, started, plan>>
sync == <<pc, todo>>
history == <<found, rebuilt, seen>>
vars == <<config, started, rows, cache, now, pc, plan, todo, found, rebuilt, seen>>

Row == [pool : Pools, is_stale : BOOLEAN, fetched_at : 0 .. MaxTime]
Keys == Providers \X Models      \* UNIQUE(provider_name, model_id)

ASSUME NoRowAssumption == NoRow \notin Row

RegistryTypeOK ==
  /\ IsConfig(config) /\ IsConfig(plan)
  /\ started \subseteq DOMAIN config
  /\ rows \in [Keys -> Row \cup {NoRow}]
  /\ \A m \in Models : cache[m] \in Seq(Pools \X Int)
  /\ now \in 0 .. MaxTime
  /\ pc \in {"mark", "store", "cleanup", "rebuild", "idle"}
  /\ todo \subseteq DOMAIN plan
  /\ pc = "store" => todo # {}
  /\ found \in [Pools -> (SUBSET Models) \cup {NotSynced}]
  /\ rebuilt \in BOOLEAN
  /\ seen \in [Keys -> -1 .. MaxTime]

(* The pools of configuration c that a synchronisation visits. *)
SyncPlan(c) == {p \in DOMAIN c : ~ c[p].skip_model_sync}

(* It visits them in the order of config.pools, ... *)
Current == CHOOSE p \in todo : \A q \in todo : p <= q

(* ... with the provider that the configuration it has loaded names. *)
ProviderOf(p) == plan[p].provider

NothingFound == [p \in Pools |-> NotSynced]
EmptyCache == [m \in Models |-> <<>>]

Init ==
  /\ config = FirstConfig /\ plan = FirstConfig
  /\ started = DOMAIN FirstConfig
  /\ rows = [k \in Keys |-> NoRow]
  /\ cache = EmptyCache
  /\ now = 0
  /\ pc = "mark" /\ todo = SyncPlan(FirstConfig)
  /\ found = NothingFound /\ rebuilt = FALSE
  /\ seen = [k \in Keys |-> -1]

(* Mutant: the task moves on from the pool before its statements are done. *)
NextPoolOnly == pc' = pc /\ todo' = todo \ {Current}

(* The pool that is being synchronised is done with, well or badly. *)
NextPool == pc' = "mark" /\ todo' = todo \ {Current}

(* Mutant: every row is marked, whoever provides the model. *)
MarkAllStale ==
  /\ pc = "mark" /\ todo # {}
  /\ \/ /\ rows' = [k \in Keys |->
                      IF rows[k] # NoRow
                      THEN [rows[k] EXCEPT !.is_stale = TRUE] ELSE rows[k]]
        /\ pc' = "store" /\ UNCHANGED todo
     \/ NextPool /\ UNCHANGED rows
  /\ UNCHANGED <<configs, cache, now, history>>

(* Mutant: what an earlier synchronisation found is not marked. *)
MarkNothing ==
  /\ pc = "mark" /\ todo # {}
  /\ \/ pc' = "store" /\ UNCHANGED todo
     \/ NextPool
  /\ UNCHANGED <<configs, rows, cache, now, history>>

(* sync_provider: all rows of the pool's provider become stale, also those *)
(* that another pool of the provider has just stored, and not those that   *)
(* the pool itself stored under a provider it had before.  The statement   *)
(* may fail, and the pool is left out.                                     *)
MarkStale ==
  /\ pc = "mark" /\ todo # {}
  /\ \/ /\ rows' = [k \in Keys |->
                      IF k[1] = ProviderOf(Current) /\ rows[k] # NoRow
                      THEN [rows[k] EXCEPT !.is_stale = TRUE] ELSE rows[k]]
        /\ pc' = "store" /\ UNCHANGED todo
     \/ NextPool /\ UNCHANGED rows
  /\ UNCHANGED <<configs, cache, now, history>>

(* Mutant: a row that exists keeps the date of its first discovery. *)
StoredRowDated(p, k) ==
  [pool |-> p, is_stale |-> FALSE,
   fetched_at |-> IF rows[k] = NoRow THEN now ELSE rows[k].fetched_at]

(* The row of a provider and model that is stored for pool p. *)
StoredRow(p, k) == [pool |-> p, is_stale |-> FALSE, fetched_at |-> now]

Store(ms) ==
  LET p == Current
      stored == {ProviderOf(p)} \X ms
  IN  /\ pc = "store"
      /\ rows' = [k \in Keys |-> IF k \in stored THEN StoredRow(p, k) ELSE rows[k]]
      /\ found' = [found EXCEPT ![p] = ms]
      /\ seen' = [k \in Keys |-> IF k \in stored THEN now ELSE seen[k]]
      /\ NextPool
      /\ UNCHANGED <<configs, cache, now, rebuilt>>

(* No key, no answer, not a success, not JSON, or the transaction fails. *)
FetchFails ==
  /\ pc = "store"
  /\ found' = [found EXCEPT ![Current] = {}]
  /\ NextPool
  /\ UNCHANGED <<configs, rows, cache, now, rebuilt, seen>>

PlanDone ==
  /\ pc = "mark" /\ todo = {}
  /\ pc' = "cleanup"
  /\ UNCHANGED <<configs, rows, cache, now, todo, history>>

(* cleanup_stale_models; a failure is printed. *)
CleanUp ==
  /\ pc = "cleanup"
  /\ \/ rows' = [k \in Keys |->
                   IF /\ rows[k] # NoRow /\ rows[k].is_stale
                      /\ now - rows[k].fetched_at > Day
                   THEN NoRow ELSE rows[k]]
     \/ UNCHANGED rows
  /\ pc' = "rebuild"
  /\ UNCHANGED <<configs, cache, now, todo, history>>

(* A row may be of a pool that has left the configuration. *)
PriorityOf(p) == IF p \in DOMAIN config THEN config[p].priority ELSE 0

(* Mutant: lowest priority first. *)
PrefersLow ==
  {e \in Keys \X Keys :
     LET pa == PriorityOf(rows[e[1]].pool)
         pb == PriorityOf(rows[e[2]].pool)
     IN  pa < pb \/ (pa = pb /\ e[1][1] < e[2][1])}

(* The order of the rows of one model: by priority, then as selected. *)
Prefers ==
  {e \in Keys \X Keys :
     LET pa == PriorityOf(rows[e[1]].pool)
         pb == PriorityOf(rows[e[2]].pool)
     IN  pa > pb \/ (pa = pb /\ e[1][1] < e[2][1])}

(* get_all_models, in the order of the providers. *)
FreshRows(m) ==
  {k \in Keys : k[2] = m /\ rows[k] # NoRow /\ ~ rows[k].is_stale}

Entries(ks) ==
  LET order == InOrder(ks, Prefers)
  IN  [i \in DOMAIN order |->
         <<rows[order[i]].pool, PriorityOf(rows[order[i]].pool)>>]

(* Mutant: the rows marked stale are routed as well. *)
CacheOfAll(m) == Entries({k \in Keys : k[2] = m /\ rows[k] # NoRow})

CacheOf(m) == Entries(FreshRows(m))

(* rebuild_cache; when the table cannot be read the old cache stays. *)
Rebuild ==
  /\ pc = "rebuild"
  /\ \/ cache' = [m \in Models |-> CacheOf(m)] /\ rebuilt' = TRUE
     \/ UNCHANGED cache /\ rebuilt' = FALSE
  /\ pc' = "idle"
  /\ UNCHANGED <<configs, rows, now, todo, found, seen>>

(* spawn_periodic_sync: six hours after the last one. *)
StartSync ==
  /\ pc = "idle" /\ now < MaxTime
  /\ now' = now + 1
  /\ pc' = "mark" /\ plan' = config /\ todo' = SyncPlan(config)
  /\ found' = NothingFound
  /\ UNCHANGED <<config, started, rows, cache, rebuilt, seen>>

CreatedPool(provider) ==
  [provider |-> provider, priority |-> 0, skip_model_sync |-> FALSE]

(* import_key for a pool that does not exist: it enters the configuration, *)
(* and the next synchronisation, at its end.                               *)
CreatePool ==
  /\ \E p \in Pools, provider \in Providers :
       /\ \A q \in DOMAIN config : q < p
       /\ config' = [q \in DOMAIN config \cup {p} |->
                       IF q = p THEN CreatedPool(provider) ELSE config[q]]
  /\ UNCHANGED <<started, plan, rows, cache, now, sync, history>>

(* import_key and PATCH /config write back a copy they loaded before the   *)
(* pool was created.                                                       *)
LosePool ==
  /\ \E p \in DOMAIN config \ started :
       config' = [q \in DOMAIN config \ {p} |-> config[q]]
  /\ UNCHANGED <<started, plan, rows, cache, now, sync, history>>

(* The process ends and is started again, maybe with config.yaml edited. *)
Restart ==
  /\ config' \in {config} \cup Edited
  /\ plan' = config' /\ started' = DOMAIN config'
  /\ cache' = EmptyCache
  /\ pc' = "mark" /\ todo' = SyncPlan(config')
  /\ found' = NothingFound /\ rebuilt' = FALSE
  /\ UNCHANGED <<rows, now, seen>>

Next ==
  \/ MarkStale
  \/ \E ms \in SUBSET Models : Store(ms)
  \/ FetchFails
  \/ PlanDone
  \/ CleanUp
  \/ Rebuild
  \/ StartSync
  \/ CreatePool
  \/ LosePool
  \/ Restart

Spec == Init /\ [][Next]_vars

-----------------------------------------------------------------------------
(* resolve_model_candidates_filtered and resolve_model_filtered: the pools *)
(* of a model that a client may use (allowed = Pools for an admin).        *)
ModelCandidates(m, allowed) ==
  LET mine == Keep(cache[m], allowed \X Int)
  IN  [i \in DOMAIN mine |-> mine[i][1]]

(* handle_list_models: what the table says at any moment. *)
Listed(allowed) ==
  {m \in Models : \E k \in FreshRows(m) : rows[k].pool \in allowed}
=============================================================================
