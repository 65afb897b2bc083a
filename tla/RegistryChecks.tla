--------------------------- MODULE RegistryChecks ---------------------------
(***************************************************************************)
(* What routing may rely on after a synchronisation, and what the table    *)
(* keeps through failures and restarts.                                    *)
(***************************************************************************)
EXTENDS ModelRegistry

(* Types of the table, the cache and the task (model_registry.rs, db.rs).  *)
TypeOK == RegistryTypeOK

Synced == pc = "idle" /\ rebuilt

FoundBy(p) == IF found[p] = NotSynced THEN {} ELSE found[p]

(* The pools of a provider that the pass has synchronised. *)
SyncedOf(provider) ==
  {p \in Pools : found[p] # NotSynced /\ ProviderOf(p) = provider}

(* The synchronised pool after which nothing touched the provider's rows. *)
LastOfProvider(p) ==
  found[p] # NotSynced /\ \A q \in SyncedOf(ProviderOf(p)) : q <= p

(* After a pass, a client that may use a pool reaches every model found    *)
(* there, by that pool or a better one, whatever failed in this pass for   *)
(* other providers, in earlier passes, or was cut off by a restart; only a *)
(* later pool of the same provider can spoil it, since both share their    *)
(* rows (model_registry.rs, sync_provider and rebuild_cache).              *)
FoundModelsRouted ==
  Synced =>
    \A p \in Pools : LastOfProvider(p) =>
      \A m \in FoundBy(p) : \A allowed \in SUBSET Pools : p \in allowed =>
        LET c == ModelCandidates(m, allowed)
        IN  c # <<>> /\ PriorityOf(c[1]) >= PriorityOf(p)

(* A model a provider no longer offers is not routed to it, nor to a pool  *)
(* that has left the configuration: after a pass a pool is a candidate for *)
(* the models just found there and for no others, unless the row it is     *)
(* routed by is of a provider for which the pass has synchronised no pool, *)
(* such as one that a pool had before config.yaml was edited: nobody marks *)
(* that row (model_registry.rs sync_provider, db.rs mark_provider_stale).  *)
RoutedModelsWereFound ==
  Synced =>
    \A m \in Models : \A i \in DOMAIN cache[m] :
      LET p == cache[m][i][1]
      IN  \/ m \in FoundBy(p)
          \/ \E k \in FreshRows(m) : rows[k].pool = p /\ SyncedOf(k[1]) = {}

(* docs/MODEL_REGISTRY.md: "Models from previous syncs remain in the DB    *)
(* until stale cleanup (>24h)": a row is there for a day after the model   *)
(* was last found, through any failures and restarts (db.rs, upsert and    *)
(* cleanup_stale_models).                                                  *)
KeptForADay ==
  \A k \in Keys : seen[k] >= 0 /\ now - seen[k] <= Day => rows[k] # NoRow

(* GET /v1/models reads the table and the gateway the cache: after a pass  *)
(* they tell every client the same, the models that are listed are those   *)
(* it can be routed, through failed calls, restarts and pools that come    *)
(* and go (api.rs handle_list_models, model_registry.rs rebuild_cache).    *)
ListedIffRouted ==
  Synced => \A allowed \in SUBSET Pools :
    Listed(allowed) = {m \in Models : ModelCandidates(m, allowed) # <<>>}

(* What Gateway takes from the registry: at any time the pools of a route  *)
(* stand with the priority they have, which is 0 for a pool that has left  *)
(* the configuration, the best first, and a route has one entry for each   *)
(* provider at most.  It may name a pool more than once, when the rows the *)
(* pool stored under an earlier provider are fresh (model_registry.rs      *)
(* rebuild_cache; a row belongs to a provider and not to a pool).          *)
RoutesAsGatewayExpects ==
  \A m \in Models : LET c == cache[m] IN
    /\ \A i \in DOMAIN c : c[i][2] = PriorityOf(c[i][1])
    /\ \A i, j \in DOMAIN c : i < j => c[i][2] >= c[j][2]
    /\ Len(c) <= Cardinality(Providers)

(* docs/MODEL_REGISTRY.md: "When multiple pools serve the same model, the  *)
(* pool with the highest priority value is selected": after a pass without *)
(* failures no pool that serves a model is better than the first candidate.*)
HighestPrioritySelected ==
  Synced /\ (\A p \in SyncPlan(plan) : found[p] \notin {NotSynced, {}}) =>
    \A p \in Pools : \A m \in FoundBy(p) :
      LET c == ModelCandidates(m, Pools)
      IN  c # <<>> => PriorityOf(c[1]) >= PriorityOf(p)
=============================================================================
