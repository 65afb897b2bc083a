------------------------------ MODULE MCConfig ------------------------------
(* A pool that runs and one that an import may create, of one provider; a  *)
(* client and two secrets; three imports and a setting that may overlap,   *)
(* and any number of restarts.                                             *)
EXTENDS ConfigChecks

MCProviderOf == [p \in Pools |-> "gemini"]
(* Only imports for the other pool say something of the KV cache. *)
MCAsked ==
  {j \in [client : Clients, pool : Pools, key : Keys, kv_cache : BOOLEAN] :
     j.kv_cache = (j.pool \notin Configured)}
MCSymmetry == Permutations(Importers) \cup Permutations(Keys)
=============================================================================
