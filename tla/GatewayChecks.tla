---------------------------- MODULE GatewayChecks ----------------------------
(***************************************************************************)
(* Which pools a request may get into, and when it may give up.            *)
(***************************************************************************)
EXTENDS Gateway

(* Types of the request and of what its handler has read (api.rs).         *)
TypeOK ==
  /\ configured \in SUBSET Pools /\ AtStart \subseteq configured
  /\ grants \in SUBSET Pools
  /\ req \in Requests /\ phase \in {"new", "grants", "route", "fill", "enter", "inside", "done"}
  /\ cfg \in SUBSET Pools /\ allowed \in SUBSET Pools
  /\ candidates \in Seq(Pools)
  /\ index \in Nat /\ (phase \in {"enter", "inside"} => index \in DOMAIN candidates)
  /\ tried \in Seq(Pools) /\ Len(tried) <= Cardinality(Providers) + NumPools
  /\ doubled \in SUBSET Pools
  /\ status \in Statuses

Tried == {tried[i] : i \in DOMAIN tried}

(* docs/AUTH.md: "Non-admin clients can only proxy to explicitly allowed   *)
(* pools", by either entry and whatever was read before (api.rs); but the  *)
(* check at the door of a pool knows the id "admin-bypass" beside the role *)
(* of an admin, so a request under this id for one pool needs no grant.    *)
GrantedOnly ==
  Admin(req) \/ (req.bypass /\ req.direct # NoPool) \/ Tried \subseteq grants

(* A request is replayed only by the gateway, for a transcription whose    *)
(* provider the client left open (api.rs: "no automatic replay of POST     *)
(* chat requests across providers").                                       *)
NoUnwantedReplay ==
  Len(tried) > 1 =>
    req.direct = NoPool /\ req.capability = "stt" /\ req.explicit = NoProvider

(* No pool gets a request twice, although the pools a model is known in,   *)
(* those that speak the capability and those the cache had a moment ago    *)
(* overlap; only a pool that the cached route names twice (it was given    *)
(* another provider between two starts) can get it again, and then not     *)
(* before another pool has had it (model_registry.rs,                      *)
(* resolve_model_capability_candidates_filtered; api.rs, dedup).           *)
TwiceOnlyAsRouted ==
  \A i, j \in DOMAIN tried :
    i < j /\ tried[i] = tried[j] => tried[i] \in doubled /\ j > i + 1

(* A request stays where it was sent: in the pool, or in the pools of the  *)
(* provider it names; and audio only gets into pools that take audio,      *)
(* unless the client picks the pool itself, whatever the cache and the     *)
(* configuration say meanwhile (api.rs find_pools, model_registry.rs       *)
(* resolve_model_capability_candidates_filtered).                          *)
StaysWhereAsked ==
  /\ req.direct # NoPool => Tried \subseteq {req.direct}
  /\ req.explicit # NoProvider => \A p \in Tried : ProviderOf[p] = req.explicit
  /\ req.direct = NoPool /\ req.capability = "stt" => \A p \in Tried : "stt" \in Speaks[p]

(* The client sees a failover status for a transcription only after every  *)
(* running pool that takes audio and was allowed to it has failed, and     *)
(* never "not found" (api.rs, the loop over pool_candidates).              *)
FailsOnlyAfterAll ==
  phase = "done" /\ req.direct = NoPool /\ req.capability = "stt" /\ req.explicit = NoProvider =>
    /\ status # "not_found"
    /\ status \in Failover =>
         {p \in AtStart : "stt" \in Speaks[p] /\ p \in allowed} \subseteq Tried
=============================================================================
