------------------------------ MODULE Gateway ------------------------------
(***************************************************************************)
(* The gateway (api.rs handle_unified_proxy and handle_proxy, the resolve  *)
(* functions of model_registry.rs): from the path and the model of a       *)
(* request to the list of pools it may go to, and down this list when a    *)
(* pool fails.  What the handler reads, the configuration, the grants of   *)
(* the client and the cached route of the model, changes while it waits.   *)
(* The cache is rebuilt at any time: the handler meets any route.  What    *)
(* happens to a request inside one pool is Proxy; here it is the checks at *)
(* its door and the status that comes out.                                 *)
(***************************************************************************)
EXTENDS Identity, Ordering, SequencesExt

CONSTANTS
  NumPools,
  Providers,
  ProviderOf,   \* the provider of each pool
  Priority,     \* the priority of each pool
  Speaks,       \* the capabilities of each pool
  AtStart,      \* pools configured when the server started: these run
  Guess,        \* the providers that the beginning of a model's name suggests
  NoProvider, NoPool

Pools == 1 .. NumPools     \* numbered in the order of their names
Capabilities == {"chat", "stt"}

(* A pool that an import creates gets priority 0 and speaks chat. *)
ASSUME GatewayAssumption ==
  /\ NumPools \in Nat
  /\ ProviderOf \in [Pools -> Providers]
  /\ Priority \in [Pools -> Int]
  /\ Speaks \in [Pools -> SUBSET Capabilities]
  /\ AtStart \subseteq Pools
  /\ \A p \in Pools \ AtStart : Priority[p] = 0 /\ Speaks[p] = {"chat"}
  /\ Guess \subseteq Providers /\ IsFiniteSet(Providers)
  /\ NoProvider \notin Providers /\ NoPool \notin Pools

(* Whom it comes from (bypass: under the id "admin-bypass") and what it is *)
(* for: one pool (/proxy/pool), or the gateway, where it may name a model, *)
(* its provider ("//provider//model"), or none.                            *)
Requests ==
  [direct : {NoPool}, role : Roles, bypass : BOOLEAN, capability : Capabilities,
   named : {TRUE}, explicit : Providers \cup {NoProvider}, guess : {{}, Guess}]
  \cup [direct : {NoPool}, role : Roles, bypass : BOOLEAN, capability : Capabilities,
        named : {FALSE}, explicit : {NoProvider}, guess : {{}}]
  \cup [direct : Pools, role : Roles, bypass : BOOLEAN, capability : {"chat"},
        named : {FALSE}, explicit : {NoProvider}, guess : {{}}]

(* What the cache may hold for a model (RegistryChecks, the property       *)
(* RoutesAsGatewayExpects): the pools that serve it, best first, among     *)
(* them pools that have left the configuration, and the same pool again    *)
(* when it has stored the model for more than one provider.                *)
Routes ==
  {s \in BoundedSeq(Pools, Cardinality(Providers)) :
     \A i, j \in DOMAIN s : i < j => Priority[s[i]] >= Priority[s[j]]}

(* The pools that a route names more than once. *)
Doubled(s) == {p \in Pools : \E i, j \in DOMAIN s : i < j /\ s[i] = p /\ s[j] = p}

Admin(r) == r.role = "admin"

VARIABLES
  configured,  \* pools in the configuration
  grants,      \* pools the client has in client_pools
  req, phase,
  cfg,         \* the configuration the handler loaded
  allowed,     \* the pools it read for the client
  candidates,  \* the pools to try, in their order
  index,       \* the current one
  tried,       \* pools the request got into (history)
  doubled,     \* pools the route named twice when it was read (history)
  status

world == <<configured, grants>>
vars == <<world, req, phase, cfg, allowed, candidates, index, tried, doubled, status>>

Failover == {"too_many_requests", "server_error"}
Statuses == Failover \cup {"ok", "client_error", "forbidden", "not_found", "none"}

Init ==
  /\ configured = AtStart
  /\ grants \in SUBSET Pools
  /\ req \in Requests /\ phase = "new"
  /\ cfg = {} /\ allowed = {}
  /\ candidates = <<>> /\ index = 1
  /\ tried = <<>> /\ doubled = {} /\ status = "none"

Load ==
  /\ phase = "new"
  /\ cfg' = configured
  /\ IF req.direct = NoPool
     THEN phase' = "grants" /\ UNCHANGED candidates
     ELSE phase' = "enter" /\ candidates' = <<req.direct>>
  /\ UNCHANGED <<world, req, allowed, index, tried, doubled, status>>

(* get_allowed_pools; nothing is allowed when it fails. *)
ReadGrants ==
  /\ phase = "grants" /\ phase' = "route"
  /\ \/ Admin(req) /\ allowed' = Pools
     \/ ~ Admin(req) /\ allowed' \in {grants, {}}
  /\ UNCHANGED <<world, req, cfg, candidates, index, tried, doubled, status>>

Better ==
  {e \in Pools \X Pools : \/ Priority[e[1]] > Priority[e[2]]
                          \/ Priority[e[1]] = Priority[e[2]] /\ e[1] < e[2]}

BestFirst(ps) == InOrder(ps, Better)

(* Mutant: pools of any capability. *)
SuitableForAny(ps) == {p \in ps : p \in allowed}

Suitable(ps) == {p \in ps : req.capability \in Speaks[p] /\ p \in allowed}

FindPools(providers) == BestFirst({p \in Suitable(cfg) : ProviderOf[p] \in providers})

CapabilityPools == BestFirst(Suitable(configured))

KnownPools(route) == Keep(route, allowed)

First(s) == IF s = <<>> THEN <<>> ELSE <<Head(s)>>

(* One pool for a chat: whatever it speaks when the registry names it. *)
ChatPool(known) ==
  IF known # <<>> THEN First(known) ELSE First(FindPools(req.guess))

Finish(st) == phase' = "done" /\ status' = st

(* pool_candidates.dedup() removes a pool that follows itself. *)
Dedup(s) == Selected(s, {i \in DOMAIN s : i = 1 \/ s[i] # s[i - 1]})

(* The candidates stand, and the first is tried if there is one. *)
Settle(pools) ==
  /\ candidates' = Dedup(pools)
  /\ \/ candidates' = <<>> /\ Finish("forbidden")
     \/ candidates' # <<>> /\ phase' = "enter" /\ UNCHANGED status

(* A provider that the client names is all there is. *)
Choose ==
  /\ phase = "route" /\ req.explicit # NoProvider
  /\ Settle(FindPools({req.explicit}))
  /\ UNCHANGED <<world, req, cfg, allowed, index, tried, doubled>>

(* Otherwise the cache is read.  (The configuration that is loaded before, *)
(* for a transcription, tells it no more than one that is loaded now: the  *)
(* pools that come and go while the server runs do not speak "stt".)       *)
LookUp ==
  /\ phase = "route" /\ req.explicit = NoProvider /\ phase' = "fill"
  /\ IF req.named
     THEN \E route \in Routes :
            /\ candidates' = IF req.capability = "chat" THEN ChatPool(KnownPools(route))
                             ELSE Keep(KnownPools(route), Suitable(configured))
            /\ doubled' = Doubled(route)
     ELSE UNCHANGED <<candidates, doubled>>
  /\ UNCHANGED <<world, req, cfg, allowed, index, tried, status>>

(* Mutant: all that speak the capability follow. *)
OthersAgain == CapabilityPools

(* The pools that speak the capability and are not yet candidates. *)
Others == Keep(CapabilityPools, Pools \ ToSet(candidates))

(* The configuration is loaded once more: the other pools follow those the *)
(* registry knows, or for a chat step in when there is none.               *)
Fill ==
  /\ phase = "fill"
  /\ Settle(IF req.capability = "chat" /\ candidates # <<>> THEN candidates
            ELSE candidates \o Others)
  /\ UNCHANGED <<world, req, cfg, allowed, index, tried, doubled>>

(* Mutant: chats fail over as well. *)
AllowFailoverAlways == req.direct = NoPool /\ req.explicit = NoProvider

AllowFailover ==
  req.direct = NoPool /\ req.capability # "chat" /\ req.explicit = NoProvider

(* Mutant: a pool that is busy ends the request. *)
AfterPoolFailed(st) ==
  IF AllowFailover /\ index < Len(candidates) /\ st = "server_error"
  THEN phase' = "enter" /\ index' = index + 1 /\ UNCHANGED status
  ELSE Finish(st) /\ UNCHANGED index

(* Mutant: the last candidate is followed by a next one. *)
AfterPoolUnbounded(st) ==
  IF AllowFailover /\ st \in Failover
  THEN phase' = "enter" /\ index' = index + 1 /\ UNCHANGED status
  ELSE Finish(st) /\ UNCHANGED index

(* The response of one pool: kept, or dropped for the next pool. *)
AfterPool(st) ==
  IF AllowFailover /\ index < Len(candidates) /\ st \in Failover
  THEN phase' = "enter" /\ index' = index + 1 /\ UNCHANGED status
  ELSE Finish(st) /\ UNCHANGED index

Into(p) ==
  phase' = "inside" /\ tried' = Append(tried, p) /\ UNCHANGED <<index, status>>

(* Mutant: a pool relies on the gateway for the grants. *)
EnterUnchecked ==
  LET p == candidates[index]
  IN  /\ phase = "enter"
      /\ \/ p \notin configured \cap AtStart /\ AfterPool("not_found") /\ UNCHANGED tried
         \/ p \in configured \cap AtStart /\ Into(p)
      /\ UNCHANGED <<world, req, cfg, allowed, candidates, doubled>>

(* Who is not asked for a grant. *)
Exempt == Admin(req) \/ req.bypass

(* handle_proxy_internal up to the acquisition of a key: the pool must be  *)
(* configured, granted (get_allowed_pools_ext, which may fail) and run.    *)
Enter ==
  LET p == candidates[index]
  IN  /\ phase = "enter"
      /\ \/ p \notin configured /\ AfterPool("not_found") /\ UNCHANGED tried
         \/ p \in configured /\ ~ Exempt /\ AfterPool("forbidden") /\ UNCHANGED tried
         \/ /\ p \in configured \ AtStart /\ (Exempt \/ p \in grants)
            /\ AfterPool("not_found") /\ UNCHANGED tried
         \/ p \in configured \cap AtStart /\ (Exempt \/ p \in grants) /\ Into(p)
      /\ UNCHANGED <<world, req, cfg, allowed, candidates, doubled>>

Leave ==
  /\ phase = "inside"
  /\ \E st \in Failover \cup {"ok", "client_error"} : AfterPool(st)
  /\ UNCHANGED <<world, req, cfg, allowed, candidates, tried, doubled>>

handler == <<req, phase, cfg, allowed, candidates, index, tried, doubled, status>>

(* import_key: a pool enters the configuration, or leaves it again when a *)
(* copy loaded before is written back; or the client is granted a pool     *)
(* with its KV cache setting.                                              *)
CreatePool ==
  /\ phase # "done"
  /\ \E p \in Pools \ configured : configured' = configured \cup {p}
  /\ UNCHANGED <<grants, handler>>

LosePool ==
  /\ phase # "done"
  /\ \E p \in configured \ AtStart : configured' = configured \ {p}
  /\ UNCHANGED <<grants, handler>>

Grant ==
  /\ phase # "done"
  /\ \E p \in configured \ grants : grants' = grants \cup {p}
  /\ UNCHANGED <<configured, handler>>

Next ==
  \/ Load \/ ReadGrants \/ Choose \/ LookUp \/ Fill \/ Enter \/ Leave
  \/ CreatePool \/ LosePool \/ Grant

Spec == Init /\ [][Next]_vars
=============================================================================
