---------------------------- MODULE ProxyChecks ----------------------------
(***************************************************************************)
(* What the requests of a pool owe each other and the keys.                *)
(***************************************************************************)
EXTENDS Proxy

CONSTANT Watched     \* the key whose behaviour is compared with ApiKey

(* It has been in the pool since the server started. *)
ASSUME WatchedAssumption ==
  Watched \in Keys /\ \E s \in InitialSlots : KeyOf[s] = Watched

(* Types of the pool, the keys and the requests (api.rs, core.rs).         *)
ProxyTypeOK ==
  /\ PoolTypeOK
  /\ now \in Nat /\ day \in Nat
  /\ keys \in [Keys -> KeyState]
  /\ phase \in [Requests -> Phases]
  /\ sends \in [Requests -> 0 .. 3]
  /\ using \in [Requests -> Slots \cup {NoSlot}]
  /\ detached \subseteq Requests
  /\ DOMAIN body = Requests /\ \A r \in Requests : body[r] \in Bodies[r]
  /\ tokens \in [Requests -> 0 .. MaxTokens]
  /\ charged \in [Requests -> Nat]
  /\ logged \in [Requests -> Nat \cup {Nothing}]

KeySlots(k) == {s \in offered : KeyOf[s] = k}
Upstream(k) ==
  {r \in Requests : /\ phase[r] \in {"sending", "backoff", "reading", "streaming"}
                    /\ KeyOf[using[r]] = k}

(* A key never serves more requests at once than it has slots, whatever    *)
(* path each handler takes to its return (lib.rs adds `concurrency` clones *)
(* of a key for that purpose).                                             *)
UpstreamWithinConcurrency ==
  \A k \in Keys : Cardinality(Upstream(k)) <= Cardinality(KeySlots(k))

WithinOvershoot(counted, limit, k) ==
  limit # NoLimit =>
    counted = 0 \/ counted < limit + Cardinality(KeySlots(k)) * MaxTokens

(* Admission looks at the tokens spent so far and the charge comes after   *)
(* the answer, so the requests that one key has with its provider may      *)
(* together pass its limits: by less than one full answer for each of its  *)
(* slots, imported ones included (api.rs, from try_use to record_usage).   *)
KeysWithinOvershoot ==
  \A k \in Keys :
    /\ WithinOvershoot(keys[k].tokens_this_minute, TpmLimit, k)
    /\ WithinOvershoot(keys[k].tokens_today, TpdLimit, k)

Lost == InitialSlots \ (Queued \cup {held[r] : r \in Requests})
DroppedUpstream == {r \in Requests : phase[r] = "gone" /\ sends[r] > 0}

(* Every way out of the handlers gives the slot back: 413, 429, 502, a     *)
(* body that breaks off, a stream that ends or whose client leaves, and    *)
(* /execute.  A slot of the pool gets lost only with a handler dropped     *)
(* after it had sent its request, and one slot only (api.rs, from acquire  *)
(* to release); in a pool that was imported to, also in release itself.    *)
SlotsAccountedFor ==
  /\ \A r \in Requests : phase[r] \in {"logging", "done"} => held[r] = NoSlot
  /\ offered = InitialSlots =>
       Cardinality(Lost) <= Cardinality(DroppedUpstream)

(* The log and the keys agree (docs/ARCHITECTURE.md: "Usage is logged to   *)
(* SQLite; tokens accounted to key rate limits"): a row is written only    *)
(* after the key was charged, for the same tokens, with the slot back in   *)
(* the pool; and a request that reached its log row has been charged once. *)
LogAgreesWithKeys ==
  \A r \in Requests :
    logged[r] # Nothing => logged[r] = charged[r] /\ held[r] = NoSlot

(* Whoever got an answer has paid at least for what it was estimated to    *)
(* send: neither a total that the provider reports nor the size limit lets *)
(* an answer through for less (api.rs, extract_response_tokens).           *)
NoFreeAnswers ==
  \A r \in Requests : logged[r] # Nothing => logged[r] >= input[r] /\ ~ OverSize(input[r])

Fair(estimate, v) == estimate <= AllTokens(v) /\ (AllTokens(v) > 0 => estimate > 0)

(* A request is charged and limited by an estimate that counts each text   *)
(* at most once, however deep it lies, and that is 0 only where there is   *)
(* no text at all, and so is an answer without a total: no unusual body    *)
(* passes max_request_tokens and the token limits for nothing (utils.rs,   *)
(* estimate_request_tokens and estimate_response_tokens).                  *)
EstimateCoversText ==
  /\ \A r \in Requests :
       /\ Fair(input[r], body[r])
       /\ logged[r] # Nothing /\ AllTokens(body[r]) > 0 => logged[r] > 0
  /\ \A events \in Answers : \A e \in events :
       e.total = Unreported => Fair(Estimate(e.body, ResponseFields), e.body)

(* The slots of the watched key on their way through ApiKey.               *)
WatchedSlots(phases) ==
  {using[r] : r \in {q \in Requests : phase[q] \in phases /\ KeyOf[using[q]] = Watched}}

Inflight == WatchedSlots({"sending", "backoff", "reading", "streaming", "executing"})
Responded == WatchedSlots({"reading", "streaming"})

OneKey == INSTANCE ApiKey WITH
  Slots    <- {s \in Slots : KeyOf[s] = Watched},
  key      <- keys[Watched],
  inflight <- Inflight,
  answered <- Responded

(* Seen from one key, the requests do what ApiKey allows, so its limits    *)
(* hold in the pool: no slot is admitted again before its request ended.   *)
ImplementsApiKey == OneKey!Init /\ [][OneKey!Next]_(OneKey!vars)

Answered(r) == phase[r] \in {"streaming", "done", "gone"}

(* A request that waits for a slot is answered at last, unless the slots   *)
(* of the pool are, each of them and for ever, lost or behind a stream     *)
(* that stays open, or the channel was overfilled by an import (api.rs:    *)
(* every await after acquire is bounded by a timeout, but not the one for  *)
(* the next event of a stream).                                            *)
Streaming == {held[r] : r \in {q \in Requests : phase[q] = "streaming"}}

EveryRequestAnswered ==
  \A r \in Requests :
    phase[r] = "waiting" ~>
      \/ Answered(r)
      \/ [](InitialSlots \subseteq Lost \cup Streaming)
      \/ offered # InitialSlots

(* docs/RATE_LIMITING.md: the channel allows "concurrent requests up to    *)
(* concurrency * number_of_secrets": with no request in progress all the   *)
(* slots of the pool are free.                                             *)
ConcurrencyKept ==
  (\A r \in Requests : phase[r] \in {"new", "done", "gone"})
    => InitialSlots \subseteq Queued
=============================================================================
