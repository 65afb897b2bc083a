------------------------------- MODULE Proxy -------------------------------
(***************************************************************************)
(* The requests of one pool (api.rs, handle_proxy_internal and             *)
(* handle_execute): each is a task that takes a key slot from the pool     *)
(* (KeyPool), asks the key for admission (KeyLimits), talks to the         *)
(* provider, charges the key, gives the slot back and logs the usage.      *)
(*                                                                         *)
(* A step runs from one call on shared state to the next.  When its client *)
(* disconnects, a handler is dropped at the await where it is suspended;   *)
(* an answer that is an event stream is passed on by a task of its own,    *)
(* which nobody drops.                                                     *)
(***************************************************************************)
EXTENDS TokenEstimate, KeyPool

CONSTANTS
  Keys,
  KeyOf,               \* the key of each slot
  CooldownOnLimit,     \* the flag of each key
  Executes,            \* requests to /execute, the others are proxied
  Idempotent,          \* GET or HEAD requests that do not ask for a stream
  Bodies,              \* the bodies that each request may have
  Answers,             \* what providers may answer: sets of events
  MaxRequestTokens,    \* max_request_tokens of the keys, or NoLimit
  Nothing,             \* a usage that was not logged
  MaxTokens,           \* the most tokens an answer is charged (bound)
  Midnights, MaxTime   \* as in ApiKey (bound)

ASSUME ProxyAssumption ==
  /\ IsFiniteSet(Slots)
  /\ KeyOf \in [Slots -> Keys]
  /\ CooldownOnLimit \in [Keys -> BOOLEAN]
  /\ Executes \subseteq Requests
  /\ Idempotent \subseteq Requests \ Executes
  /\ \A r \in Executes : Bodies[r] \subseteq {NoTexts}
  /\ MaxRequestTokens \in Limits
  /\ Nothing \notin Nat
  /\ MaxTokens \in Nat /\ Midnights \subseteq Nat /\ MaxTime \in Nat

(* A body has at most 25 MiB (to_bytes), so its tokens fit into 32 bits;   *)
(* an answer may have and report any number.                               *)
ASSUME TextAssumption ==
  /\ Unreported \notin Nat
  /\ DOMAIN Bodies = Requests
  /\ \A r \in Requests : \A v \in Bodies[r] : IsJson(v) /\ AllTokens(v) <= U32Max
  /\ \A events \in Answers :
       /\ IsFiniteSet(events)
       /\ \A e \in events : e.total \in Nat \cup {Unreported} /\ IsJson(e.body)

(* The tokens that an answer may be taken to have. *)
Outputs == {OutputTokens(events) : events \in Answers}

(* Mutant: only the answer is charged. *)
ResponseTokensOfAnswer(output, estimate) == output

(* extract_response_tokens, from the tokens the answer is taken to have:   *)
(* above the input they are taken for the total of both.                   *)
ResponseTokens(output, estimate) ==
  IF output > estimate THEN output ELSE SaturatingAdd(estimate, output)

OverSize(n) == MaxRequestTokens # NoLimit /\ n > MaxRequestTokens

(* No answer is charged more than MaxTokens. *)
ASSUME ChargeAssumption ==
  \A r \in Requests, out \in Outputs : \A v \in Bodies[r] :
    ~ OverSize(RequestTokens(v)) => ResponseTokens(out, RequestTokens(v)) \in 0 .. MaxTokens

VARIABLES
  now, day,      \* the clocks, see ApiKey
  keys,          \* ApiKeyInner of each key
  phase,         \* where each request is
  sends,         \* how often it was sent to the provider
  using,         \* the clone of a key each handler works with, or NoSlot
  body,          \* the body of each request
  detached,      \* requests whose answer is streamed by a task of its own
  tokens,        \* total_tokens of each request
  charged,       \* what record_usage was told for each request (history)
  logged         \* tokens_used of its row in the log, or Nothing

clocks == <<now, day>>
usage == <<body, tokens, charged, logged>>
vars == <<queue, waiting, held, releasing, offered, now, day, keys, phase,
          sends, using, detached, body, tokens, charged, logged>>

(* The estimate of the body of each request. *)
input == [r \in Requests |-> RequestTokens(body[r])]

Phases == {"new", "waiting", "acquired", "sending", "backoff", "reading",
           "streaming", "executing", "returning", "settling", "logging",
           "done", "gone"}

(* The phases in which all that is left is to give the slot back: to       *)
(* respond then, or to log the request first.                              *)
Returning == {"returning", "settling", "executing"}

(* Mutant: the retries count one attempt too many. *)
MaxRetriesAfterFirst(r) == IF r \in Idempotent THEN 3 ELSE 0

MaxRetries(r) == IF r \in Idempotent THEN 2 ELSE 0

KeyInUse(r) == keys[KeyOf[using[r]]]
SetKey(r, k) == keys' = [keys EXCEPT ![KeyOf[using[r]]] = k]
Goto(r, p) == phase' = [phase EXCEPT ![r] = p]

ProxyInit ==
  /\ Init
  /\ now = 0 /\ day = 0
  /\ keys = [k \in Keys |-> NewKey(now, day, CooldownOnLimit[k])]
  /\ phase = [r \in Requests |-> "new"]
  /\ sends = [r \in Requests |-> 0]
  /\ using = [r \in Requests |-> NoSlot]
  /\ detached = {}
  /\ body \in [Requests -> UNION Range(Bodies)]
  /\ \A r \in Requests : body[r] \in Bodies[r]
  /\ tokens = [r \in Requests |-> 0]
  /\ charged = [r \in Requests |-> 0]
  /\ logged = [r \in Requests |-> Nothing]

Tick ==
  /\ now < MaxTime
  /\ now' = now + 1
  /\ day' = IF now' \in Midnights THEN day + 1 ELSE day
  /\ UNCHANGED <<poolVars, keys, phase, sends, using, detached, usage>>

(* 400, 403 or 404: no pool name, no such pool, or no right to use it. *)
Reject(r) ==
  /\ phase[r] = "new" /\ r \notin Executes
  /\ Goto(r, "done")
  /\ UNCHANGED <<poolVars, clocks, keys, sends, using, detached, usage>>

Enter(r) ==
  /\ phase[r] = "new"
  /\ Request(r)
  /\ Goto(r, "waiting")
  /\ UNCHANGED <<clocks, keys, sends, using, detached, usage>>

TakeSlot(r) ==
  /\ phase[r] = "waiting"
  /\ Acquire(r)
  /\ using' = [using EXCEPT ![r] = held'[r]]
  /\ Goto(r, "acquired")
  /\ UNCHANGED <<clocks, keys, sends, detached, usage>>

(* Mutant: the early return of 413 leaves the slot behind. *)
RefuseSizeKeeping(r) ==
  /\ phase[r] = "acquired"
  /\ r \notin Executes /\ OverSize(input[r])
  /\ Goto(r, "done")
  /\ UNCHANGED <<poolVars, clocks, keys, sends, using, detached, usage>>

(* 413: the estimate of the body is over the limit; try_use is not asked.  *)
RefuseSize(r) ==
  /\ phase[r] = "acquired"
  /\ r \notin Executes /\ OverSize(input[r])
  /\ Goto(r, "returning")
  /\ UNCHANGED <<poolVars, clocks, keys, sends, using, detached, usage>>

(* 429, or for /execute an answer that is an error and is logged. *)
Refuse(r) ==
  /\ phase[r] = "acquired" /\ (r \in Executes \/ ~ OverSize(input[r]))
  /\ ~ MayUse(KeyInUse(r), now, day)
  /\ SetKey(r, TryUse(KeyInUse(r), now, day))
  /\ Goto(r, IF r \in Executes THEN "settling" ELSE "returning")
  /\ UNCHANGED <<poolVars, clocks, sends, using, detached, usage>>

(* /execute sends nothing: an admitted task is done. *)
Admit(r) ==
  /\ phase[r] = "acquired" /\ (r \in Executes \/ ~ OverSize(input[r]))
  /\ MayUse(KeyInUse(r), now, day)
  /\ SetKey(r, TryUse(KeyInUse(r), now, day))
  /\ Goto(r, IF r \in Executes THEN "executing" ELSE "sending")
  /\ sends' = IF r \in Executes THEN sends ELSE [sends EXCEPT ![r] = 1]
  /\ UNCHANGED <<poolVars, clocks, using, detached, usage>>

(* A transport error, or 60 s without an answer; an attempt is left. *)
Backoff(r) ==
  /\ phase[r] = "sending" /\ sends[r] <= MaxRetries(r)
  /\ Goto(r, "backoff")
  /\ UNCHANGED <<poolVars, clocks, keys, sends, using, detached, usage>>

(* Mutant: each attempt is counted against the limits of the key. *)
RetryCounted(r) ==
  /\ phase[r] = "backoff"
  /\ sends' = [sends EXCEPT ![r] = @ + 1]
  /\ SetKey(r, TryUse(KeyInUse(r), now, day))
  /\ Goto(r, "sending")
  /\ UNCHANGED <<poolVars, clocks, using, detached, usage>>

Retry(r) ==
  /\ phase[r] = "backoff"
  /\ sends' = [sends EXCEPT ![r] = @ + 1]
  /\ Goto(r, "sending")
  /\ UNCHANGED <<poolVars, clocks, keys, using, detached, usage>>

(* The same with no attempt left: 502, and the key cools down. *)
GiveUp(r) ==
  /\ phase[r] = "sending" /\ sends[r] > MaxRetries(r)
  /\ SetKey(r, SetCooldown(KeyInUse(r), now, TenSeconds))
  /\ Goto(r, "returning")
  /\ UNCHANGED <<poolVars, clocks, sends, using, detached, usage>>

(* Status and headers arrive: 429 and 5xx set a cooldown, and an event     *)
(* stream is handed to a task of its own.                                  *)
Answer(r) ==
  /\ phase[r] = "sending"
  /\ \/ UNCHANGED keys
     \/ SetKey(r, SetCooldown(KeyInUse(r), now, MinuteLen))
     \/ SetKey(r, SetCooldown(KeyInUse(r), now, TenSeconds))
  /\ \/ Goto(r, "reading") /\ UNCHANGED detached
     \/ Goto(r, "streaming") /\ detached' = detached \cup {r}
  /\ UNCHANGED <<poolVars, clocks, sends, using, usage>>

Charge(r, n) ==
  /\ SetKey(r, RecordUsage(KeyInUse(r), n))
  /\ tokens' = [tokens EXCEPT ![r] = n]
  /\ charged' = [charged EXCEPT ![r] = @ + n]
  /\ UNCHANGED <<body, logged>>

BodyRead(r, out) ==
  /\ phase[r] = "reading"
  /\ Charge(r, ResponseTokens(out, input[r]))
  /\ Goto(r, "settling")
  /\ UNCHANGED <<poolVars, clocks, sends, using, detached>>

(* The body breaks off, or takes more than 120 s: 502, without a log row.  *)
BodyLost(r) ==
  /\ phase[r] = "reading"
  /\ Charge(r, 0)
  /\ Goto(r, "returning")
  /\ UNCHANGED <<poolVars, clocks, sends, using, detached>>

(* Mutant: only a stream that ends by itself is charged. *)
StreamEndsUncharged(r, out) ==
  /\ phase[r] = "streaming"
  /\ \/ Charge(r, ResponseTokens(out, input[r]))
     \/ /\ tokens' = [tokens EXCEPT ![r] = ResponseTokens(out, input[r])]
        /\ UNCHANGED <<keys, body, charged, logged>>
  /\ Goto(r, "settling")
  /\ UNCHANGED <<poolVars, clocks, sends, using, detached>>

(* The provider ends or breaks the stream, or the client has gone: what    *)
(* was collected so far is charged.                                        *)
StreamEnds(r, out) ==
  /\ phase[r] = "streaming"
  /\ Charge(r, ResponseTokens(out, input[r]))
  /\ Goto(r, "settling")
  /\ UNCHANGED <<poolVars, clocks, sends, using, detached>>

(* Mutant: the slot goes back when a stream is handed over. *)
GiveBackEarly(r) ==
  /\ phase[r] \in Returning \cup {"streaming"}
  /\ Release(r)
  /\ IF phase[r] = "streaming" THEN UNCHANGED <<using, phase>>
     ELSE /\ using' = [using EXCEPT ![r] = NoSlot]
          /\ Goto(r, IF phase[r] = "returning" THEN "done" ELSE "logging")
  /\ UNCHANGED <<clocks, keys, sends, detached, usage>>

(* The clone is moved back into the channel. *)
GiveBack(r) ==
  /\ phase[r] \in Returning
  /\ Release(r)
  /\ using' = [using EXCEPT ![r] = NoSlot]
  /\ Goto(r, IF phase[r] = "returning" THEN "done" ELSE "logging")
  /\ UNCHANGED <<clocks, keys, sends, detached, usage>>

AwaitRoom(r) ==
  /\ phase[r] \in Returning
  /\ Suspend(r)
  /\ UNCHANGED <<clocks, keys, phase, sends, using, detached, usage>>

(* log_request; its failure is printed and ignored. *)
Log(r) ==
  /\ phase[r] = "logging"
  /\ \/ logged' = [logged EXCEPT ![r] = tokens[r]]
     \/ UNCHANGED logged
  /\ Goto(r, "done")
  /\ UNCHANGED <<poolVars, clocks, keys, sends, using, detached, body, tokens, charged>>

(* The handler is suspended at an await. *)
Droppable(r) ==
  /\ r \notin detached
  /\ \/ phase[r] \in {"waiting", "sending", "backoff", "reading", "logging"}
     \/ r \in releasing

Disconnect(r) ==
  /\ Droppable(r)
  /\ IF phase[r] = "logging" THEN UNCHANGED poolVars ELSE Drop(r)
  /\ using' = [using EXCEPT ![r] = NoSlot]
  /\ Goto(r, "gone")
  /\ UNCHANGED <<clocks, keys, sends, detached, usage>>

(* import_key gives each new key a state of its own and one or more slots. *)
Import(s) ==
  /\ AddKey(s)
  /\ keys' = IF \E t \in offered : KeyOf[t] = KeyOf[s] THEN keys
             ELSE [keys EXCEPT ![KeyOf[s]] =
                     NewKey(now, day, CooldownOnLimit[KeyOf[s]])]
  /\ UNCHANGED <<clocks, phase, sends, using, detached, usage>>

(* What a request does once it has entered, but for the end of a stream.   *)
Proceed(r) ==
  \/ TakeSlot(r)
  \/ RefuseSize(r)
  \/ Refuse(r)
  \/ Admit(r)
  \/ Backoff(r)
  \/ Retry(r)
  \/ GiveUp(r)
  \/ Answer(r)
  \/ BodyLost(r)
  \/ \E out \in Outputs : BodyRead(r, out)
  \/ GiveBack(r)
  \/ AwaitRoom(r)
  \/ Log(r)

ProxyNext ==
  \/ Tick
  \/ \E r \in Requests :
       \/ Reject(r)
       \/ Enter(r)
       \/ Proceed(r)
       \/ \E out \in Outputs : StreamEnds(r, out)
       \/ Disconnect(r)
  \/ \E s \in Slots : Import(s)

(* The runtime polls every task that can go on, and every wait for the     *)
(* provider has a timeout but a stream's: it may stay open for ever.       *)
Fairness == \A r \in Requests : WF_vars(Proceed(r))

ProxySpec == ProxyInit /\ [][ProxyNext]_vars /\ Fairness
=============================================================================
