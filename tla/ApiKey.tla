------------------------------- MODULE ApiKey -------------------------------
(***************************************************************************)
(* One provider key and the tasks that share it (core.rs, ApiKey).  The    *)
(* pool holds `concurrency` clones of the key, its Slots; a task that took *)
(* a slot calls try_use, and if it is admitted the request goes upstream   *)
(* and ends in one of three ways: its tokens are recorded, it ends without *)
(* a record (transport failure, /execute), or its task is dropped.  Every  *)
(* method runs under the key's mutex, so a call is one step; the calls of  *)
(* different slots, and the clock, interleave freely.  Which slot is free  *)
(* is the pool's business (KeyPool): here a slot whose request ended may   *)
(* be used again, also one that the pool lost with a dropped task.         *)
(***************************************************************************)
EXTENDS KeyLimits, FiniteSets

CONSTANTS
  Slots,        \* the clones of this key that circulate in the pool
  MaxTokens,    \* the most tokens one request can be charged (bound)
  Midnights,    \* the instants at which a UTC day begins
  MaxTime       \* bound on the clock

ASSUME SlotAssumption == IsFiniteSet(Slots) /\ MaxTokens \in Nat

ASSUME ClockAssumption == Midnights \subseteq Nat /\ MaxTime \in Nat

VARIABLES
  now,          \* monotonic clock
  day,          \* UTC calendar day
  key,          \* ApiKeyInner
  inflight,     \* slots whose request was admitted and has not ended
  answered      \* those of them the provider has answered

vars == <<now, day, key, inflight, answered>>

ApiKeyTypeOK ==
  /\ now \in Nat
  /\ day \in Nat
  /\ key \in KeyState
  /\ inflight \subseteq Slots
  /\ answered \subseteq inflight

Init ==
  /\ now = 0
  /\ day = 0
  /\ \E cool \in BOOLEAN : key = NewKey(now, day, cool)
  /\ inflight = {}
  /\ answered = {}

Tick ==
  /\ now < MaxTime
  /\ now' = now + 1
  /\ day' = IF now' \in Midnights THEN day + 1 ELSE day
  /\ UNCHANGED <<key, inflight, answered>>

(* try_use answers Ok: the slot's request goes upstream. *)
Admit(s) ==
  /\ s \notin inflight
  /\ MayUse(key, now, day)
  /\ key' = TryUse(key, now, day)
  /\ inflight' = inflight \cup {s}
  /\ UNCHANGED <<now, day, answered>>

(* try_use answers Err; windows may have rolled and a cooldown started. *)
Refuse(s) ==
  /\ s \notin inflight
  /\ ~ MayUse(key, now, day)
  /\ key' = TryUse(key, now, day)
  /\ UNCHANGED <<now, day, inflight, answered>>

(* The provider answers: 429 and 5xx set a cooldown, other codes do not. *)
Answer(s) ==
  /\ s \in inflight \ answered
  /\ \/ UNCHANGED key
     \/ key' = SetCooldown(key, now, MinuteLen)
     \/ key' = SetCooldown(key, now, TenSeconds)
  /\ answered' = answered \cup {s}
  /\ UNCHANGED <<now, day, inflight>>

Ended(s) ==
  /\ inflight' = inflight \ {s}
  /\ answered' = answered \ {s}

(* The body is read, or given up, and its tokens are recorded. *)
Record(s, n) ==
  /\ s \in answered
  /\ key' = RecordUsage(key, n)
  /\ Ended(s)
  /\ UNCHANGED <<now, day>>

(* No answer came: ten seconds of cooldown and no record. *)
Fail(s) ==
  /\ s \in inflight \ answered
  /\ key' = SetCooldown(key, now, TenSeconds)
  /\ Ended(s)
  /\ UNCHANGED <<now, day>>

(* /execute records nothing, and a dropped request never gets to it. *)
Abandon(s) ==
  /\ s \in inflight
  /\ Ended(s)
  /\ UNCHANGED <<now, day, key>>

Next ==
  \/ Tick
  \/ \E s \in Slots :
       \/ Admit(s)
       \/ Refuse(s)
       \/ Answer(s)
       \/ Fail(s)
       \/ Abandon(s)
       \/ \E n \in 0 .. MaxTokens : Record(s, n)

Spec == Init /\ [][Next]_vars
=============================================================================
