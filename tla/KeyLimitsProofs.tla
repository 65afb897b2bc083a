--------------------------- MODULE KeyLimitsProofs ---------------------------
(***************************************************************************)
(* What the operators of KeyLimits leave of the fields of a key.  ApiKey's *)
(* proofs and those of the pool of keys (Proxy) rest on these lemmas.      *)
(***************************************************************************)
EXTENDS KeyLimits, TLAPS

(* What rolling the windows leaves of the counters (core.rs, steps 2-5).   *)
LEMMA RolledFields ==
  ASSUME NEW k \in KeyState, NEW n \in Nat, NEW d \in Nat
  PROVE  /\ Rolled(k, n, d) \in KeyState
         /\ Rolled(k, n, d).last_day_reset = d
         /\ Rolled(k, n, d).requests_today =
              IF d # k.last_day_reset THEN 0 ELSE k.requests_today
         /\ Rolled(k, n, d).tokens_today =
              IF d # k.last_day_reset THEN 0 ELSE k.tokens_today
         /\ Rolled(k, n, d).tokens_this_minute \in {0, k.tokens_this_minute}
<1> DEFINE k1 == [k EXCEPT !.banned_until = NoBan]
<1> DEFINE k2 == SecondRolled(k1, n)
<1> DEFINE k3 == MinuteRolled(k2, n)
<1>1. /\ k1 \in KeyState
      /\ k1.last_day_reset = k.last_day_reset
      /\ k1.requests_today = k.requests_today
      /\ k1.tokens_today = k.tokens_today
      /\ k1.tokens_this_minute = k.tokens_this_minute
  BY DEF KeyState, NoBan
<1>2. /\ k2 \in KeyState
      /\ k2.last_day_reset = k.last_day_reset
      /\ k2.requests_today = k.requests_today
      /\ k2.tokens_today = k.tokens_today
      /\ k2.tokens_this_minute = k.tokens_this_minute
  <2> HIDE DEF k1
  <2> QED  BY <1>1 DEF KeyState, SecondRolled
<1>3. /\ k3 \in KeyState
      /\ k3.last_day_reset = k.last_day_reset
      /\ k3.requests_today = k.requests_today
      /\ k3.tokens_today = k.tokens_today
      /\ k3.tokens_this_minute \in {0, k.tokens_this_minute}
  <2> HIDE DEF k2
  <2>1. 0 \in 0 .. U32Max  BY LimitAssumption
  <2> QED  BY <1>2, <2>1 DEF KeyState, MinuteRolled
<1>4. Rolled(k, n, d) = DayRolled(k3, d)  BY DEF Rolled
<1> HIDE DEF k3
<1>5. 0 \in 0 .. U32Max  BY LimitAssumption
<1>6. CASE d # k.last_day_reset
  <2> DEFINE e == [k3 EXCEPT !.requests_today = 0, !.tokens_today = 0,
                             !.last_day_reset = d]
  <2>1. DayRolled(k3, d) = e  BY <1>3, <1>6 DEF DayRolled
  <2>2. e \in KeyState  BY <1>3, <1>5 DEF KeyState
  <2>3. Rolled(k, n, d) = DayRolled(k3, d)  BY <1>4
  <2>4. /\ e.last_day_reset = d
        /\ e.requests_today = 0
        /\ e.tokens_today = 0
        /\ e.tokens_this_minute = k3.tokens_this_minute
    BY <1>3 DEF KeyState
  <2> HIDE DEF e
  <2> QED  BY <1>3, <1>6, <2>1, <2>2, <2>3, <2>4
<1>7. CASE d = k.last_day_reset
  BY <1>3, <1>4, <1>7 DEF DayRolled
<1> QED  BY <1>6, <1>7

(* Adding usage keeps the key's type and never lowers a token counter; it  *)
(* adds exactly the tokens unless the counter ends at its ceiling.         *)
LEMMA RecordFields ==
  ASSUME NEW k \in KeyState, NEW n \in Nat
  PROVE  /\ RecordUsage(k, n) \in KeyState
         /\ RecordUsage(k, n).last_day_reset = k.last_day_reset
         /\ RecordUsage(k, n).requests_today = k.requests_today
         /\ \/ RecordUsage(k, n).tokens_today = k.tokens_today + n
            \/ /\ RecordUsage(k, n).tokens_today = U32Max
               /\ k.tokens_today + n > U32Max
         /\ RecordUsage(k, n).tokens_this_minute <= k.tokens_this_minute + n
<1>1. /\ SaturatingAdd(k.tokens_today, n) \in 0 .. U32Max
      /\ SaturatingAdd(k.tokens_this_minute, n) \in 0 .. U32Max
      /\ SaturatingAdd(k.tokens_this_minute, n) <= k.tokens_this_minute + n
      /\ \/ SaturatingAdd(k.tokens_today, n) = k.tokens_today + n
         \/ SaturatingAdd(k.tokens_today, n) = U32Max /\ k.tokens_today + n > U32Max
  BY LimitAssumption DEF KeyState, SaturatingAdd
<1> HIDE DEF SaturatingAdd
<1> QED  BY <1>1 DEF KeyState, RecordUsage

(* A cooldown changes banned_until and nothing else.                       *)
LEMMA CooldownFields ==
  ASSUME NEW k \in KeyState, NEW n \in Nat, NEW d \in Nat
  PROVE  /\ SetCooldown(k, n, d) \in KeyState
         /\ SetCooldown(k, n, d).banned_until = n + d
         /\ SetCooldown(k, n, d).last_day_reset = k.last_day_reset
         /\ SetCooldown(k, n, d).requests_today = k.requests_today
         /\ SetCooldown(k, n, d).tokens_today = k.tokens_today
         /\ SetCooldown(k, n, d).tokens_this_minute = k.tokens_this_minute
BY DEF KeyState, SetCooldown

(* What an admission implies and does (core.rs, step 6 to Ok).             *)
LEMMA AdmitFields ==
  ASSUME NEW k \in KeyState, NEW n \in Nat, NEW d \in Nat, MayUse(k, n, d),
         NEW r, r = Rolled(k, n, d)
  PROVE  /\ TryUse(k, n, d) \in KeyState
         /\ TryUse(k, n, d).last_day_reset = d
         /\ TryUse(k, n, d).requests_today = r.requests_today + 1
         /\ TryUse(k, n, d).tokens_today = r.tokens_today
         /\ TryUse(k, n, d).tokens_this_minute = r.tokens_this_minute
         /\ RpdLimit # NoLimit => r.requests_today < RpdLimit
         /\ TpmLimit # NoLimit => r.tokens_this_minute < TpmLimit
         /\ TpdLimit # NoLimit => r.tokens_today < TpdLimit
<1>1. r \in KeyState /\ r.last_day_reset = d  BY RolledFields
<1>2. Verdict(k, n, d) = "none"  BY DEF MayUse
<1>3. LimitHit(r) = "none"  BY <1>2 DEF Verdict
<1>4. TryUse(k, n, d) = Admitted(r)  BY <1>2 DEF TryUse
<1>5. /\ ~ Reached(r.requests_today, RpdLimit)
      /\ ~ Reached(r.tokens_this_minute, TpmLimit)
      /\ ~ Reached(r.tokens_today, TpdLimit)
  BY <1>3 DEF LimitHit
<1>6. /\ RpdLimit # NoLimit => r.requests_today < RpdLimit
      /\ TpmLimit # NoLimit => r.tokens_this_minute < TpmLimit
      /\ TpdLimit # NoLimit => r.tokens_today < TpdLimit
  BY <1>1, <1>5, LimitAssumption DEF Reached, KeyState, Limits
<1>7. /\ Admitted(r) \in KeyState
      /\ Admitted(r).last_day_reset = r.last_day_reset
      /\ Admitted(r).requests_today = r.requests_today + 1
      /\ Admitted(r).tokens_today = r.tokens_today
      /\ Admitted(r).tokens_this_minute = r.tokens_this_minute
  <2> DEFINE a == [r EXCEPT !.requests_this_second = @ + 1,
                            !.requests_today = @ + 1]
  <2>1. r.requests_this_second + 1 \in Nat /\ r.requests_today + 1 \in Nat
    BY <1>1 DEF KeyState
  <2>2. Admitted(r) = a  BY DEF Admitted
  <2>3. a \in KeyState  BY <1>1, <2>1 DEF KeyState
  <2>4. /\ a.last_day_reset = r.last_day_reset
        /\ a.requests_today = r.requests_today + 1
        /\ a.tokens_today = r.tokens_today
        /\ a.tokens_this_minute = r.tokens_this_minute
    BY <1>1 DEF KeyState
  <2> QED  BY <2>2, <2>3, <2>4
<1> QED  BY <1>1, <1>4, <1>6, <1>7

(* A refusal leaves the day's books of the key alone or rolls them.        *)
LEMMA RefuseFields ==
  ASSUME NEW k \in KeyState, NEW n \in Nat, NEW d \in Nat, ~ MayUse(k, n, d),
         NEW t, t = TryUse(k, n, d)
  PROVE  /\ t \in KeyState
         /\ t.tokens_this_minute \in {0, k.tokens_this_minute}
         /\ \/ /\ t.last_day_reset = k.last_day_reset
               /\ t.requests_today = k.requests_today
               /\ t.tokens_today = k.tokens_today
            \/ /\ k.last_day_reset # d
               /\ t.last_day_reset = d
               /\ t.requests_today = 0
               /\ t.tokens_today = 0
<1> DEFINE r == Rolled(k, n, d)
<1> DEFINE v == Verdict(k, n, d)
<1>1. CASE v \in {"expired", "cooling"}
  BY <1>1 DEF TryUse
<1>2. CASE v \notin {"expired", "cooling"}
  <2>1. TryUse(k, n, d) = Refused(r, n, v)
    BY <1>2 DEF TryUse, MayUse
  <2>2. /\ r \in KeyState
        /\ r.last_day_reset = d
        /\ r.requests_today = IF d # k.last_day_reset THEN 0 ELSE k.requests_today
        /\ r.tokens_today = IF d # k.last_day_reset THEN 0 ELSE k.tokens_today
        /\ r.tokens_this_minute \in {0, k.tokens_this_minute}
    BY RolledFields
  <2> HIDE DEF r, v
  <2>3. LimitCooldown(v) \in Nat
    BY TimeAssumption DEF LimitCooldown
  <2>4. /\ Refused(r, n, v) \in KeyState
        /\ Refused(r, n, v).last_day_reset = r.last_day_reset
        /\ Refused(r, n, v).requests_today = r.requests_today
        /\ Refused(r, n, v).tokens_today = r.tokens_today
        /\ Refused(r, n, v).tokens_this_minute = r.tokens_this_minute
    <3>1. CASE r.cooldown_on_limit
      BY <3>1, <2>2, <2>3, CooldownFields DEF Refused
    <3>2. CASE ~ r.cooldown_on_limit
      BY <3>2, <2>2 DEF Refused
    <3> QED  BY <3>1, <3>2
  <2> QED  BY <2>1, <2>2, <2>4
<1> QED  BY <1>1, <1>2
=============================================================================
