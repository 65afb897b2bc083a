------------------------------ MODULE KeyLimits ------------------------------
(***************************************************************************)
(* The state of one provider key (core.rs, ApiKeyInner) and what its       *)
(* methods compute under the key's mutex: try_use, record_usage and        *)
(* set_cooldown.  The module has no variables: ApiKey gives one key its    *)
(* behaviour, Proxy runs several keys with the same operators.             *)
(*                                                                         *)
(* Time.  `now` is the monotonic clock (tokio Instant), a number of ticks. *)
(* `day` is the number of the UTC calendar day: the code stores a whole    *)
(* DateTime in last_day_reset but only ever reads its date.                *)
(***************************************************************************)
EXTENDS Integers

CONSTANTS
  SecondLen,      \* 1 s in ticks: the RPS window and its cooldown
  TenSeconds,     \* cooldown after a 5xx answer or a transport failure
  MinuteLen,      \* 60 s: the TPM window, its cooldown, cooldown after a 429
  HourLen,        \* 3600 s: the cooldown of the two daily limits
  RpsLimit, RpdLimit, TpmLimit, TpdLimit,   \* Option<u32>
  NoLimit,        \* None, for a limit that is not configured
  ExpiresAt,      \* expires_at, in ticks, or Never
  Never,
  U32Max          \* the largest u32, where saturating_add stops

Limits == {NoLimit} \cup (0 .. U32Max)

ASSUME TimeAssumption ==
  /\ {SecondLen, TenSeconds, MinuteLen, HourLen} \subseteq Nat \ {0}
  /\ ExpiresAt \in Nat \cup {Never}

ASSUME LimitAssumption ==
  /\ U32Max \in Nat
  /\ NoLimit \notin Int
  /\ {RpsLimit, RpdLimit, TpmLimit, TpdLimit} \subseteq Limits

(* 0 stands for banned_until = None: no instant is below it. *)
NoBan == 0

KeyState ==
  [ requests_this_second : Nat,
    last_second_reset    : Nat,
    requests_today       : Nat,
    last_day_reset       : Nat,
    tokens_this_minute   : 0 .. U32Max,
    last_minute_reset    : Nat,
    tokens_today         : 0 .. U32Max,
    banned_until         : Nat,
    cooldown_on_limit    : BOOLEAN ]

NewKey(now, day, cool) ==
  [ requests_this_second |-> 0,
    last_second_reset    |-> now,
    requests_today       |-> 0,
    last_day_reset       |-> day,
    tokens_this_minute   |-> 0,
    last_minute_reset    |-> now,
    tokens_today         |-> 0,
    banned_until         |-> NoBan,
    cooldown_on_limit    |-> cool ]

SetCooldown(k, now, d) == [k EXCEPT !.banned_until = now + d]

(* Mutant: the addition of a wider integer, without a ceiling. *)
PlainAdd(a, b) == a + b

SaturatingAdd(a, b) == IF a + b > U32Max THEN U32Max ELSE a + b

(* record_usage adds to both token counters; it rolls no window. *)
RecordUsage(k, n) ==
  [k EXCEPT !.tokens_this_minute = SaturatingAdd(@, n),
            !.tokens_today       = SaturatingAdd(@, n)]

(* Mutant: the window restarts and its start is not moved. *)
SecondRolledInPlace(k, now) ==
  IF now - k.last_second_reset >= SecondLen
  THEN [k EXCEPT !.requests_this_second = 0]
  ELSE k

SecondRolled(k, now) ==
  IF now - k.last_second_reset >= SecondLen
  THEN [k EXCEPT !.requests_this_second = 0, !.last_second_reset = now]
  ELSE k

(* Mutant: the day's requests restart with the minute. *)
MinuteRolledAll(k, now) ==
  IF now - k.last_minute_reset >= MinuteLen
  THEN [k EXCEPT !.tokens_this_minute = 0, !.requests_today = 0,
                 !.last_minute_reset = now]
  ELSE k

(* Mutant: the day's tokens restart with the minute. *)
MinuteRolledTokens(k, now) ==
  IF now - k.last_minute_reset >= MinuteLen
  THEN [k EXCEPT !.tokens_this_minute = 0, !.tokens_today = 0,
                 !.last_minute_reset = now]
  ELSE k

(* Mutant: a new minute begins with the tokens of the last. *)
MinuteRolledKept(k, now) ==
  IF now - k.last_minute_reset >= MinuteLen
  THEN [k EXCEPT !.last_minute_reset = now]
  ELSE k

MinuteRolled(k, now) ==
  IF now - k.last_minute_reset >= MinuteLen
  THEN [k EXCEPT !.tokens_this_minute = 0, !.last_minute_reset = now]
  ELSE k

(* Mutant: a new day forgets the requests and keeps the tokens. *)
DayRolledRequestsOnly(k, day) ==
  IF day # k.last_day_reset
  THEN [k EXCEPT !.requests_today = 0, !.last_day_reset = day]
  ELSE k

DayRolled(k, day) ==
  IF day # k.last_day_reset
  THEN [k EXCEPT !.requests_today = 0, !.tokens_today = 0,
                 !.last_day_reset = day]
  ELSE k

(* Steps 2 to 5 of try_use: a lapsed ban is lifted, ended windows restart. *)
Rolled(k, now, day) ==
  DayRolled(MinuteRolled(SecondRolled([k EXCEPT !.banned_until = NoBan],
                                      now), now), day)

(* Mutant: a limit is reached only when it is exceeded. *)
ReachedLate(count, limit) == limit # NoLimit /\ count > limit

Reached(count, limit) == limit # NoLimit /\ count >= limit

(* Step 6: the first limit reached, in the order the code asks. *)
LimitHit(k) ==
  IF      Reached(k.requests_this_second, RpsLimit) THEN "rps"
  ELSE IF Reached(k.requests_today, RpdLimit)       THEN "rpd"
  ELSE IF Reached(k.tokens_this_minute, TpmLimit)   THEN "tpm"
  ELSE IF Reached(k.tokens_today, TpdLimit)         THEN "tpd"
  ELSE "none"

LimitCooldown(hit) ==
  CASE hit = "rps" -> SecondLen
    [] hit = "tpm" -> MinuteLen
    [] OTHER       -> HourLen

Admitted(k) ==
  [k EXCEPT !.requests_this_second = @ + 1, !.requests_today = @ + 1]

Refused(k, now, hit) ==
  IF k.cooldown_on_limit THEN SetCooldown(k, now, LimitCooldown(hit)) ELSE k

Expired(now) == ExpiresAt # Never /\ now > ExpiresAt
CoolingDown(k, now) == now < k.banned_until

(* The answer of try_use ... *)
Verdict(k, now, day) ==
  IF      Expired(now)        THEN "expired"
  ELSE IF CoolingDown(k, now) THEN "cooling"
  ELSE LimitHit(Rolled(k, now, day))

MayUse(k, now, day) == Verdict(k, now, day) = "none"

(* Mutant: the windows roll, and the ban is lifted, before the ban is read. *)
TryUseRollsFirst(k, now, day) ==
  LET v == Verdict(k, now, day)
  IN  CASE v = "none"                   -> Admitted(Rolled(k, now, day))
        [] v \in {"expired", "cooling"} -> Rolled(k, now, day)
        [] OTHER                        -> Refused(Rolled(k, now, day), now, v)

(* ... and the key it leaves behind. *)
TryUse(k, now, day) ==
  LET v == Verdict(k, now, day)
  IN  CASE v \in {"expired", "cooling"} -> k
        [] v = "none"                   -> Admitted(Rolled(k, now, day))
        [] OTHER                        -> Refused(Rolled(k, now, day), now, v)
=============================================================================
