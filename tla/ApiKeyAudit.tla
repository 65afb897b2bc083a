----------------------------- MODULE ApiKeyAudit -----------------------------
(***************************************************************************)
(* ApiKey with history variables that keep the books the key itself does   *)
(* not keep: what really happened in the current UTC day, in the last      *)
(* second and in the last minute, and the latest cooldown deadline anybody *)
(* set.  The history only observes: no guard of ApiKey depends on it.  The *)
(* properties compare the key's counters with these books.                 *)
(***************************************************************************)
EXTENDS ApiKey

VARIABLES
  admittedToday,  \* admissions since the last midnight UTC
  usedToday,      \* tokens recorded since the last midnight UTC
  recent,         \* admissions of the last second: <<instant, number in its day>>
  usedWithin,     \* usedWithin[a]: tokens recorded in the last a + 1 instants
  promised        \* the latest deadline of any cooldown set so far

books == <<admittedToday, usedToday, recent, usedWithin, promised>>
auditVars == <<now, day, key, inflight, answered,
               admittedToday, usedToday, recent, usedWithin, promised>>

(* The instants of the running minute, by their age. *)
Ages == 0 .. MinuteLen - 1

AuditInit ==
  /\ Init
  /\ usedWithin = [a \in Ages |-> 0]
  /\ admittedToday = 0
  /\ usedToday = 0
  /\ recent = {}
  /\ promised = NoBan

(* A deadline set by this step counts even when it replaces a later one. *)
NotePromise ==
  promised' = IF key'.banned_until > promised THEN key'.banned_until ELSE promised

AuditTick ==
  /\ Tick
  /\ admittedToday' = IF day' = day THEN admittedToday ELSE 0
  /\ usedToday' = IF day' = day THEN usedToday ELSE 0
  /\ recent' = {a \in recent : now' - a[1] < SecondLen}
  /\ usedWithin' = [a \in Ages |-> IF a = 0 THEN 0 ELSE usedWithin[a - 1]]
  /\ UNCHANGED promised

AuditAdmit(s) ==
  /\ Admit(s)
  /\ admittedToday' = admittedToday + 1
  /\ recent' = recent \cup {<<now, admittedToday'>>}
  /\ UNCHANGED <<usedToday, usedWithin, promised>>

AuditRefuse(s) ==
  /\ Refuse(s)
  /\ NotePromise
  /\ UNCHANGED <<admittedToday, usedToday, recent, usedWithin>>

AuditAnswer(s) ==
  /\ Answer(s)
  /\ NotePromise
  /\ UNCHANGED <<admittedToday, usedToday, recent, usedWithin>>

AuditRecord(s, n) ==
  /\ Record(s, n)
  /\ usedToday' = usedToday + n
  /\ usedWithin' = [a \in Ages |-> usedWithin[a] + n]
  /\ UNCHANGED <<admittedToday, recent, promised>>

AuditFail(s) ==
  /\ Fail(s)
  /\ NotePromise
  /\ UNCHANGED <<admittedToday, usedToday, recent, usedWithin>>

AuditAbandon(s) == Abandon(s) /\ UNCHANGED books

AuditNext ==
  \/ AuditTick
  \/ \E s \in Slots :
       \/ AuditAdmit(s)
       \/ AuditRefuse(s)
       \/ AuditAnswer(s)
       \/ AuditFail(s)
       \/ AuditAbandon(s)
       \/ \E n \in 0 .. MaxTokens : AuditRecord(s, n)

AuditSpec == AuditInit /\ [][AuditNext]_auditVars

-----------------------------------------------------------------------------
(* Types of the key, the clocks and the books (core.rs, ApiKeyInner).      *)
TypeOK ==
  /\ ApiKeyTypeOK
  /\ admittedToday \in Nat
  /\ usedToday \in Nat
  /\ recent \subseteq (0 .. now) \X Nat /\ IsFiniteSet(recent)
  /\ usedWithin \in [Ages -> Nat]
  /\ promised \in Nat

MostInFlight == Cardinality(Slots) * MaxTokens

(* RPD (core.rs, try_use): whatever slots interleave and whenever they are *)
(* refused, no UTC day sees more admissions than rpd_limit.                *)
DailyAdmissionsBounded ==
  RpdLimit # NoLimit => admittedToday <= RpdLimit

(* RPS (core.rs, try_use): the window starts at a call and not on a grid,  *)
(* so an interval of one second may straddle two windows and hold twice    *)
(* rps_limit admissions, never more.                                       *)
BurstBounded ==
  RpsLimit # NoLimit => Cardinality(recent) <= 2 * RpsLimit

(* TPM and TPD are checked before a request and charged after it, so slots *)
(* already in flight overshoot the limit: by less than one full request of *)
(* every slot (core.rs, try_use and record_usage).                         *)
OvershootBounded ==
  /\ TpmLimit # NoLimit =>
       key.tokens_this_minute = 0 \/ key.tokens_this_minute < TpmLimit + MostInFlight
  /\ TpdLimit # NoLimit =>
       key.tokens_today = 0 \/ key.tokens_today < TpdLimit + MostInFlight

(* record_usage does not roll the day, so the tokens of requests that were *)
(* in flight over midnight are charged to the old day and forgotten by the *)
(* next try_use.  What a UTC day really uses stays within tpd_limit plus   *)
(* two full rounds of the slots.                                           *)
DailyTokensBounded ==
  TpdLimit # NoLimit => usedToday = 0 \/ usedToday < TpdLimit + 2 * MostInFlight

(* try_use refuses for a cause that is true now: the requests or tokens it *)
(* names were really spent in the last second, the last minute or the      *)
(* current UTC day, and a key that is cooling down was put there.  Stale   *)
(* counters never refuse a request.                                        *)
RefusalsJustified ==
  LET v == Verdict(key, now, day)
  IN  /\ v = "rps" => Cardinality(recent) >= RpsLimit
      /\ v = "rpd" => admittedToday >= RpdLimit
      /\ v = "tpm" => usedWithin[MinuteLen - 1] >= TpmLimit
      /\ v = "tpd" => usedToday >= TpdLimit
      /\ v = "cooling" => now < promised

(* A cooldown in force is neither prolonged nor cut short by the requests  *)
(* it refuses (core.rs, try_use returns before it touches the key): only   *)
(* the end of a request already in flight may move it, so a client that    *)
(* polls cannot keep a key banned.                                         *)
PollingKeepsCooldown ==
  [][ now < key.banned_until /\ inflight' = inflight /\ answered' = answered
        => key' = key ]_auditVars

Admission == \E s \in Slots : inflight' = inflight \cup {s} /\ s \notin inflight

(* docs/RATE_LIMITING.md: "During cooldown, the key returns "Key cooling   *)
(* down" error": nothing is admitted before every cooldown that was set    *)
(* has run out.                                                            *)
CooldownHonoured == [][ Admission => now >= promised ]_auditVars

(* docs/RATE_LIMITING.md: TPD is tokens per day, reset at 00:00 UTC: a     *)
(* request is admitted only while the tokens recorded since midnight are   *)
(* below tpd_limit.                                                        *)
TokensPerDayHonoured ==
  [][ Admission /\ TpdLimit # NoLimit => usedToday < TpdLimit ]_auditVars
=============================================================================
