---------------------------- MODULE ApiKeyProofs ----------------------------
(***************************************************************************)
(* What holds of one key for every choice of limits, windows, slots and    *)
(* clocks: the typing invariant, the books of the day (admissions and      *)
(* tokens), and the window of a second.  The lemmas about the operators of *)
(* a key are in KeyLimitsProofs.                                           *)
(***************************************************************************)
EXTENDS ApiKeyAudit, KeyLimitsProofs, FiniteSetTheorems, TLAPS

(* Types: every clause of TypeOK is kept by every action of AuditNext.     *)
THEOREM Typing == AuditSpec => []TypeOK
<1>1. AuditInit => TypeOK
  <2> SUFFICES ASSUME AuditInit PROVE TypeOK  OBVIOUS
  <2>1. now = 0 /\ day = 0 /\ inflight = {} /\ answered = {}
    BY DEF AuditInit, Init
  <2>2. key \in KeyState
    BY LimitAssumption DEF AuditInit, Init, NewKey, KeyState, NoBan
  <2>3. /\ admittedToday \in Nat /\ usedToday \in Nat /\ promised \in Nat
        /\ recent = {}
    BY DEF AuditInit, NoBan
  <2>4. usedWithin \in [Ages -> Nat]  BY DEF AuditInit
  <2> QED  BY <2>1, <2>2, <2>3, <2>4, FS_EmptySet DEF TypeOK, ApiKeyTypeOK
<1>2. TypeOK /\ [AuditNext]_auditVars => TypeOK'
  <2> SUFFICES ASSUME TypeOK, [AuditNext]_auditVars PROVE TypeOK'  OBVIOUS
  <2> USE DEF TypeOK, ApiKeyTypeOK
  <2>1. CASE AuditTick
    <3>1. recent' \subseteq recent  BY <2>1 DEF AuditTick
    <3>2. IsFiniteSet(recent')  BY <3>1, FS_Subset
    <3>3. recent' \subseteq (0 .. now') \X Nat  BY <2>1, <3>1 DEF AuditTick, Tick
    <3>4. usedWithin' \in [Ages -> Nat]
      <4>1. \A a \in Ages : a # 0 => a - 1 \in Ages
        BY TimeAssumption DEF Ages
      <4> QED  BY <2>1, <4>1 DEF AuditTick
    <3> QED  BY <2>1, <3>2, <3>3, <3>4 DEF AuditTick, Tick
  <2>2. ASSUME NEW s \in Slots, AuditAdmit(s) PROVE TypeOK'
    <3>1. key' \in KeyState
      BY <2>2, AdmitFields DEF AuditAdmit, Admit
    <3>2. /\ recent' = recent \cup {<<now, admittedToday'>>}
          /\ now' = now /\ admittedToday' \in Nat
      BY <2>2 DEF AuditAdmit, Admit
    <3>3. IsFiniteSet(recent')
      BY <3>2, FS_AddElement
    <3>4. recent' \subseteq (0 .. now') \X Nat
      BY <3>2
    <3> QED  BY <2>2, <3>1, <3>2, <3>3, <3>4 DEF AuditAdmit, Admit
  <2>3. ASSUME NEW s \in Slots, AuditRefuse(s) PROVE TypeOK'
    <3>1. key' \in KeyState
      BY <2>3, RefuseFields DEF AuditRefuse, Refuse
    <3>2. key'.banned_until \in Nat  BY <3>1 DEF KeyState
    <3> QED  BY <2>3, <3>1, <3>2 DEF AuditRefuse, Refuse, NotePromise
  <2>4. ASSUME NEW s \in Slots, AuditAnswer(s) PROVE TypeOK'
    <3>1. key' \in KeyState
      BY <2>4, CooldownFields, TimeAssumption DEF AuditAnswer, Answer
    <3>2. key'.banned_until \in Nat  BY <3>1 DEF KeyState
    <3> QED  BY <2>4, <3>1, <3>2 DEF AuditAnswer, Answer, NotePromise
  <2>5. ASSUME NEW s \in Slots, AuditFail(s) PROVE TypeOK'
    <3>1. key' \in KeyState
      BY <2>5, CooldownFields, TimeAssumption DEF AuditFail, Fail
    <3>2. key'.banned_until \in Nat  BY <3>1 DEF KeyState
    <3> QED  BY <2>5, <3>1, <3>2 DEF AuditFail, Fail, Ended, NotePromise
  <2>6. ASSUME NEW s \in Slots, AuditAbandon(s) PROVE TypeOK'
    BY <2>6 DEF AuditAbandon, Abandon, Ended, books
  <2>7. ASSUME NEW s \in Slots, NEW n \in 0 .. MaxTokens, AuditRecord(s, n)
        PROVE TypeOK'
    <3>1. n \in Nat  BY SlotAssumption
    <3>2. key' \in KeyState
      BY <2>7, <3>1, RecordFields DEF AuditRecord, Record
    <3>3. usedWithin' \in [Ages -> Nat]  BY <2>7, <3>1 DEF AuditRecord
    <3> QED  BY <2>7, <3>1, <3>2, <3>3 DEF AuditRecord, Record, Ended
  <2>8. CASE UNCHANGED auditVars  BY <2>8 DEF auditVars
  <2> QED  BY <2>1, <2>2, <2>3, <2>4, <2>5, <2>6, <2>7, <2>8 DEF AuditNext
<1> QED  BY <1>1, <1>2, PTL DEF AuditSpec

-----------------------------------------------------------------------------
(* An answer or a failure moves the cooldown and no counter of the key.    *)
LEMMA CooldownSteps ==
  ASSUME TypeOK, NEW s \in Slots, Answer(s) \/ Fail(s)
  PROVE  /\ key'.last_day_reset = key.last_day_reset
         /\ key'.requests_today = key.requests_today
         /\ key'.tokens_today = key.tokens_today
         /\ key'.tokens_this_minute = key.tokens_this_minute
         /\ UNCHANGED <<now, day>>
<1>1. key \in KeyState /\ now \in Nat  BY DEF TypeOK, ApiKeyTypeOK
<1>2. MinuteLen \in Nat /\ TenSeconds \in Nat  BY TimeAssumption
<1>3. \/ key' = key
      \/ key' = SetCooldown(key, now, MinuteLen)
      \/ key' = SetCooldown(key, now, TenSeconds)
  BY DEF Answer, Fail
<1>4. ASSUME NEW d \in Nat
      PROVE  /\ SetCooldown(key, now, d).last_day_reset = key.last_day_reset
             /\ SetCooldown(key, now, d).requests_today = key.requests_today
             /\ SetCooldown(key, now, d).tokens_today = key.tokens_today
             /\ SetCooldown(key, now, d).tokens_this_minute = key.tokens_this_minute
  BY <1>1, CooldownFields
<1>5. UNCHANGED <<now, day>>  BY DEF Answer, Fail
<1> QED  BY <1>2, <1>3, <1>4, <1>5

-----------------------------------------------------------------------------
(* The day's requests: on the key's current day its counter is the true    *)
(* count, and on a day the key has not seen yet nothing was admitted.      *)
DayBooks ==
  /\ key.last_day_reset <= day
  /\ key.last_day_reset = day => key.requests_today = admittedToday
  /\ key.last_day_reset < day => admittedToday = 0
  /\ DailyAdmissionsBounded

LEMMA DayInit == AuditInit => DayBooks
BY LimitAssumption
DEF AuditInit, Init, NewKey, DayBooks, DailyAdmissionsBounded, Limits

LEMMA DayStep == TypeOK /\ DayBooks /\ [AuditNext]_auditVars => DayBooks'
<1> SUFFICES ASSUME TypeOK, DayBooks, [AuditNext]_auditVars PROVE DayBooks'
  OBVIOUS
<1> USE DEF DayBooks, DailyAdmissionsBounded
<1>0. /\ key \in KeyState /\ now \in Nat /\ day \in Nat
      /\ key.last_day_reset \in Nat /\ key.requests_today \in Nat
      /\ admittedToday \in Nat
      /\ RpdLimit # NoLimit => RpdLimit \in Nat
  BY LimitAssumption DEF TypeOK, ApiKeyTypeOK, KeyState, Limits
<1>1. CASE AuditTick
  <2>1. day' \in {day, day + 1}  BY <1>1 DEF AuditTick, Tick
  <2> QED  BY <1>0, <1>1, <2>1 DEF AuditTick, Tick
<1>2. ASSUME NEW s \in Slots, AuditAdmit(s) PROVE DayBooks'
  <2> DEFINE r == Rolled(key, now, day)
  <2>1. r.requests_today = IF day # key.last_day_reset THEN 0
                                                      ELSE key.requests_today
    BY <1>0, RolledFields
  <2>2. /\ key'.last_day_reset = day
        /\ key'.requests_today = r.requests_today + 1
        /\ RpdLimit # NoLimit => r.requests_today < RpdLimit
    BY <1>0, <1>2, AdmitFields DEF AuditAdmit, Admit
  <2>3. admittedToday' = admittedToday + 1 /\ day' = day
    BY <1>2 DEF AuditAdmit, Admit
  <2> HIDE DEF r
  <2>4. r.requests_today = admittedToday
    BY <1>0, <2>1
  <2> QED  BY <1>0, <2>2, <2>3, <2>4
<1>3. ASSUME NEW s \in Slots, AuditRefuse(s) PROVE DayBooks'
  <2>1. \/ /\ key'.last_day_reset = key.last_day_reset
           /\ key'.requests_today = key.requests_today
        \/ /\ key.last_day_reset # day
           /\ key'.last_day_reset = day
           /\ key'.requests_today = 0
    BY <1>0, <1>3, RefuseFields DEF AuditRefuse, Refuse
  <2> QED  BY <1>0, <1>3, <2>1 DEF AuditRefuse, Refuse
<1>4. ASSUME NEW s \in Slots, AuditAnswer(s) PROVE DayBooks'
  BY <1>4, CooldownSteps DEF AuditAnswer
<1>5. ASSUME NEW s \in Slots, AuditFail(s) PROVE DayBooks'
  BY <1>5, CooldownSteps DEF AuditFail
<1>6. ASSUME NEW s \in Slots, AuditAbandon(s) PROVE DayBooks'
  BY <1>6 DEF AuditAbandon, Abandon, books
<1>7. ASSUME NEW s \in Slots, NEW n \in 0 .. MaxTokens, AuditRecord(s, n)
      PROVE DayBooks'
  <2>1. n \in Nat  BY SlotAssumption
  <2>2. /\ key'.last_day_reset = key.last_day_reset
        /\ key'.requests_today = key.requests_today
    BY <1>0, <1>7, <2>1, RecordFields DEF AuditRecord, Record
  <2> QED  BY <1>0, <1>7, <2>2 DEF AuditRecord, Record
<1>8. CASE UNCHANGED auditVars  BY <1>8 DEF auditVars
<1> QED  BY <1>1, <1>2, <1>3, <1>4, <1>5, <1>6, <1>7, <1>8 DEF AuditNext

(* RPD: no UTC day sees more admissions than rpd_limit.                    *)
THEOREM DailyAdmissions == AuditSpec => []DailyAdmissionsBounded
<1>1. DayBooks => DailyAdmissionsBounded  BY DEF DayBooks
<1> QED  BY <1>1, DayInit, DayStep, Typing, PTL DEF AuditSpec

-----------------------------------------------------------------------------
(* The tokens that requests in flight may still add.                       *)
Charge(S) == Cardinality(S) * MaxTokens

LEMMA ChargeFacts ==
  ASSUME NEW S \in SUBSET Slots
  PROVE  /\ Charge(S) \in Nat
         /\ MostInFlight \in Nat
         /\ Charge(S) <= MostInFlight
         /\ \A s \in S : Charge(S \ {s}) = Charge(S) - MaxTokens
         /\ \A s \in S : Charge(S \ {s}) \in Nat
<1>1. IsFiniteSet(S) /\ Cardinality(S) <= Cardinality(Slots)
  BY SlotAssumption, FS_Subset
<1>2. Cardinality(S) \in Nat /\ Cardinality(Slots) \in Nat /\ MaxTokens \in Nat
  BY <1>1, SlotAssumption, FS_CardinalityType
<1>3. \A a, b, m \in Nat : a <= b => a * m <= b * m /\ a * m \in Nat /\ b * m \in Nat
  OBVIOUS
<1>4. \A a, m \in Nat : a > 0 => (a - 1) * m = a * m - m
  OBVIOUS
<1>5. ASSUME NEW s \in S
      PROVE  /\ Charge(S \ {s}) = Charge(S) - MaxTokens
             /\ Charge(S \ {s}) \in Nat
  <2>1. Cardinality(S \ {s}) = Cardinality(S) - 1 /\ IsFiniteSet(S \ {s})
    BY <1>1, FS_RemoveElement
  <2>2. Cardinality(S \ {s}) \in Nat  BY <2>1, FS_CardinalityType
  <2>3. Cardinality(S) > 0  BY <1>2, <2>1, <2>2
  <2> QED  BY <1>2, <1>3, <1>4, <2>1, <2>2, <2>3 DEF Charge
<1> QED  BY <1>2, <1>3, <1>1, <1>5 DEF Charge, MostInFlight

(* The minute's tokens together with those still in flight.                *)
MinuteBooks ==
  TpmLimit # NoLimit =>
    IF TpmLimit = 0
    THEN key.tokens_this_minute = 0 /\ inflight = {}
    ELSE key.tokens_this_minute + Charge(inflight) < TpmLimit + MostInFlight

(* The day's tokens.  On the key's current day: what the key counted and   *)
(* what is in flight stay below one overshoot, and what it forgot at       *)
(* midnight adds at most another.  On a day the key has not seen: all that *)
(* was recorded came from requests in flight over midnight.                *)
TodayBooks ==
  TpdLimit # NoLimit =>
    /\ key.last_day_reset <= day
    /\ IF TpdLimit = 0
       THEN key.tokens_today = 0 /\ usedToday = 0 /\ inflight = {}
       ELSE /\ key.tokens_today + Charge(inflight) < TpdLimit + MostInFlight
            /\ usedToday + Charge(inflight) < TpdLimit + 2 * MostInFlight
            /\ key.last_day_reset = day /\ key.tokens_today < U32Max =>
                 usedToday <= key.tokens_today + MostInFlight
            /\ key.last_day_reset < day =>
                 usedToday + Charge(inflight) <= MostInFlight

LEMMA MinuteBooksStep ==
  ASSUME TypeOK, MinuteBooks, [AuditNext]_auditVars
  PROVE  MinuteBooks'
<1> SUFFICES ASSUME TpmLimit # NoLimit
             PROVE  IF TpmLimit = 0
                    THEN key'.tokens_this_minute = 0 /\ inflight' = {}
                    ELSE key'.tokens_this_minute + Charge(inflight')
                           < TpmLimit + MostInFlight
  BY DEF MinuteBooks, MostInFlight, Charge
<1>1. /\ key \in KeyState /\ now \in Nat /\ day \in Nat
      /\ key.tokens_this_minute \in Nat
      /\ TpmLimit \in Nat /\ MaxTokens \in Nat
      /\ inflight \subseteq Slots /\ answered \subseteq inflight
  BY LimitAssumption, SlotAssumption DEF TypeOK, ApiKeyTypeOK, KeyState, Limits
<1>2. /\ MostInFlight \in Nat /\ Charge(inflight) \in Nat
      /\ Charge(inflight) <= MostInFlight
  BY <1>1, ChargeFacts
<1>3. CASE AuditTick \/ UNCHANGED auditVars
  BY <1>3 DEF MinuteBooks, AuditTick, Tick, auditVars
<1>4. ASSUME NEW s \in Slots, AuditAdmit(s)
      PROVE  TpmLimit # 0 /\ key'.tokens_this_minute + Charge(inflight')
                                < TpmLimit + MostInFlight
  <2> DEFINE r == Rolled(key, now, day)
  <2>1. /\ key' \in KeyState
        /\ key'.tokens_this_minute = r.tokens_this_minute
        /\ r.tokens_this_minute < TpmLimit
    BY <1>1, <1>4, AdmitFields DEF AuditAdmit, Admit
  <2>2. key'.tokens_this_minute \in Nat  BY <2>1, LimitAssumption DEF KeyState
  <2>3. inflight' \subseteq Slots  BY <1>1, <1>4 DEF AuditAdmit, Admit
  <2>4. Charge(inflight') \in Nat /\ Charge(inflight') <= MostInFlight
    BY <2>3, ChargeFacts
  <2> HIDE DEF r
  <2> QED  BY <1>1, <1>2, <2>1, <2>2, <2>4
<1>5. ASSUME NEW s \in Slots, AuditRefuse(s)
      PROVE  /\ key'.tokens_this_minute \in {0, key.tokens_this_minute}
             /\ inflight' = inflight
  BY <1>1, <1>5, RefuseFields DEF AuditRefuse, Refuse
<1>6. ASSUME NEW s \in Slots, AuditAnswer(s) \/ AuditFail(s) \/ AuditAbandon(s)
      PROVE  /\ key'.tokens_this_minute = key.tokens_this_minute
             /\ inflight' = inflight \/ (s \in inflight /\ inflight' = inflight \ {s})
  BY <1>6, CooldownSteps
  DEF AuditAnswer, Answer, AuditFail, Fail, AuditAbandon, Abandon, Ended
<1>7. ASSUME NEW s \in Slots, NEW n \in 0 .. MaxTokens, AuditRecord(s, n)
      PROVE  /\ key'.tokens_this_minute \in Nat
             /\ key'.tokens_this_minute <= key.tokens_this_minute + n
             /\ s \in inflight /\ inflight' = inflight \ {s}
  <2>1. n \in Nat  BY SlotAssumption
  <2>2. /\ key' \in KeyState
        /\ key'.tokens_this_minute <= key.tokens_this_minute + n
    BY <1>1, <1>7, <2>1, RecordFields DEF AuditRecord, Record
  <2>3. key'.tokens_this_minute \in Nat  BY <2>2, LimitAssumption DEF KeyState
  <2> QED  BY <1>1, <1>7, <2>2, <2>3 DEF AuditRecord, Record, Ended
<1>8. \A s \in inflight : /\ Charge(inflight \ {s}) = Charge(inflight) - MaxTokens
                          /\ Charge(inflight \ {s}) \in Nat
  BY <1>1, ChargeFacts
<1> HIDE DEF Charge, MostInFlight
<1>9. CASE \E s \in Slots : AuditAdmit(s)
  BY <1>9, <1>4
<1>10. CASE \E s \in Slots : AuditRefuse(s)
  BY <1>1, <1>2, <1>5, <1>10 DEF MinuteBooks
<1>11. CASE \E s \in Slots : AuditAnswer(s) \/ AuditFail(s) \/ AuditAbandon(s)
  BY <1>1, <1>2, <1>6, <1>8, <1>11 DEF MinuteBooks
<1>12. CASE \E s \in Slots : \E n \in 0 .. MaxTokens : AuditRecord(s, n)
  BY <1>1, <1>2, <1>7, <1>8, <1>12 DEF MinuteBooks
<1> QED  BY <1>3, <1>9, <1>10, <1>11, <1>12 DEF AuditNext

LEMMA TodayBooksStep ==
  ASSUME TypeOK, TodayBooks, [AuditNext]_auditVars
  PROVE  TodayBooks'
<1> SUFFICES ASSUME TpdLimit # NoLimit PROVE TodayBooks'
  BY DEF TodayBooks
<1> USE DEF TodayBooks
<1>1. /\ key \in KeyState /\ now \in Nat /\ day \in Nat
      /\ key.tokens_today \in Nat /\ key.last_day_reset \in Nat
      /\ usedToday \in Nat /\ U32Max \in Nat
      /\ TpdLimit \in Nat /\ TpdLimit <= U32Max /\ MaxTokens \in Nat
      /\ inflight \subseteq Slots /\ answered \subseteq inflight
  BY LimitAssumption, SlotAssumption DEF TypeOK, ApiKeyTypeOK, KeyState, Limits
<1>2. /\ MostInFlight \in Nat /\ Charge(inflight) \in Nat
      /\ Charge(inflight) <= MostInFlight
  BY <1>1, ChargeFacts
<1>3. \A s \in inflight : /\ Charge(inflight \ {s}) = Charge(inflight) - MaxTokens
                          /\ Charge(inflight \ {s}) \in Nat
  BY <1>1, ChargeFacts
<1>4. MostInFlight' = MostInFlight  BY DEF MostInFlight
<1>5. \A S : Charge(S)' = Charge(S')  BY DEF Charge
<1> HIDE DEF Charge, MostInFlight
<1>6. CASE AuditTick
  <2>1. /\ day' \in {day, day + 1} /\ key' = key /\ inflight' = inflight
        /\ usedToday' = IF day' = day THEN usedToday ELSE 0
    BY <1>6 DEF AuditTick, Tick
  <2>2. Charge(inflight)' = Charge(inflight)  BY <2>1 DEF Charge
  <2> QED  BY <1>1, <1>2, <1>4, <2>1, <2>2
<1>7. CASE UNCHANGED auditVars
  BY <1>7 DEF auditVars, Charge, MostInFlight
<1>8. ASSUME NEW s \in Slots, AuditAdmit(s) PROVE TodayBooks'
  <2> DEFINE r == Rolled(key, now, day)
  <2>1. r.tokens_today = IF day # key.last_day_reset THEN 0 ELSE key.tokens_today
    BY <1>1, RolledFields
  <2>2. /\ key'.last_day_reset = day
        /\ key'.tokens_today = r.tokens_today
        /\ r.tokens_today < TpdLimit
    BY <1>1, <1>8, AdmitFields DEF AuditAdmit, Admit
  <2>3. inflight' \subseteq Slots /\ day' = day /\ usedToday' = usedToday
    BY <1>1, <1>8 DEF AuditAdmit, Admit
  <2>4. Charge(inflight)' \in Nat /\ Charge(inflight)' <= MostInFlight
    BY <2>3, ChargeFacts DEF Charge
  <2> HIDE DEF r
  <2>5. key'.tokens_today \in Nat /\ key'.tokens_today < TpdLimit
    BY <1>1, <2>1, <2>2
  <2>6. CASE day = key.last_day_reset
    BY <1>1, <1>2, <1>4, <2>1, <2>2, <2>3, <2>4, <2>5, <2>6
  <2>7. CASE day # key.last_day_reset
    <3>1. key'.tokens_today = 0 /\ usedToday <= MostInFlight
      BY <1>1, <1>2, <2>1, <2>2, <2>5, <2>7
    <3> QED  BY <1>1, <1>2, <1>4, <2>2, <2>3, <2>4, <2>5, <3>1
  <2> QED  BY <2>6, <2>7
<1>9. ASSUME NEW s \in Slots, AuditRefuse(s) PROVE TodayBooks'
  <2>1. \/ /\ key'.last_day_reset = key.last_day_reset
           /\ key'.tokens_today = key.tokens_today
        \/ /\ key.last_day_reset # day
           /\ key'.last_day_reset = day
           /\ key'.tokens_today = 0
    BY <1>1, <1>9, RefuseFields DEF AuditRefuse, Refuse
  <2>2. UNCHANGED <<day, inflight, usedToday>>  BY <1>9 DEF AuditRefuse, Refuse
  <2>3. Charge(inflight)' = Charge(inflight)  BY <2>2 DEF Charge
  <2> QED  BY <1>1, <1>2, <1>4, <2>1, <2>2, <2>3
<1>10. ASSUME NEW s \in Slots, AuditAnswer(s) \/ AuditFail(s) \/ AuditAbandon(s)
       PROVE  TodayBooks'
  <2>1. /\ key'.last_day_reset = key.last_day_reset
        /\ key'.tokens_today = key.tokens_today
        /\ UNCHANGED <<day, usedToday>>
    BY <1>10, CooldownSteps
    DEF AuditAnswer, AuditFail, AuditAbandon, Abandon, books
  <2>2. inflight' = inflight \/ (s \in inflight /\ inflight' = inflight \ {s})
    BY <1>10
    DEF AuditAnswer, Answer, AuditFail, Fail, AuditAbandon, Abandon, Ended
  <2>3. Charge(inflight)' \in Nat /\ Charge(inflight)' <= Charge(inflight)
    BY <1>1, <1>2, <1>3, <2>2, <1>5
  <2>4. TpdLimit = 0 => inflight' = {}  BY <2>2
  <2> QED  BY <1>1, <1>2, <1>4, <2>1, <2>3, <2>4
<1>11. ASSUME NEW s \in Slots, NEW n \in 0 .. MaxTokens, AuditRecord(s, n)
       PROVE  TodayBooks'
  <2>1. n \in Nat /\ n <= MaxTokens  BY SlotAssumption
  <2>2. /\ key'.last_day_reset = key.last_day_reset
        /\ \/ key'.tokens_today = key.tokens_today + n
           \/ key'.tokens_today = U32Max /\ key.tokens_today + n > U32Max
    BY <1>1, <1>11, <2>1, RecordFields DEF AuditRecord, Record
  <2>3. /\ s \in inflight /\ inflight' = inflight \ {s}
        /\ day' = day /\ usedToday' = usedToday + n
    BY <1>1, <1>11 DEF AuditRecord, Record, Ended
  <2>4. Charge(inflight)' = Charge(inflight) - MaxTokens
    BY <1>3, <1>5, <2>3
  <2> QED  BY <1>1, <1>2, <1>4, <2>1, <2>2, <2>3, <2>4
<1> QED  BY <1>6, <1>7, <1>8, <1>9, <1>10, <1>11 DEF AuditNext

LEMMA BooksInit == AuditInit => MinuteBooks /\ TodayBooks
<1> SUFFICES ASSUME AuditInit PROVE MinuteBooks /\ TodayBooks  OBVIOUS
<1>1. /\ key.tokens_this_minute = 0 /\ key.tokens_today = 0
      /\ key.last_day_reset = 0 /\ day = 0
      /\ inflight = {} /\ usedToday = 0
  BY DEF AuditInit, Init, NewKey
<1>2. Charge({}) = 0 /\ MostInFlight \in Nat
  BY SlotAssumption, FS_EmptySet, ChargeFacts DEF Charge
<1>3. /\ TpmLimit # NoLimit => TpmLimit \in Nat
      /\ TpdLimit # NoLimit => TpdLimit \in Nat
  BY LimitAssumption DEF Limits
<1> QED  BY <1>1, <1>2, <1>3 DEF MinuteBooks, TodayBooks

LEMMA BooksBound == TypeOK /\ MinuteBooks /\ TodayBooks =>
                      OvershootBounded /\ DailyTokensBounded
<1> SUFFICES ASSUME TypeOK, MinuteBooks, TodayBooks
             PROVE  OvershootBounded /\ DailyTokensBounded
  OBVIOUS
<1>1. /\ key.tokens_today \in Nat /\ key.tokens_this_minute \in Nat
      /\ usedToday \in Nat /\ inflight \subseteq Slots
  BY LimitAssumption DEF TypeOK, ApiKeyTypeOK, KeyState
<1>2. MostInFlight \in Nat /\ Charge(inflight) \in Nat  BY <1>1, ChargeFacts
<1>3. /\ TpmLimit # NoLimit => TpmLimit \in Nat
      /\ TpdLimit # NoLimit => TpdLimit \in Nat
  BY LimitAssumption DEF Limits
<1> HIDE DEF Charge, MostInFlight
<1> QED  BY <1>1, <1>2, <1>3
         DEF MinuteBooks, TodayBooks, OvershootBounded, DailyTokensBounded

(* TPM, TPD: slots in flight overshoot a token limit by less than one full *)
(* request of every slot.                                                  *)
THEOREM Overshoot == AuditSpec => []OvershootBounded
<1>1. TypeOK /\ MinuteBooks /\ TodayBooks /\ [AuditNext]_auditVars
        => (MinuteBooks /\ TodayBooks)'
  BY MinuteBooksStep, TodayBooksStep
<1> QED  BY <1>1, BooksInit, BooksBound, Typing, PTL DEF AuditSpec

(* What a UTC day really uses, the tokens the key forgets at midnight      *)
(* included, stays below tpd_limit plus two full rounds of the slots.      *)
THEOREM DailyTokens == AuditSpec => []DailyTokensBounded
<1>1. TypeOK /\ MinuteBooks /\ TodayBooks /\ [AuditNext]_auditVars
        => (MinuteBooks /\ TodayBooks)'
  BY MinuteBooksStep, TodayBooksStep
<1> QED  BY <1>1, BooksInit, BooksBound, Typing, PTL DEF AuditSpec

-----------------------------------------------------------------------------
(* What rolling does to the window of a second.                            *)
LEMMA RolledWindow ==
  ASSUME NEW k \in KeyState, NEW n \in Nat, NEW d \in Nat,
         NEW r, r = Rolled(k, n, d)
  PROVE  \/ /\ n - k.last_second_reset >= SecondLen
            /\ r.requests_this_second = 0
            /\ r.last_second_reset = n
         \/ /\ n - k.last_second_reset < SecondLen
            /\ r.requests_this_second = k.requests_this_second
            /\ r.last_second_reset = k.last_second_reset
<1> DEFINE k1 == [k EXCEPT !.banned_until = NoBan]
<1> DEFINE k2 == SecondRolled(k1, n)
<1> DEFINE k3 == MinuteRolled(k2, n)
<1>1. /\ k1 \in KeyState
      /\ k1.requests_this_second = k.requests_this_second
      /\ k1.last_second_reset = k.last_second_reset
  BY DEF KeyState, NoBan
<1>2. /\ k2 \in KeyState
      /\ \/ /\ n - k.last_second_reset >= SecondLen
            /\ k2.requests_this_second = 0
            /\ k2.last_second_reset = n
         \/ /\ n - k.last_second_reset < SecondLen
            /\ k2.requests_this_second = k.requests_this_second
            /\ k2.last_second_reset = k.last_second_reset
  <2> HIDE DEF k1
  <2>1. SecondLen \in Nat /\ k.last_second_reset \in Nat
    BY TimeAssumption DEF KeyState
  <2>2. CASE n - k.last_second_reset >= SecondLen
    <3>1. k2 = [k1 EXCEPT !.requests_this_second = 0, !.last_second_reset = n]
      BY <1>1, <2>2 DEF SecondRolled
    <3> HIDE DEF k2
    <3> QED  BY <1>1, <2>2, <3>1 DEF KeyState
  <2>3. CASE ~ (n - k.last_second_reset >= SecondLen)
    <3>1. k2 = k1  BY <1>1, <2>3 DEF SecondRolled
    <3> HIDE DEF k2
    <3> QED  BY <1>1, <2>1, <2>3, <3>1
  <2> QED  BY <2>2, <2>3
<1>3. /\ k3 \in KeyState
      /\ k3.requests_this_second = k2.requests_this_second
      /\ k3.last_second_reset = k2.last_second_reset
  <2> HIDE DEF k2
  <2>1. 0 \in 0 .. U32Max  BY LimitAssumption
  <2> QED  BY <1>2, <2>1 DEF KeyState, MinuteRolled
<1>4. r = DayRolled(k3, d)  BY DEF Rolled
<1> HIDE DEF k3, k2
<1>5. /\ DayRolled(k3, d).requests_this_second = k3.requests_this_second
      /\ DayRolled(k3, d).last_second_reset = k3.last_second_reset
  BY <1>3 DEF KeyState, DayRolled
<1> QED  BY <1>2, <1>3, <1>4, <1>5

(* An admission counts one request into the window it found or opened, and *)
(* finds room there.                                                       *)
LEMMA AdmitWindow ==
  ASSUME NEW k \in KeyState, NEW n \in Nat, NEW d \in Nat, MayUse(k, n, d),
         NEW r, r = Rolled(k, n, d)
  PROVE  /\ TryUse(k, n, d).last_second_reset = r.last_second_reset
         /\ TryUse(k, n, d).requests_this_second = r.requests_this_second + 1
         /\ RpsLimit # NoLimit => r.requests_this_second < RpsLimit
<1>1. r \in KeyState  BY RolledFields
<1>2. Verdict(k, n, d) = "none"  BY DEF MayUse
<1>3. LimitHit(r) = "none"  BY <1>2 DEF Verdict
<1>4. TryUse(k, n, d) = Admitted(r)  BY <1>2 DEF TryUse
<1>5. ~ Reached(r.requests_this_second, RpsLimit)  BY <1>3 DEF LimitHit
<1>6. RpsLimit # NoLimit => r.requests_this_second < RpsLimit
  BY <1>1, <1>5, LimitAssumption DEF Reached, KeyState, Limits
<1>7. /\ Admitted(r).last_second_reset = r.last_second_reset
      /\ Admitted(r).requests_this_second = r.requests_this_second + 1
  BY <1>1 DEF KeyState, Admitted
<1> QED  BY <1>4, <1>6, <1>7

(* A refusal leaves the window of a second alone or rolls it.              *)
LEMMA RefuseWindow ==
  ASSUME NEW k \in KeyState, NEW n \in Nat, NEW d \in Nat, ~ MayUse(k, n, d),
         NEW t, t = TryUse(k, n, d)
  PROVE  \/ /\ t.requests_this_second = k.requests_this_second
            /\ t.last_second_reset = k.last_second_reset
         \/ /\ n - k.last_second_reset >= SecondLen
            /\ t.requests_this_second = 0
            /\ t.last_second_reset = n
<1> DEFINE r == Rolled(k, n, d)
<1> DEFINE v == Verdict(k, n, d)
<1>1. CASE v \in {"expired", "cooling"}
  BY <1>1 DEF TryUse
<1>2. CASE v \notin {"expired", "cooling"}
  <2>1. TryUse(k, n, d) = Refused(r, n, v)
    BY <1>2 DEF TryUse, MayUse
  <2>2. r \in KeyState  BY RolledFields
  <2>3. \/ /\ n - k.last_second_reset >= SecondLen
           /\ r.requests_this_second = 0
           /\ r.last_second_reset = n
        \/ /\ r.requests_this_second = k.requests_this_second
           /\ r.last_second_reset = k.last_second_reset
    BY RolledWindow
  <2> HIDE DEF r, v
  <2>4. /\ Refused(r, n, v).requests_this_second = r.requests_this_second
        /\ Refused(r, n, v).last_second_reset = r.last_second_reset
    BY <2>2 DEF Refused, SetCooldown, KeyState
  <2> QED  BY <2>1, <2>3, <2>4
<1> QED  BY <1>1, <1>2

-----------------------------------------------------------------------------
(* The admissions rec of the second before t, split where the key's window *)
(* begins at L: each part holds at most rps_limit of them, the later part  *)
(* only requests that the key has counted in c.                            *)
Fits(rec, t, L, c) ==
  /\ L <= t
  /\ \A a \in rec : t - a[1] < SecondLen /\ a[1] - L < SecondLen
  /\ RpsLimit # NoLimit =>
       /\ c <= RpsLimit
       /\ Cardinality({a \in rec : a[1] < L}) <= RpsLimit
       /\ Cardinality({a \in rec : a[1] >= L}) <= c

WindowBooks ==
  Fits(recent, now, key.last_second_reset, key.requests_this_second)

(* Fewer admissions, at a later instant, still fit.                        *)
LEMMA FitsSubset ==
  ASSUME NEW rec, IsFiniteSet(rec), NEW sub \in SUBSET rec,
         NEW t \in Nat, NEW u \in Nat, NEW L \in Nat, NEW c \in Nat,
         Fits(rec, t, L, c), t <= u, rec \subseteq Nat \X Nat,
         \A a \in sub : u - a[1] < SecondLen
  PROVE  Fits(sub, u, L, c)
<1> DEFINE B(S) == {a \in S : a[1] < L}
<1> DEFINE A(S) == {a \in S : a[1] >= L}
<1>1. /\ B(sub) \subseteq B(rec) /\ A(sub) \subseteq A(rec)
      /\ B(rec) \subseteq rec /\ A(rec) \subseteq rec
  OBVIOUS
<1>2. IsFiniteSet(B(rec)) /\ IsFiniteSet(A(rec))
  BY <1>1, FS_Subset
<1>3. /\ Cardinality(B(sub)) <= Cardinality(B(rec))
      /\ Cardinality(A(sub)) <= Cardinality(A(rec))
      /\ IsFiniteSet(B(sub)) /\ IsFiniteSet(A(sub))
  BY <1>1, <1>2, FS_Subset
<1>4. /\ Cardinality(B(sub)) \in Nat /\ Cardinality(B(rec)) \in Nat
      /\ Cardinality(A(sub)) \in Nat /\ Cardinality(A(rec)) \in Nat
  BY <1>2, <1>3, FS_CardinalityType
<1>5. RpsLimit # NoLimit => RpsLimit \in Nat  BY LimitAssumption DEF Limits
<1>6. /\ L <= t
      /\ \A a \in rec : a[1] - L < SecondLen
      /\ RpsLimit # NoLimit =>
           /\ c <= RpsLimit
           /\ Cardinality(B(rec)) <= RpsLimit
           /\ Cardinality(A(rec)) <= c
  BY DEF Fits
<1> HIDE DEF B, A
<1>7. RpsLimit # NoLimit => /\ Cardinality(B(sub)) <= RpsLimit
                            /\ Cardinality(A(sub)) <= c
  BY <1>3, <1>4, <1>5, <1>6
<1>8. L <= u  BY <1>6
<1> USE DEF B, A
<1> QED  BY <1>6, <1>7, <1>8 DEF Fits

(* When a second has passed since the window began, all of the recent      *)
(* admissions were counted in it and none is of this instant: they become  *)
(* the earlier part, and the new window starts empty.                      *)
LEMMA FitsRolled ==
  ASSUME NEW rec \in SUBSET (Nat \X Nat), IsFiniteSet(rec),
         NEW t \in Nat, NEW L \in Nat, NEW c \in Nat,
         Fits(rec, t, L, c), t - L >= SecondLen
  PROVE  Fits(rec, t, t, 0)
<1>0. /\ SecondLen \in Nat \ {0}
      /\ RpsLimit # NoLimit => RpsLimit \in Nat
  BY TimeAssumption, LimitAssumption DEF Limits
<1>1. \A a \in rec : /\ a[1] \in Nat
                     /\ t - a[1] < SecondLen /\ a[1] - L < SecondLen
  BY DEF Fits
<1>2. \A a \in rec : a[1] >= L /\ a[1] < t
  BY <1>0, <1>1
<1>3. /\ {a \in rec : a[1] < t} = {a \in rec : a[1] >= L}
      /\ {a \in rec : a[1] >= t} = {}
  <2>1. \A a \in rec : ~ (a[1] >= t)  BY <1>1, <1>2
  <2>2. {a \in rec : a[1] < t} = rec  BY <1>2
  <2>3. {a \in rec : a[1] >= L} = rec  BY <1>2
  <2> QED  BY <2>1, <2>2, <2>3
<1>4. RpsLimit # NoLimit => c <= RpsLimit /\ Cardinality({a \in rec : a[1] >= L}) <= c
  BY DEF Fits
<1>5. IsFiniteSet({a \in rec : a[1] >= L})  BY FS_Subset
<1>6. Cardinality({a \in rec : a[1] >= L}) \in Nat  BY <1>5, FS_CardinalityType
<1>7. Cardinality({}) = 0  BY FS_EmptySet
<1>8. RpsLimit # NoLimit => /\ 0 <= RpsLimit
                            /\ Cardinality({a \in rec : a[1] < t}) <= RpsLimit
                            /\ Cardinality({a \in rec : a[1] >= t}) <= 0
  <2>1. ASSUME NEW e \in Nat, RpsLimit # NoLimit, e <= c
        PROVE  e <= RpsLimit /\ 0 <= RpsLimit
    BY <1>0, <1>4, <2>1
  <2>2. Cardinality({a \in rec : a[1] < t}) = Cardinality({a \in rec : a[1] >= L})
    BY <1>3
  <2>3. Cardinality({a \in rec : a[1] >= t}) = 0  BY <1>3, <1>7
  <2> QED  BY <1>4, <1>6, <2>1, <2>2, <2>3
<1>9. \A a \in rec : a[1] - t < SecondLen  BY <1>0, <1>1, <1>2
<1> QED  BY <1>1, <1>8, <1>9 DEF Fits

(* An admission that the window has room for.                              *)
LEMMA FitsAdmitted ==
  ASSUME NEW rec \in SUBSET (Nat \X Nat), IsFiniteSet(rec),
         NEW t \in Nat, NEW L \in Nat, NEW c \in Nat, NEW i \in Nat,
         Fits(rec, t, L, c), t - L < SecondLen,
         RpsLimit # NoLimit => c < RpsLimit
  PROVE  Fits(rec \cup {<<t, i>>}, t, L, c + 1)
<1> DEFINE new == rec \cup {<<t, i>>}
<1>0. /\ SecondLen \in Nat \ {0} /\ L <= t
      /\ RpsLimit # NoLimit => RpsLimit \in Nat
  BY TimeAssumption, LimitAssumption DEF Limits, Fits
<1>1. /\ {a \in new : a[1] < L} = {a \in rec : a[1] < L}
      /\ {a \in new : a[1] >= L} = {a \in rec : a[1] >= L} \cup {<<t, i>>}
  BY <1>0
<1>2. IsFiniteSet({a \in rec : a[1] >= L})  BY FS_Subset
<1>3. /\ Cardinality({a \in rec : a[1] >= L}) \in Nat
      /\ Cardinality({a \in rec : a[1] >= L} \cup {<<t, i>>})
           \in {Cardinality({a \in rec : a[1] >= L}),
                Cardinality({a \in rec : a[1] >= L}) + 1}
  BY <1>2, FS_CardinalityType, FS_AddElement
<1>4. RpsLimit # NoLimit => /\ Cardinality({a \in rec : a[1] < L}) <= RpsLimit
                            /\ Cardinality({a \in rec : a[1] >= L}) <= c
  BY DEF Fits
<1>5. RpsLimit # NoLimit => /\ c + 1 <= RpsLimit
                            /\ Cardinality({a \in new : a[1] < L}) <= RpsLimit
                            /\ Cardinality({a \in new : a[1] >= L}) <= c + 1
  <2>1. ASSUME NEW e \in Nat, NEW f \in {e, e + 1}, RpsLimit # NoLimit, e <= c
        PROVE  f <= c + 1 /\ c + 1 <= RpsLimit
    BY <1>0, <2>1
  <2>2. RpsLimit # NoLimit => /\ Cardinality({a \in new : a[1] >= L}) <= c + 1
                              /\ c + 1 <= RpsLimit
    <3> HIDE DEF new
    <3> QED  BY <1>1, <1>3, <1>4, <2>1
  <2> QED  BY <1>1, <1>4, <2>2
<1>6. \A a \in new : t - a[1] < SecondLen /\ a[1] - L < SecondLen
  <2>1. t - t < SecondLen  BY <1>0
  <2>2. \A a \in rec : t - a[1] < SecondLen /\ a[1] - L < SecondLen
    BY DEF Fits
  <2> QED  BY <2>1, <2>2
<1> HIDE DEF new
<1>7. Fits(new, t, L, c + 1)  BY <1>0, <1>5, <1>6 DEF Fits
<1> QED  BY <1>7 DEF new

LEMMA WindowInit == AuditInit => WindowBooks
<1> SUFFICES ASSUME AuditInit PROVE WindowBooks  OBVIOUS
<1>1. /\ recent = {} /\ now = 0
      /\ key.last_second_reset = 0 /\ key.requests_this_second = 0
  BY DEF AuditInit, Init, NewKey
<1>2. RpsLimit # NoLimit => RpsLimit \in Nat  BY LimitAssumption DEF Limits
<1>3. /\ {a \in recent : a[1] < 0} = {} /\ {a \in recent : a[1] >= 0} = {}
      /\ Cardinality({}) = 0
  BY <1>1, FS_EmptySet
<1> QED  BY <1>1, <1>2, <1>3 DEF WindowBooks, Fits

(* The end of a request moves neither the window nor its count.            *)
LEMMA EndsKeepWindow ==
  ASSUME TypeOK, NEW s \in Slots,
         \/ AuditAnswer(s) \/ AuditFail(s) \/ AuditAbandon(s)
         \/ \E n \in 0 .. MaxTokens : AuditRecord(s, n)
  PROVE  /\ key'.last_second_reset = key.last_second_reset
         /\ key'.requests_this_second = key.requests_this_second
         /\ UNCHANGED <<now, recent>>
<1>1. key \in KeyState  BY DEF TypeOK, ApiKeyTypeOK
<1>2. UNCHANGED <<now, recent>>
  BY DEF AuditAnswer, Answer, AuditFail, Fail, AuditAbandon, Abandon, books,
         AuditRecord, Record
<1>3. \/ key' = key
      \/ \E d : key' = SetCooldown(key, now, d)
      \/ \E n : key' = RecordUsage(key, n)
  BY DEF AuditAnswer, Answer, AuditFail, Fail, AuditAbandon, Abandon,
         AuditRecord, Record
<1> QED  BY <1>1, <1>2, <1>3 DEF KeyState, SetCooldown, RecordUsage

LEMMA WindowStep ==
  ASSUME TypeOK, WindowBooks, [AuditNext]_auditVars
  PROVE  WindowBooks'
<1> USE DEF WindowBooks
<1> DEFINE L == key.last_second_reset
<1> DEFINE c == key.requests_this_second
<1>1. /\ key \in KeyState /\ now \in Nat /\ day \in Nat
      /\ L \in Nat /\ c \in Nat
      /\ recent \subseteq Nat \X Nat /\ IsFiniteSet(recent)
      /\ admittedToday \in Nat /\ SecondLen \in Nat
  BY TimeAssumption DEF TypeOK, ApiKeyTypeOK, KeyState
<1>2. SUFFICES Fits(recent', now', key'.last_second_reset,
                    key'.requests_this_second)
  BY DEF Fits
<1>3. CASE AuditTick
  <2>1. /\ now' = now + 1 /\ key' = key
        /\ recent' = {a \in recent : now' - a[1] < SecondLen}
    BY <1>3 DEF AuditTick, Tick
  <2>2. now' \in Nat /\ now <= now' /\ recent' \in SUBSET recent
    BY <1>1, <2>1
  <2>3. \A a \in recent' : now' - a[1] < SecondLen  BY <2>1
  <2>4. Fits(recent', now', L, c)
    BY <1>1, <2>2, <2>3, FitsSubset
  <2> QED  BY <2>1, <2>4
<1>4. ASSUME NEW s \in Slots, AuditAdmit(s)
      PROVE  Fits(recent', now', key'.last_second_reset,
                  key'.requests_this_second)
  <2> DEFINE r == Rolled(key, now, day)
  <2>1. /\ key' = TryUse(key, now, day) /\ MayUse(key, now, day)
        /\ now' = now /\ admittedToday' = admittedToday + 1
        /\ recent' = recent \cup {<<now, admittedToday'>>}
    BY <1>4 DEF AuditAdmit, Admit
  <2>2. /\ key'.last_second_reset = r.last_second_reset
        /\ key'.requests_this_second = r.requests_this_second + 1
        /\ RpsLimit # NoLimit => r.requests_this_second < RpsLimit
    BY <1>1, <2>1, AdmitWindow
  <2>3. \/ /\ now - L >= SecondLen
           /\ r.requests_this_second = 0
           /\ r.last_second_reset = now
        \/ /\ now - L < SecondLen
           /\ r.requests_this_second = c
           /\ r.last_second_reset = L
    BY <1>1, RolledWindow
  <2>4. admittedToday' \in Nat  BY <1>1, <2>1
  <2> HIDE DEF r, L, c
  <2>5. CASE now - L >= SecondLen
    <3>1. r.requests_this_second = 0 /\ r.last_second_reset = now
      BY <1>1, <2>3, <2>5
    <3>2. Fits(recent, now, now, 0)
      BY <1>1, <2>5, FitsRolled DEF L, c
    <3>3. now - now < SecondLen  BY <1>1, TimeAssumption
    <3>4. RpsLimit # NoLimit => 0 < RpsLimit  BY <2>2, <3>1
    <3>5. Fits(recent \cup {<<now, admittedToday'>>}, now, now, 0 + 1)
      BY <1>1, <2>4, <3>2, <3>3, <3>4, FitsAdmitted
    <3> QED  BY <2>1, <2>2, <3>1, <3>5
  <2>6. CASE now - L < SecondLen
    <3>1. r.requests_this_second = c /\ r.last_second_reset = L
      BY <1>1, <2>3, <2>6
    <3>2. Fits(recent, now, L, c)  BY DEF L, c
    <3>3. Fits(recent \cup {<<now, admittedToday'>>}, now, L, c + 1)
      BY <1>1, <2>2, <2>4, <2>6, <3>1, <3>2, FitsAdmitted
    <3> QED  BY <2>1, <2>2, <3>1, <3>3
  <2> QED  BY <1>1, <2>5, <2>6
<1>5. ASSUME NEW s \in Slots, AuditRefuse(s)
      PROVE  Fits(recent', now', key'.last_second_reset,
                  key'.requests_this_second)
  <2>1. /\ key' = TryUse(key, now, day) /\ ~ MayUse(key, now, day)
        /\ now' = now /\ recent' = recent
    BY <1>5 DEF AuditRefuse, Refuse
  <2>2. \/ /\ key'.requests_this_second = c
           /\ key'.last_second_reset = L
        \/ /\ now - L >= SecondLen
           /\ key'.requests_this_second = 0
           /\ key'.last_second_reset = now
    BY <1>1, <2>1, RefuseWindow
  <2>3. CASE now - L >= SecondLen /\ key'.requests_this_second = 0
             /\ key'.last_second_reset = now
    BY <1>1, <2>1, <2>3, FitsRolled
  <2> QED  BY <2>1, <2>2, <2>3
<1>6. CASE \E s \in Slots :
             \/ AuditAnswer(s) \/ AuditFail(s) \/ AuditAbandon(s)
             \/ \E n \in 0 .. MaxTokens : AuditRecord(s, n)
  BY <1>6, EndsKeepWindow
<1>7. CASE UNCHANGED auditVars  BY <1>7 DEF auditVars
<1> QED  BY <1>3, <1>4, <1>5, <1>6, <1>7 DEF AuditNext

LEMMA WindowBound == TypeOK /\ WindowBooks => BurstBounded
<1> SUFFICES ASSUME TypeOK, WindowBooks, RpsLimit # NoLimit
             PROVE  Cardinality(recent) <= 2 * RpsLimit
  BY DEF BurstBounded
<1> DEFINE L == key.last_second_reset
<1> DEFINE B == {a \in recent : a[1] < L}
<1> DEFINE A == {a \in recent : a[1] >= L}
<1>1. /\ recent \subseteq Nat \X Nat /\ IsFiniteSet(recent)
      /\ L \in Nat /\ key.requests_this_second \in Nat /\ RpsLimit \in Nat
  BY LimitAssumption DEF TypeOK, ApiKeyTypeOK, KeyState, Limits
<1>2. /\ key.requests_this_second <= RpsLimit
      /\ Cardinality(B) <= RpsLimit
      /\ Cardinality(A) <= key.requests_this_second
  BY DEF WindowBooks, Fits
<1>3. recent = B \cup A /\ B \cap A = {}  BY <1>1
<1>4. IsFiniteSet(B) /\ IsFiniteSet(A)  BY <1>1, FS_Subset
<1> HIDE DEF A, B
<1>5. Cardinality(recent) = Cardinality(B) + Cardinality(A) - Cardinality({})
  BY <1>3, <1>4, FS_Union
<1>6. Cardinality(B) \in Nat /\ Cardinality(A) \in Nat /\ Cardinality({}) = 0
  BY <1>4, FS_CardinalityType, FS_EmptySet
<1> QED  BY <1>1, <1>2, <1>5, <1>6

(* RPS: an interval of one second straddles at most two windows, and holds *)
(* at most twice rps_limit admissions.                                     *)
THEOREM Burst == AuditSpec => []BurstBounded
<1>1. TypeOK /\ WindowBooks /\ [AuditNext]_auditVars => WindowBooks'
  BY WindowStep
<1> QED  BY <1>1, WindowInit, WindowBound, Typing, PTL DEF AuditSpec

-----------------------------------------------------------------------------
(* A request that a key in cooldown refuses leaves the key alone; of the   *)
(* steps that change the key all others begin or end a request.            *)
THEOREM Polling == AuditSpec => PollingKeepsCooldown
<1>1. ASSUME [AuditNext]_auditVars, now < key.banned_until,
             inflight' = inflight, answered' = answered
      PROVE  key' = key
  <2>1. CASE AuditTick  BY <2>1 DEF AuditTick, Tick
  <2>2. ASSUME NEW s \in Slots, AuditRefuse(s) PROVE key' = key
    <3>1. Verdict(key, now, day) \in {"expired", "cooling"}
      BY <1>1 DEF Verdict, CoolingDown
    <3> QED  BY <2>2, <3>1 DEF AuditRefuse, Refuse, TryUse
  <2>3. ASSUME NEW s \in Slots, AuditAdmit(s) PROVE FALSE
    BY <1>1, <2>3 DEF AuditAdmit, Admit
  <2>4. ASSUME NEW s \in Slots, AuditAnswer(s) PROVE FALSE
    BY <1>1, <2>4 DEF AuditAnswer, Answer
  <2>5. ASSUME NEW s \in Slots, AuditFail(s) PROVE FALSE
    BY <1>1, <2>5 DEF AuditFail, Fail, Ended
  <2>6. ASSUME NEW s \in Slots, AuditAbandon(s) PROVE key' = key
    BY <2>6 DEF AuditAbandon, Abandon
  <2>7. ASSUME NEW s \in Slots, NEW n \in 0 .. MaxTokens, AuditRecord(s, n)
        PROVE  FALSE
    BY <1>1, <2>7 DEF AuditRecord, Record, Ended
  <2>8. CASE UNCHANGED auditVars  BY <2>8 DEF auditVars
  <2> QED
    BY <1>1, <2>1, <2>2, <2>3, <2>4, <2>5, <2>6, <2>7, <2>8 DEF AuditNext
<1>2. [AuditNext]_auditVars =>
        [now < key.banned_until /\ inflight' = inflight /\ answered' = answered
           => key' = key]_auditVars
  BY <1>1
<1> QED  BY <1>2, PTL DEF AuditSpec, PollingKeepsCooldown

-----------------------------------------------------------------------------
(* The admissions the books know of the window that begins at L.           *)
Since(rec, L) == {a \in rec : a[1] >= L}

(* What the key counts is in the books: its cooldown was promised, the     *)
(* tokens of its day were used, and while its window lasts the requests of *)
(* the window are among the recent admissions, numbered in their day.      *)
CauseBooks ==
  /\ key.banned_until <= promised
  /\ key.last_day_reset <= day
  /\ key.last_day_reset = day => key.tokens_today <= usedToday
  /\ now - key.last_second_reset < SecondLen =>
       key.requests_this_second <= Cardinality(Since(recent, key.last_second_reset))
  /\ \A a \in recent : a[1] = now => a[2] <= admittedToday

LEMMA SinceFacts ==
  ASSUME NEW rec, IsFiniteSet(rec), NEW L
  PROVE  /\ IsFiniteSet(Since(rec, L)) /\ Cardinality(Since(rec, L)) \in Nat
         /\ Cardinality(Since(rec, L)) <= Cardinality(rec)
         /\ Cardinality(rec) \in Nat
<1>1. Since(rec, L) \subseteq rec  BY DEF Since
<1> QED  BY <1>1, FS_Subset, FS_CardinalityType

LEMMA CauseInit == AuditInit => CauseBooks
<1> SUFFICES ASSUME AuditInit PROVE CauseBooks  OBVIOUS
<1>1. /\ recent = {} /\ now = 0 /\ day = 0 /\ promised = 0 /\ usedToday = 0
      /\ key.last_second_reset = 0 /\ key.requests_this_second = 0
      /\ key.banned_until = 0 /\ key.last_day_reset = 0 /\ key.tokens_today = 0
  BY DEF AuditInit, Init, NewKey, NoBan
<1>2. Since(recent, 0) = {} /\ Cardinality({}) = 0  BY <1>1, FS_EmptySet DEF Since
<1> QED  BY <1>1, <1>2 DEF CauseBooks

(* A key that try_use leaves has no ban but one that was running or one    *)
(* that it has just set.                                                   *)
LEMMA AdmitLiftsBan ==
  ASSUME NEW k \in KeyState, NEW n \in Nat, NEW d \in Nat, MayUse(k, n, d)
  PROVE  TryUse(k, n, d).banned_until = 0
<1> DEFINE r == Rolled(k, n, d)
<1>1. r \in KeyState  BY RolledFields
<1>2. r.banned_until = 0
  <2> DEFINE k1 == [k EXCEPT !.banned_until = NoBan]
  <2> DEFINE k2 == SecondRolled(k1, n)
  <2> DEFINE k3 == MinuteRolled(k2, n)
  <2>0. 0 \in 0 .. U32Max  BY LimitAssumption
  <2>1. k1 \in KeyState /\ k1.banned_until = 0  BY DEF KeyState, NoBan
  <2>2. k2 \in KeyState /\ k2.banned_until = 0
    <3> HIDE DEF k1
    <3> QED  BY <2>1 DEF KeyState, SecondRolled
  <2>3. k3 \in KeyState /\ k3.banned_until = 0
    <3> HIDE DEF k2
    <3> QED  BY <2>0, <2>2 DEF KeyState, MinuteRolled
  <2>4. r = DayRolled(k3, d)  BY DEF Rolled
  <2> HIDE DEF k3, r
  <2> QED  BY <2>3, <2>4 DEF KeyState, DayRolled
<1>3. TryUse(k, n, d) = Admitted(r)  BY DEF TryUse, MayUse
<1> HIDE DEF r
<1> QED  BY <1>1, <1>2, <1>3 DEF Admitted, KeyState

LEMMA CauseStep ==
  ASSUME TypeOK, TypeOK', WindowBooks, CauseBooks, [AuditNext]_auditVars
  PROVE  CauseBooks'
<1> DEFINE L == key.last_second_reset
<1> DEFINE c == key.requests_this_second
<1> DEFINE Counted == now' - key'.last_second_reset < SecondLen =>
      key'.requests_this_second <= Cardinality(Since(recent', key'.last_second_reset))
<1>1. /\ key \in KeyState /\ now \in Nat /\ day \in Nat
      /\ L \in Nat /\ c \in Nat
      /\ key.last_day_reset \in Nat /\ key.tokens_today \in Nat /\ key.banned_until \in Nat
      /\ recent \subseteq (0 .. now) \X Nat /\ IsFiniteSet(recent)
      /\ admittedToday \in Nat /\ usedToday \in Nat /\ promised \in Nat
      /\ SecondLen \in Nat \ {0}
  BY TimeAssumption, LimitAssumption DEF TypeOK, ApiKeyTypeOK, KeyState
<1>2. L <= now  BY DEF WindowBooks, Fits
<1>3. /\ key.banned_until <= promised /\ key.last_day_reset <= day
      /\ key.last_day_reset = day => key.tokens_today <= usedToday
      /\ now - L < SecondLen => c <= Cardinality(Since(recent, L))
      /\ \A a \in recent : a[1] = now => a[2] <= admittedToday
  BY DEF CauseBooks
<1>4. /\ key' \in KeyState /\ key'.banned_until \in Nat
  BY DEF TypeOK, ApiKeyTypeOK, KeyState
<1>5. CASE AuditTick
  <2>1. /\ now' = now + 1 /\ key' = key /\ day' \in {day, day + 1}
        /\ day' # day => admittedToday' = 0 /\ usedToday' = 0
        /\ day' = day => admittedToday' = admittedToday /\ usedToday' = usedToday
        /\ promised' = promised
        /\ recent' = {a \in recent : now' - a[1] < SecondLen}
    BY <1>1, <1>5 DEF AuditTick, Tick
  <2>2. Counted
    <3> SUFFICES ASSUME now + 1 - L < SecondLen
                 PROVE  c <= Cardinality(Since(recent', L))
      BY <1>1, <2>1
    <3>1. Since(recent', L) = Since(recent, L)
      <4>1. \A a \in recent : a[1] >= L => now' - a[1] < SecondLen  BY <1>1, <2>1
      <4> QED  BY <2>1, <4>1 DEF Since
    <3>2. now - L < SecondLen  BY <1>1
    <3> QED  BY <1>3, <3>1, <3>2
  <2>3. \A a \in recent' : a[1] # now'  BY <1>1, <2>1
  <2> QED  BY <1>1, <1>3, <2>1, <2>2, <2>3 DEF CauseBooks
<1>6. ASSUME NEW s \in Slots, AuditAdmit(s) PROVE CauseBooks'
  <2> DEFINE r == Rolled(key, now, day)
  <2> DEFINE e == <<now, admittedToday + 1>>
  <2>1. /\ key' = TryUse(key, now, day) /\ MayUse(key, now, day)
        /\ now' = now /\ day' = day /\ admittedToday' = admittedToday + 1
        /\ usedToday' = usedToday /\ promised' = promised
        /\ recent' = recent \cup {e}
    BY <1>6 DEF AuditAdmit, Admit
  <2>2. /\ key'.last_second_reset = r.last_second_reset
        /\ key'.requests_this_second = r.requests_this_second + 1
    BY <1>1, <2>1, AdmitWindow
  <2>3. \/ /\ now - L >= SecondLen
           /\ r.requests_this_second = 0
           /\ r.last_second_reset = now
        \/ /\ now - L < SecondLen
           /\ r.requests_this_second = c
           /\ r.last_second_reset = L
    BY <1>1, RolledWindow
  <2>4. key'.last_day_reset = day /\ key'.tokens_today = r.tokens_today
    BY <1>1, <2>1, AdmitFields
  <2>8. r.tokens_today = IF day # key.last_day_reset THEN 0 ELSE key.tokens_today
    BY <1>1, RolledFields
  <2>5. key'.banned_until = 0  BY <1>1, <2>1, AdmitLiftsBan
  <2> HIDE DEF r
  <2>6. Counted
    <3>1. e \notin recent  BY <1>1, <1>3
    <3>2. CASE r.requests_this_second = 0 /\ r.last_second_reset = now
      <4>1. {e} \subseteq Since(recent', now)  BY <1>1, <2>1 DEF Since
      <4>2. IsFiniteSet(Since(recent', now)) /\ Cardinality(Since(recent', now)) \in Nat
        BY SinceFacts DEF TypeOK
      <4>3. 1 <= Cardinality(Since(recent', now))
        <5>1. Cardinality({e}) = 1  BY FS_Singleton
        <5>2. Cardinality({e}) <= Cardinality(Since(recent', now))
          BY <4>1, <4>2, FS_Subset
        <5> QED  BY <5>1, <5>2
      <4> QED  BY <2>1, <2>2, <3>2, <4>3
    <3>3. CASE /\ now - L < SecondLen
               /\ r.requests_this_second = c /\ r.last_second_reset = L
      <4>1. Since(recent', L) = Since(recent, L) \cup {e}
        BY <1>1, <1>2, <2>1 DEF Since
      <4>2. e \notin Since(recent, L)  BY <3>1 DEF Since
      <4>3. IsFiniteSet(Since(recent, L)) /\ Cardinality(Since(recent, L)) \in Nat
        BY <1>1, SinceFacts
      <4>4. Cardinality(Since(recent', L)) = Cardinality(Since(recent, L)) + 1
        BY <4>1, <4>2, <4>3, FS_AddElement
      <4> QED  BY <1>1, <1>3, <2>1, <2>2, <3>3, <4>3, <4>4
    <3> QED  BY <2>3, <3>2, <3>3
  <2>7. \A a \in recent' : a[1] = now => a[2] <= admittedToday + 1
    BY <1>1, <1>3, <2>1
  <2> QED  BY <1>1, <1>3, <2>1, <2>4, <2>5, <2>6, <2>7, <2>8 DEF CauseBooks
<1>7. ASSUME NEW s \in Slots, AuditRefuse(s) PROVE CauseBooks'
  <2>1. /\ key' = TryUse(key, now, day) /\ ~ MayUse(key, now, day)
        /\ now' = now /\ day' = day /\ recent' = recent
        /\ admittedToday' = admittedToday /\ usedToday' = usedToday
        /\ key'.banned_until <= promised'
    BY <1>1, <1>4, <1>7 DEF AuditRefuse, Refuse, NotePromise
  <2>2. \/ /\ key'.requests_this_second = c
           /\ key'.last_second_reset = L
        \/ key'.requests_this_second = 0
    BY <1>1, <2>1, RefuseWindow
  <2>3. \/ /\ key'.last_day_reset = key.last_day_reset
           /\ key'.tokens_today = key.tokens_today
        \/ /\ key'.last_day_reset = day
           /\ key'.tokens_today = 0
    BY <1>1, <2>1, RefuseFields
  <2>4. Cardinality(Since(recent, key'.last_second_reset)) \in Nat
    BY <1>1, SinceFacts
  <2> QED  BY <1>1, <1>3, <2>1, <2>2, <2>3, <2>4 DEF CauseBooks
<1>8. ASSUME NEW s \in Slots, AuditAnswer(s) \/ AuditFail(s) PROVE CauseBooks'
  <2>1. key'.banned_until <= promised'
    BY <1>1, <1>4, <1>8 DEF AuditAnswer, AuditFail, NotePromise
  <2>2. /\ key'.last_second_reset = L /\ key'.requests_this_second = c
        /\ now' = now /\ recent' = recent
    BY <1>8, EndsKeepWindow
  <2>3. /\ key'.last_day_reset = key.last_day_reset
        /\ key'.tokens_today = key.tokens_today
        /\ UNCHANGED <<day, usedToday, admittedToday>>
    BY <1>8, CooldownSteps DEF AuditAnswer, AuditFail
  <2> QED  BY <1>3, <2>1, <2>2, <2>3 DEF CauseBooks
<1>9. ASSUME NEW s \in Slots, NEW n \in 0 .. MaxTokens, AuditRecord(s, n)
      PROVE  CauseBooks'
  <2>1. n \in Nat  BY SlotAssumption
  <2>2. /\ key'.last_second_reset = L /\ key'.requests_this_second = c
        /\ now' = now /\ recent' = recent
    BY <1>9, EndsKeepWindow
  <2>3. /\ key' = RecordUsage(key, n)
        /\ day' = day /\ usedToday' = usedToday + n
        /\ admittedToday' = admittedToday /\ promised' = promised
    BY <1>9 DEF AuditRecord, Record
  <2>6. /\ key'.last_day_reset = key.last_day_reset
        /\ \/ key'.tokens_today = key.tokens_today + n
           \/ key'.tokens_today = U32Max /\ key.tokens_today + n > U32Max
    BY <1>1, <2>1, <2>3, RecordFields
  <2>7. key'.tokens_today <= key.tokens_today + n
    BY <1>1, <2>1, <2>6, LimitAssumption
  <2>4. key'.banned_until = key.banned_until
    BY <1>1, <2>3 DEF RecordUsage, KeyState
  <2>5. key'.tokens_today \in Nat  BY <1>4, LimitAssumption DEF KeyState
  <2> QED  BY <1>1, <1>3, <2>1, <2>2, <2>3, <2>4, <2>5, <2>6, <2>7 DEF CauseBooks
<1>10. CASE (\E s \in Slots : AuditAbandon(s)) \/ UNCHANGED auditVars
  BY <1>10 DEF CauseBooks, AuditAbandon, Abandon, books, auditVars
<1> QED  BY <1>5, <1>6, <1>7, <1>8, <1>9, <1>10 DEF AuditNext

-----------------------------------------------------------------------------
(* What rolling does to the window of a minute.                            *)
LEMMA RolledMinute ==
  ASSUME NEW k \in KeyState, NEW n \in Nat, NEW d \in Nat,
         NEW r, r = Rolled(k, n, d)
  PROVE  \/ /\ n - k.last_minute_reset >= MinuteLen
            /\ r.tokens_this_minute = 0
            /\ r.last_minute_reset = n
         \/ /\ n - k.last_minute_reset < MinuteLen
            /\ r.tokens_this_minute = k.tokens_this_minute
            /\ r.last_minute_reset = k.last_minute_reset
<1> DEFINE k1 == [k EXCEPT !.banned_until = NoBan]
<1> DEFINE k2 == SecondRolled(k1, n)
<1> DEFINE k3 == MinuteRolled(k2, n)
<1>1. /\ k1 \in KeyState
      /\ k1.tokens_this_minute = k.tokens_this_minute
      /\ k1.last_minute_reset = k.last_minute_reset
  BY DEF KeyState, NoBan
<1>2. /\ k2 \in KeyState
      /\ k2.tokens_this_minute = k.tokens_this_minute
      /\ k2.last_minute_reset = k.last_minute_reset
  <2> HIDE DEF k1
  <2> QED  BY <1>1 DEF KeyState, SecondRolled
<1>3. /\ k3 \in KeyState
      /\ \/ /\ n - k.last_minute_reset >= MinuteLen
            /\ k3.tokens_this_minute = 0
            /\ k3.last_minute_reset = n
         \/ /\ n - k.last_minute_reset < MinuteLen
            /\ k3.tokens_this_minute = k.tokens_this_minute
            /\ k3.last_minute_reset = k.last_minute_reset
  <2> HIDE DEF k2
  <2>1. MinuteLen \in Nat /\ k.last_minute_reset \in Nat /\ 0 \in 0 .. U32Max
    BY TimeAssumption, LimitAssumption DEF KeyState
  <2>2. CASE n - k.last_minute_reset >= MinuteLen
    <3>1. k3 = [k2 EXCEPT !.tokens_this_minute = 0, !.last_minute_reset = n]
      BY <1>2, <2>2 DEF MinuteRolled
    <3> HIDE DEF k3
    <3> QED  BY <1>2, <2>1, <2>2, <3>1 DEF KeyState
  <2>3. CASE ~ (n - k.last_minute_reset >= MinuteLen)
    <3>1. k3 = k2  BY <1>2, <2>3 DEF MinuteRolled
    <3> HIDE DEF k3
    <3> QED  BY <1>2, <2>1, <2>3, <3>1
  <2> QED  BY <2>2, <2>3
<1>4. r = DayRolled(k3, d)  BY DEF Rolled
<1> HIDE DEF k3, k2
<1>5. /\ DayRolled(k3, d).tokens_this_minute = k3.tokens_this_minute
      /\ DayRolled(k3, d).last_minute_reset = k3.last_minute_reset
  BY <1>3 DEF DayRolled, KeyState
<1> QED  BY <1>3, <1>4, <1>5

(* An admission leaves the window of a minute as rolling left it, ...      *)
LEMMA AdmitMinute ==
  ASSUME NEW k \in KeyState, NEW n \in Nat, NEW d \in Nat, MayUse(k, n, d),
         NEW r, r = Rolled(k, n, d)
  PROVE  /\ TryUse(k, n, d).tokens_this_minute = r.tokens_this_minute
         /\ TryUse(k, n, d).last_minute_reset = r.last_minute_reset
<1>1. r \in KeyState  BY RolledFields
<1>2. TryUse(k, n, d) = Admitted(r)  BY DEF TryUse, MayUse
<1> QED  BY <1>1, <1>2 DEF Admitted, KeyState

(* ... and a refusal either does so too or leaves the key alone.           *)
LEMMA RefuseMinute ==
  ASSUME NEW k \in KeyState, NEW n \in Nat, NEW d \in Nat, ~ MayUse(k, n, d),
         NEW t, t = TryUse(k, n, d)
  PROVE  \/ /\ t.tokens_this_minute = k.tokens_this_minute
            /\ t.last_minute_reset = k.last_minute_reset
         \/ /\ t.tokens_this_minute = 0
            /\ t.last_minute_reset = n
<1> DEFINE r == Rolled(k, n, d)
<1> DEFINE v == Verdict(k, n, d)
<1>1. CASE v \in {"expired", "cooling"}
  BY <1>1 DEF TryUse
<1>2. CASE v \notin {"expired", "cooling"}
  <2>1. TryUse(k, n, d) = Refused(r, n, v)
    BY <1>2 DEF TryUse, MayUse
  <2>2. r \in KeyState  BY RolledFields
  <2>3. \/ r.tokens_this_minute = 0 /\ r.last_minute_reset = n
        \/ /\ r.tokens_this_minute = k.tokens_this_minute
           /\ r.last_minute_reset = k.last_minute_reset
    BY RolledMinute
  <2> HIDE DEF r, v
  <2>4. /\ Refused(r, n, v).tokens_this_minute = r.tokens_this_minute
        /\ Refused(r, n, v).last_minute_reset = r.last_minute_reset
    BY <2>2 DEF Refused, SetCooldown, KeyState
  <2> QED  BY <2>1, <2>3, <2>4
<1> QED  BY <1>1, <1>2

(* While the key's minute lasts, the tokens it counts were recorded since  *)
(* the minute began.                                                       *)
MinuteCause ==
  /\ key.last_minute_reset <= now
  /\ now - key.last_minute_reset < MinuteLen =>
       key.tokens_this_minute <= usedWithin[now - key.last_minute_reset]
  /\ \A a, b \in Ages : a <= b => usedWithin[a] <= usedWithin[b]

LEMMA MinuteInit == AuditInit => MinuteCause
<1> SUFFICES ASSUME AuditInit PROVE MinuteCause  OBVIOUS
<1>1. /\ usedWithin = [a \in Ages |-> 0] /\ now = 0
      /\ key.last_minute_reset = 0 /\ key.tokens_this_minute = 0
  BY DEF AuditInit, Init, NewKey
<1>2. 0 \in Ages /\ MinuteLen - 1 \in Ages  BY TimeAssumption DEF Ages
<1> QED  BY <1>1, <1>2 DEF MinuteCause

LEMMA MinuteStep ==
  ASSUME TypeOK, TypeOK', MinuteCause, [AuditNext]_auditVars
  PROVE  MinuteCause'
<1> DEFINE L == key.last_minute_reset
<1> DEFINE c == key.tokens_this_minute
<1>11. /\ now \in Nat /\ day \in Nat /\ L \in Nat /\ c \in Nat
       /\ MinuteLen \in Nat \ {0}
  BY TimeAssumption, LimitAssumption DEF TypeOK, ApiKeyTypeOK, KeyState
<1>12. 0 \in Ages /\ MinuteLen - 1 \in Ages  BY <1>11 DEF Ages
<1>1. /\ key \in KeyState /\ now \in Nat /\ day \in Nat /\ L \in Nat /\ c \in Nat
      /\ MinuteLen \in Nat \ {0}
      /\ usedWithin \in [Ages -> Nat]
      /\ 0 \in Ages /\ MinuteLen - 1 \in Ages
  BY <1>11, <1>12 DEF TypeOK, ApiKeyTypeOK
<1>2. /\ L <= now
      /\ now - L < MinuteLen => c <= usedWithin[now - L]
      /\ \A a, b \in Ages : a <= b => usedWithin[a] <= usedWithin[b]
  BY DEF MinuteCause
<1>3. now - L < MinuteLen => now - L \in Ages  BY <1>1, <1>2 DEF Ages
<1>4. Ages' = Ages  BY DEF Ages
<1>5. CASE AuditTick
  <2>1. /\ now' = now + 1 /\ key' = key
        /\ usedWithin' = [a \in Ages |-> IF a = 0 THEN 0 ELSE usedWithin[a - 1]]
    BY <1>5 DEF AuditTick, Tick
  <2>2. ASSUME now + 1 - L < MinuteLen PROVE c <= usedWithin'[now + 1 - L]
    <3>1. now + 1 - L \in Ages /\ now + 1 - L # 0 /\ (now + 1 - L) - 1 = now - L
      BY <1>11, <1>2, <2>2 DEF Ages
    <3>2. usedWithin'[now + 1 - L] = usedWithin[now - L]  BY <2>1, <3>1
    <3> QED  BY <1>1, <1>2, <2>2, <3>2
  <2>3. ASSUME NEW a \in Ages, NEW b \in Ages, a <= b
        PROVE  usedWithin'[a] <= usedWithin'[b]
    <3>1. CASE a = 0
      <4>1. usedWithin'[a] = 0  BY <2>1, <3>1
      <4>2. usedWithin' \in [Ages -> Nat]  BY <1>4 DEF TypeOK
      <4>3. usedWithin'[b] \in Nat  BY <4>2
      <4> QED  BY <4>1, <4>3
    <3>2. CASE a # 0
      <4>1. a - 1 \in Ages /\ b - 1 \in Ages /\ b # 0 /\ a - 1 <= b - 1
        BY <1>11, <2>3, <3>2 DEF Ages
      <4>2. usedWithin'[a] = usedWithin[a - 1] /\ usedWithin'[b] = usedWithin[b - 1]
        BY <2>1, <3>2, <4>1
      <4>3. usedWithin[a - 1] <= usedWithin[b - 1]  BY <1>2, <4>1
      <4> QED  BY <4>2, <4>3
    <3> QED  BY <3>1, <3>2
  <2> QED  BY <1>1, <1>2, <1>4, <2>1, <2>2, <2>3 DEF MinuteCause
<1>6. ASSUME NEW s \in Slots, AuditAdmit(s) PROVE MinuteCause'
  <2> DEFINE r == Rolled(key, now, day)
  <2>1. /\ key' = TryUse(key, now, day) /\ MayUse(key, now, day)
        /\ now' = now /\ usedWithin' = usedWithin
    BY <1>6 DEF AuditAdmit, Admit
  <2>2. /\ key'.last_minute_reset = r.last_minute_reset
        /\ key'.tokens_this_minute = r.tokens_this_minute
    <3>1. key \in KeyState /\ now \in Nat /\ day \in Nat /\ MayUse(key, now, day)
      BY <1>1, <2>1
    <3>2. /\ TryUse(key, now, day).tokens_this_minute = r.tokens_this_minute
          /\ TryUse(key, now, day).last_minute_reset = r.last_minute_reset
      BY <3>1, AdmitMinute
    <3> HIDE DEF r
    <3> QED  BY <2>1, <3>2
  <2>3. \/ r.tokens_this_minute = 0 /\ r.last_minute_reset = now
        \/ r.tokens_this_minute = c /\ r.last_minute_reset = L
    BY <1>1, RolledMinute
  <2>4. usedWithin[0] \in Nat /\ now - now = 0  BY <1>1
  <2> HIDE DEF r
  <2> QED  BY <1>1, <1>2, <1>4, <2>1, <2>2, <2>3, <2>4 DEF MinuteCause
<1>7. ASSUME NEW s \in Slots, AuditRefuse(s) PROVE MinuteCause'
  <2>1. /\ key' = TryUse(key, now, day) /\ ~ MayUse(key, now, day)
        /\ now' = now /\ usedWithin' = usedWithin
    BY <1>7 DEF AuditRefuse, Refuse
  <2>2. \/ key'.tokens_this_minute = 0 /\ key'.last_minute_reset = now
        \/ key'.tokens_this_minute = c /\ key'.last_minute_reset = L
    BY <1>1, <2>1, RefuseMinute
  <2>3. usedWithin[0] \in Nat /\ now - now = 0  BY <1>1
  <2> QED  BY <1>1, <1>2, <1>4, <2>1, <2>2, <2>3 DEF MinuteCause
<1>8. ASSUME NEW s \in Slots, AuditAnswer(s) \/ AuditFail(s)
      PROVE  MinuteCause'
  <2>1. /\ now' = now /\ usedWithin' = usedWithin
        /\ \/ key' = key
           \/ key' = SetCooldown(key, now, MinuteLen)
           \/ key' = SetCooldown(key, now, TenSeconds)
    BY <1>8 DEF AuditAnswer, Answer, AuditFail, Fail
  <2>2. key'.last_minute_reset = L /\ key'.tokens_this_minute = c
    BY <1>1, <2>1 DEF SetCooldown, KeyState
  <2> QED  BY <1>2, <1>4, <2>1, <2>2 DEF MinuteCause
<1>9. ASSUME NEW s \in Slots, NEW n \in 0 .. MaxTokens, AuditRecord(s, n)
      PROVE  MinuteCause'
  <2>1. n \in Nat  BY SlotAssumption
  <2>2. /\ key' = RecordUsage(key, n) /\ now' = now
        /\ usedWithin' = [a \in Ages |-> usedWithin[a] + n]
    BY <1>9 DEF AuditRecord, Record
  <2>3. key'.tokens_this_minute <= c + n  BY <1>1, <2>1, <2>2, RecordFields
  <2>4. key'.last_minute_reset = L  BY <1>1, <2>2 DEF RecordUsage, KeyState
  <2>5. key'.tokens_this_minute \in Nat
    BY LimitAssumption DEF TypeOK, ApiKeyTypeOK, KeyState
  <2>6. \A a \in Ages : usedWithin'[a] = usedWithin[a] + n /\ usedWithin[a] \in Nat
    BY <1>1, <2>2
  <2>7. ASSUME now - L < MinuteLen
        PROVE  key'.tokens_this_minute <= usedWithin'[now - L]
    <3>1. usedWithin'[now - L] = usedWithin[now - L] + n /\ usedWithin[now - L] \in Nat
      BY <1>3, <2>6, <2>7
    <3> QED  BY <1>1, <1>2, <2>1, <2>3, <2>5, <2>7, <3>1
  <2>8. \A a, b \in Ages : a <= b => usedWithin'[a] <= usedWithin'[b]
    BY <1>2, <2>1, <2>6
  <2> QED  BY <1>2, <1>4, <2>2, <2>4, <2>7, <2>8 DEF MinuteCause
<1>10. CASE (\E s \in Slots : AuditAbandon(s)) \/ UNCHANGED auditVars
  BY <1>10, <1>4 DEF MinuteCause, AuditAbandon, Abandon, books, auditVars
<1> QED  BY <1>5, <1>6, <1>7, <1>8, <1>9, <1>10 DEF AuditNext

LEMMA CauseBound ==
  TypeOK /\ DayBooks /\ CauseBooks /\ MinuteCause => RefusalsJustified
<1> SUFFICES ASSUME TypeOK, DayBooks, CauseBooks, MinuteCause
             PROVE  RefusalsJustified
  OBVIOUS
<1> DEFINE v == Verdict(key, now, day)
<1> DEFINE r == Rolled(key, now, day)
<1>1. /\ key \in KeyState /\ now \in Nat /\ day \in Nat
      /\ key.requests_this_second \in Nat /\ key.last_second_reset \in Nat
      /\ key.requests_today \in Nat /\ key.last_day_reset \in Nat
      /\ key.tokens_today \in Nat /\ key.banned_until \in Nat
      /\ recent \subseteq (0 .. now) \X Nat /\ IsFiniteSet(recent)
      /\ admittedToday \in Nat /\ usedToday \in Nat /\ promised \in Nat
      /\ SecondLen \in Nat \ {0}
  BY TimeAssumption, LimitAssumption DEF TypeOK, ApiKeyTypeOK, KeyState
<1>2. /\ v = "rps" => RpsLimit # NoLimit /\ r.requests_this_second >= RpsLimit
      /\ v = "rpd" => RpdLimit # NoLimit /\ r.requests_today >= RpdLimit
      /\ v = "tpm" => TpmLimit # NoLimit /\ r.tokens_this_minute >= TpmLimit
      /\ v = "tpd" => TpdLimit # NoLimit /\ r.tokens_today >= TpdLimit
      /\ v = "cooling" => now < key.banned_until
  <2>1. v \in {"expired", "cooling"} \/ v = LimitHit(r)  BY DEF Verdict
  <2>2. v = "cooling" => now < key.banned_until
    BY DEF Verdict, CoolingDown, LimitHit
  <2> HIDE DEF v, r
  <2> QED  BY <2>1, <2>2 DEF LimitHit, Reached
<1>3. /\ RpsLimit # NoLimit => RpsLimit \in Nat
      /\ RpdLimit # NoLimit => RpdLimit \in Nat
      /\ TpmLimit # NoLimit => TpmLimit \in Nat
      /\ TpdLimit # NoLimit => TpdLimit \in Nat
  BY LimitAssumption DEF Limits
<1>4. \/ r.requests_this_second = 0
      \/ /\ now - key.last_second_reset < SecondLen
         /\ r.requests_this_second = key.requests_this_second
  BY <1>1, RolledWindow
<1>5. r.requests_today = IF day # key.last_day_reset THEN 0 ELSE key.requests_today
  BY <1>1, RolledFields
<1>11. r.tokens_today = IF day # key.last_day_reset THEN 0 ELSE key.tokens_today
  BY <1>1, RolledFields
<1>12. /\ \/ r.tokens_this_minute = 0
          \/ /\ now - key.last_minute_reset < MinuteLen
             /\ r.tokens_this_minute = key.tokens_this_minute
       /\ key.tokens_this_minute \in Nat /\ key.last_minute_reset \in Nat
       /\ MinuteLen \in Nat \ {0} /\ usedWithin \in [Ages -> Nat]
       /\ MinuteLen - 1 \in Ages
  BY <1>1, RolledMinute, TimeAssumption, LimitAssumption DEF TypeOK, KeyState, Ages
<1>6. LET n == Cardinality(Since(recent, key.last_second_reset))
      IN  n \in Nat /\ n <= Cardinality(recent) /\ Cardinality(recent) \in Nat
  BY <1>1, SinceFacts
<1> HIDE DEF v, r
<1>7. v = "rps" => Cardinality(recent) >= RpsLimit
  BY <1>1, <1>2, <1>3, <1>4, <1>6 DEF CauseBooks
<1>8. v = "rpd" => admittedToday >= RpdLimit
  BY <1>1, <1>2, <1>3, <1>5 DEF DayBooks
<1>9. v = "tpd" => usedToday >= TpdLimit
  BY <1>1, <1>2, <1>3, <1>11 DEF CauseBooks
<1>10. v = "cooling" => now < promised  BY <1>1, <1>2 DEF CauseBooks
<1>13. v = "tpm" => usedWithin[MinuteLen - 1] >= TpmLimit
  <2>1. usedWithin[MinuteLen - 1] \in Nat  BY <1>12
  <2>2. r.tokens_this_minute <= usedWithin[MinuteLen - 1]
    <3>1. CASE r.tokens_this_minute = 0  BY <2>1, <3>1
    <3>2. CASE /\ now - key.last_minute_reset < MinuteLen
               /\ r.tokens_this_minute = key.tokens_this_minute
      <4> DEFINE a == now - key.last_minute_reset
      <4>1. a \in Ages  BY <1>1, <1>12, <3>2 DEF MinuteCause, Ages
      <4>4. a <= MinuteLen - 1  BY <1>12, <4>1 DEF Ages
      <4>2. usedWithin[a] \in Nat /\ usedWithin[a] <= usedWithin[MinuteLen - 1]
        BY <1>12, <4>1, <4>4 DEF MinuteCause
      <4>3. key.tokens_this_minute <= usedWithin[a]  BY <3>2 DEF MinuteCause
      <4> QED  BY <1>12, <2>1, <3>2, <4>2, <4>3
    <3> QED  BY <1>12, <3>1, <3>2
  <2>3. r.tokens_this_minute \in Nat  BY <1>12
  <2> QED  BY <1>2, <1>3, <2>1, <2>2, <2>3
<1> QED  BY <1>7, <1>8, <1>9, <1>10, <1>13 DEF RefusalsJustified, v

(* A refusal names a limit that the true requests or tokens have reached,  *)
(* or a cooldown that was set.                                             *)
THEOREM Refusals == AuditSpec => []RefusalsJustified
<1>1. TypeOK /\ TypeOK' /\ WindowBooks /\ CauseBooks /\ [AuditNext]_auditVars
        => CauseBooks'
  BY CauseStep
<1>2. TypeOK /\ WindowBooks /\ [AuditNext]_auditVars => WindowBooks'
  BY WindowStep
<1>3. TypeOK /\ TypeOK' /\ MinuteCause /\ [AuditNext]_auditVars => MinuteCause'
  BY MinuteStep
<1> QED
  BY <1>1, <1>2, <1>3, CauseInit, MinuteInit, WindowInit, CauseBound, DayInit, DayStep, Typing, PTL
  DEF AuditSpec
=============================================================================
