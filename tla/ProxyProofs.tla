----------------------------- MODULE ProxyProofs -----------------------------
(***************************************************************************)
(* What holds of the requests of a pool, for any number of requests, slots *)
(* and keys and all limits.  What KeyPoolProofs shows of the pool and      *)
(* KeyLimitsProofs of a key is used here: the requests use the pool by its *)
(* operations only (PoolUse), so its invariant is one of theirs.           *)
(***************************************************************************)
EXTENDS ProxyChecks, OrderingProofs, KeyPoolProofs, KeyLimitsProofs

(* Each step of the handlers is one of the pool, or none of its business.  *)
LEMMA PoolSteps == [ProxyNext]_vars => [Next]_poolVars
<1> SUFFICES ASSUME [ProxyNext]_vars PROVE [Next]_poolVars
  OBVIOUS
<1> USE DEF poolVars
<1>1. CASE Tick  BY <1>1 DEF Tick
<1>2. ASSUME NEW r \in Requests, Reject(r) PROVE UNCHANGED poolVars
  BY <1>2 DEF Reject
<1>3. ASSUME NEW r \in Requests, Enter(r) PROVE Next
  BY <1>3 DEF Enter, Next
<1>4. ASSUME NEW r \in Requests, Proceed(r) PROVE [Next]_poolVars
  <2>1. CASE TakeSlot(r)  BY <2>1 DEF TakeSlot, Next
  <2>2. CASE RefuseSize(r)  BY <2>2 DEF RefuseSize
  <2>3. CASE Refuse(r)  BY <2>3 DEF Refuse
  <2>4. CASE Admit(r)  BY <2>4 DEF Admit
  <2>5. CASE Backoff(r)  BY <2>5 DEF Backoff
  <2>6. CASE Retry(r)  BY <2>6 DEF Retry
  <2>7. CASE GiveUp(r)  BY <2>7 DEF GiveUp
  <2>8. CASE Answer(r)  BY <2>8 DEF Answer
  <2>9. CASE BodyLost(r)  BY <2>9 DEF BodyLost
  <2>10. CASE \E out \in Outputs : BodyRead(r, out)  BY <2>10 DEF BodyRead
  <2>11. CASE GiveBack(r)  BY <2>11 DEF GiveBack, Next
  <2>12. CASE AwaitRoom(r)  BY <2>12 DEF AwaitRoom, Next
  <2>13. CASE Log(r)  BY <2>13 DEF Log
  <2> QED
    BY <1>4, <2>1, <2>2, <2>3, <2>4, <2>5, <2>6, <2>7, <2>8, <2>9, <2>10,
       <2>11, <2>12, <2>13 DEF Proceed
<1>5. ASSUME NEW r \in Requests, NEW out \in Outputs, StreamEnds(r, out)
      PROVE UNCHANGED poolVars
  BY <1>5 DEF StreamEnds
<1>6. ASSUME NEW r \in Requests, Disconnect(r) PROVE [Next]_poolVars
  BY <1>6 DEF Disconnect, Next
<1>7. ASSUME NEW s \in Slots, Import(s) PROVE Next
  BY <1>7 DEF Import, Next
<1>8. CASE UNCHANGED vars  BY <1>8 DEF vars
<1> QED  BY <1>1, <1>2, <1>3, <1>4, <1>5, <1>6, <1>7, <1>8 DEF ProxyNext

(* The handlers are built from the operations of the pool, so what is      *)
(* proved of every use of KeyPool is true of this one.                     *)
LEMMA PoolUse == ProxySpec => Spec
<1>1. ProxyInit => Init  BY DEF ProxyInit
<1> QED  BY <1>1, PoolSteps, PTL DEF ProxySpec, Spec

(* So no clone of a key is in two places among them, and none of them      *)
(* waits for room before an import (core.rs, KeyPool).                     *)
THEOREM PoolKept == ProxySpec => [](SlotsExclusive /\ ReleaseFindsRoom)
<1> QED  BY PoolUse, Exclusion, RoomToRelease, PTL

(* The phases in which a handler has a slot in its hands, and in which its *)
(* request is with the provider.                                           *)
Working == {"sending", "backoff", "reading", "streaming"}
Holding == {"acquired"} \cup Working \cup Returning

Hands ==
  \A r \in Requests :
    /\ using[r] = held[r]
    /\ held[r] # NoSlot <=> phase[r] \in Holding
    /\ r \in waiting <=> phase[r] = "waiting"
    /\ r \in releasing => phase[r] \in Returning

Sent ==
  \A r \in Requests :
    /\ phase[r] \in Working =>
         r \notin Executes /\ ~ OverSize(input[r]) /\ sends[r] > 0
    /\ phase[r] = "executing" => r \in Executes
    /\ phase[r] = "backoff" => sends[r] <= 2

Books ==
  \A r \in Requests :
    /\ charged[r] = tokens[r]
    /\ logged[r] # Nothing => phase[r] = "done" /\ logged[r] = tokens[r]
    /\ phase[r] \in {"new", "waiting", "acquired", "executing"} \cup Working => tokens[r] = 0
    /\ phase[r] \in {"settling", "executing", "logging"} \/ logged[r] # Nothing =>
         tokens[r] >= input[r] /\ ~ OverSize(input[r])

ProxyInv == ProxyTypeOK /\ PoolInv /\ Hands /\ Sent /\ Books

(* The sums of tokens over a JSON value, all of it and a part.             *)
LEMMA TokenSums ==
  ASSUME NEW v, IsJson(v), NEW names
  PROVE  TokensIn(v, names) \in Nat /\ AllTokens(v) \in Nat /\ TokensIn(v, names) <= AllTokens(v)
<1> DEFINE part == {p \in DOMAIN v : Collected(p, names)}
<1>1. IsFiniteSet(DOMAIN v) /\ \A p \in DOMAIN v : v[p] \in Nat  BY DEF IsJson
<1>2. part \in SUBSET DOMAIN v /\ DOMAIN v \in SUBSET DOMAIN v  OBVIOUS
<1> HIDE DEF part
<1>3. /\ SumFunctionOnSet(v, part) \in Nat /\ SumFunctionOnSet(v, DOMAIN v) \in Nat
      /\ SumFunctionOnSet(v, part) <= SumFunctionOnSet(v, DOMAIN v)
  BY <1>1, <1>2, SumRemove, SumMonotone
<1> QED  BY <1>3 DEF TokensIn, AllTokens, part

(* An estimate counts no more than the texts, and some where there are     *)
(* any; that of a request fits into its type.                              *)
LEMMA EstimateFair ==
  ASSUME NEW v, IsJson(v), NEW names
  PROVE  Estimate(v, names) \in Nat /\ AllTokens(v) \in Nat /\ Fair(Estimate(v, names), v)
BY TokenSums DEF Estimate, Fair

LEMMA RequestEstimate ==
  ASSUME NEW r \in Requests, NEW v \in Bodies[r]
  PROVE  /\ RequestTokens(v) \in 0 .. U32Max
         /\ RequestTokens(v) = Estimate(v, RequestFields)
<1>1. IsJson(v) /\ AllTokens(v) <= U32Max  BY TextAssumption
<1>2. Estimate(v, RequestFields) \in Nat /\ Estimate(v, RequestFields) <= U32Max
  BY <1>1, EstimateFair, LimitAssumption DEF Fair
<1>3. Estimate(v, RequestFields) % (U32Max + 1) = Estimate(v, RequestFields)
  BY <1>2, LimitAssumption
<1> QED  BY <1>2, <1>3, LimitAssumption DEF RequestTokens

(* An answer is taken to have a number of tokens of 32 bits.               *)
LEMMA OutputsFit == Outputs \subseteq 0 .. U32Max
<1> SUFFICES ASSUME NEW events \in Answers PROVE OutputTokens(events) \in 0 .. U32Max
  BY DEF Outputs
<1>1. ASSUME NEW e \in events PROVE EventTokens(e) \in 0 .. U32Max
  <2>1. \A n \in Nat : n % (U32Max + 1) \in 0 .. U32Max  BY LimitAssumption
  <2>2. IsJson(e.body) /\ e.total \in Nat \cup {Unreported}  BY TextAssumption
  <2>3. Estimate(e.body, ResponseFields) \in Nat  BY <2>2, EstimateFair
  <2> QED  BY <2>1, <2>2, <2>3 DEF EventTokens
<1> DEFINE S == {0} \cup {EventTokens(e) : e \in events}
<1>2. S \subseteq 0 .. U32Max /\ S # {}  BY <1>1, LimitAssumption
<1>3. IsFiniteSet(0 .. U32Max)  BY LimitAssumption, FS_Interval
<1> HIDE DEF S
<1>4. IsFiniteSet(S) /\ S \subseteq Nat
  <2>1. IsFiniteSet(S)  BY <1>2, <1>3, FS_Subset
  <2> QED  BY <1>2, <2>1, LimitAssumption
<1>5. \E x \in S : \A y \in S : x >= y  BY <1>2, <1>4, Greatest
<1>6. Max(S) \in S  BY <1>5 DEF Max
<1> QED  BY <1>2, <1>6 DEF OutputTokens, S

(* /execute has no body, which no limit refuses.                           *)
LEMMA NothingFits ==
  ~ OverSize(0) /\ \A r \in Executes : \A v \in Bodies[r] : RequestTokens(v) = 0
<1>1. ~ OverSize(0)
  BY ProxyAssumption, LimitAssumption DEF OverSize, Limits
<1>2. ASSUME NEW r \in Executes, NEW v \in Bodies[r] PROVE RequestTokens(v) = 0
  <2>1. v = NoTexts /\ r \in Requests /\ IsJson(v)  BY ProxyAssumption, TextAssumption
  <2>2. DOMAIN v = {}  BY <2>1 DEF NoTexts
  <2>3. IsFiniteSet(DOMAIN v)  BY <2>1 DEF IsJson
  <2>4. SumFunctionOnSet(v, DOMAIN v) = 0  BY <2>2, <2>3, SumStep
  <2>5. Estimate(v, RequestFields) = 0
    BY <2>1, <2>4, TokenSums DEF Estimate, AllTokens
  <2> QED  BY <2>1, <2>5, RequestEstimate
<1> QED  BY <1>1, <1>2

(* What the handlers know of the estimate of a request.                    *)
LEMMA InputFacts ==
  ASSUME ProxyTypeOK, NEW r \in Requests
  PROVE  /\ body[r] \in Bodies[r] /\ input[r] = RequestTokens(body[r])
         /\ input[r] \in 0 .. U32Max
         /\ r \in Executes => input[r] = 0
<1>1. body[r] \in Bodies[r] /\ input[r] = RequestTokens(body[r])
  BY DEF ProxyTypeOK, input
<1>2. input[r] \in 0 .. U32Max  BY <1>1, RequestEstimate
<1> QED  BY <1>1, <1>2, NothingFits

(* An answer is charged its input at least, and no more than MaxTokens.    *)
LEMMA AnswerCharge ==
  ASSUME ProxyTypeOK, NEW r \in Requests, NEW out \in Outputs, ~ OverSize(input[r])
  PROVE  /\ ResponseTokens(out, input[r]) \in 0 .. MaxTokens
         /\ ResponseTokens(out, input[r]) >= input[r]
<1>1. /\ body[r] \in Bodies[r] /\ input[r] = RequestTokens(body[r])
      /\ input[r] \in 0 .. U32Max
  BY InputFacts
<1>2. out \in 0 .. U32Max  BY OutputsFit
<1>3. ResponseTokens(out, input[r]) >= input[r]
  BY <1>1, <1>2, LimitAssumption DEF ResponseTokens, SaturatingAdd
<1>4. ResponseTokens(out, input[r]) \in 0 .. MaxTokens  BY <1>1, ChargeAssumption
<1> QED  BY <1>3, <1>4

LEMMA ProxyInitInv == ProxyInit => ProxyInv
<1> SUFFICES ASSUME ProxyInit PROVE ProxyInv
  OBVIOUS
<1>1. PoolInv  BY PoolInit DEF ProxyInit
<1>2. /\ held = [r \in Requests |-> NoSlot] /\ waiting = {} /\ releasing = {}
  BY DEF ProxyInit, Init
<1>3. keys \in [Keys -> KeyState]
  BY LimitAssumption, ProxyAssumption DEF ProxyInit, NewKey, KeyState, NoBan
<1>4. DOMAIN body = Requests /\ \A r \in Requests : body[r] \in Bodies[r]
  BY DEF ProxyInit
<1>5. 0 \in 0 .. MaxTokens  BY ProxyAssumption
<1>6. ProxyTypeOK
  BY <1>1, <1>3, <1>4, <1>5 DEF ProxyInit, ProxyTypeOK, PoolInv, Phases
<1>7. Hands /\ Sent  BY <1>2 DEF ProxyInit, Hands, Sent, Holding, Working, Returning
<1>8. Books  BY DEF ProxyInit, Books
<1> QED  BY <1>1, <1>6, <1>7, <1>8 DEF ProxyInv

(* Actions that change no key and no token.                                *)
LEMMA MovesInv ==
  ASSUME ProxyInv, PoolInv', NEW r \in Requests,
         \/ Reject(r) \/ Enter(r) \/ TakeSlot(r) \/ RefuseSize(r) \/ Backoff(r)
         \/ Retry(r) \/ GiveBack(r) \/ AwaitRoom(r) \/ Disconnect(r)
  PROVE  ProxyInv'
<1>0. body' = body /\ input' = input
  BY DEF Reject, Enter, TakeSlot, RefuseSize, Backoff, Retry, GiveBack, AwaitRoom,
         Disconnect, usage, input
<1> USE DEF ProxyInv, ProxyTypeOK, Hands, Sent, Books, Phases, Holding, Working, Returning
<1>1. PoolTypeOK'  BY DEF PoolInv
<1>2. /\ held \in [Requests -> Slots \cup {NoSlot}] /\ waiting \subseteq Requests
      /\ releasing \subseteq Requests /\ NoSlot \notin Slots
  BY PoolAssumption DEF PoolInv, PoolTypeOK, PoolParameters, Holders
<1>3. CASE Reject(r)  BY <1>0, <1>1, <1>3 DEF Reject, Goto, poolVars, clocks, usage
<1>4. CASE Enter(r)  BY <1>0, <1>1, <1>2, <1>4 DEF Enter, Request, Goto, clocks, usage
<1>5. CASE TakeSlot(r)
  BY <1>0, <1>1, <1>2, <1>5 DEF TakeSlot, Acquire, Goto, clocks, usage, PoolTypeOK
<1>6. CASE RefuseSize(r)
  BY <1>0, <1>1, <1>2, <1>6 DEF RefuseSize, Goto, poolVars, clocks, usage
<1>7. CASE Backoff(r)
  BY <1>0, <1>1, <1>2, <1>7 DEF Backoff, MaxRetries, Goto, poolVars, clocks, usage
<1>8. CASE Retry(r)
  BY <1>0, <1>1, <1>2, <1>8 DEF Retry, Goto, poolVars, clocks, usage
<1>9. CASE GiveBack(r)
  BY <1>0, <1>1, <1>2, <1>9 DEF GiveBack, Release, Goto, clocks, usage
<1>10. CASE AwaitRoom(r)
  BY <1>0, <1>1, <1>2, <1>10 DEF AwaitRoom, Suspend, clocks, usage
<1>11. CASE Disconnect(r)
  BY <1>0, <1>1, <1>2, <1>11 DEF Disconnect, Droppable, Drop, Goto, poolVars, clocks, usage
<1> QED  BY <1>3, <1>4, <1>5, <1>6, <1>7, <1>8, <1>9, <1>10, <1>11

(* Whoever has a slot works with the key of that slot.                     *)
LEMMA KeyInUseFact ==
  ASSUME ProxyInv, NEW r \in Requests, phase[r] \in Holding,
         NEW k \in KeyState, SetKey(r, k)
  PROVE  /\ using[r] = held[r] /\ held[r] \in Slots
         /\ KeyOf[using[r]] \in Keys /\ KeyInUse(r) \in KeyState
         /\ keys' \in [Keys -> KeyState]
BY ProxyAssumption
   DEF ProxyInv, ProxyTypeOK, PoolInv, PoolTypeOK, Hands, SetKey, KeyInUse

LEMMA KeyInUseType ==
  ASSUME ProxyInv, NEW r \in Requests, phase[r] \in Holding
  PROVE  KeyInUse(r) \in KeyState /\ now \in Nat /\ day \in Nat
BY ProxyAssumption
   DEF ProxyInv, ProxyTypeOK, PoolInv, PoolTypeOK, Hands, KeyInUse

(* Actions that ask a key for admission or set a cooldown.                 *)
LEMMA KeyStepsInv ==
  ASSUME ProxyInv, PoolInv', NEW r \in Requests,
         Refuse(r) \/ Admit(r) \/ GiveUp(r) \/ Answer(r)
  PROVE  ProxyInv'
<1>1. phase[r] \in Holding
  BY DEF Refuse, Admit, GiveUp, Answer, Holding, Working
<1>2. /\ KeyInUse(r) \in KeyState /\ now \in Nat /\ day \in Nat
      /\ TryUse(KeyInUse(r), now, day) \in KeyState
      /\ SetCooldown(KeyInUse(r), now, MinuteLen) \in KeyState
      /\ SetCooldown(KeyInUse(r), now, TenSeconds) \in KeyState
  <2>1. KeyInUse(r) \in KeyState /\ now \in Nat /\ day \in Nat
    BY <1>1, KeyInUseType
  <2>2. MinuteLen \in Nat /\ TenSeconds \in Nat  BY TimeAssumption
  <2> QED  BY <2>1, <2>2, AdmitFields, RefuseFields, CooldownFields
<1>3. keys' \in [Keys -> KeyState]
  <2>1. CASE Refuse(r) \/ Admit(r)
    BY <1>1, <1>2, <2>1, KeyInUseFact DEF Refuse, Admit
  <2>2. CASE GiveUp(r)  BY <1>1, <1>2, <2>2, KeyInUseFact DEF GiveUp
  <2>3. CASE Answer(r)
    BY <1>1, <1>2, <2>3, KeyInUseFact DEF Answer, ProxyInv, ProxyTypeOK
  <2> QED  BY <2>1, <2>2, <2>3
<1>4. PoolTypeOK'  BY DEF PoolInv
<1>0. body' = body /\ input' = input
  BY DEF Refuse, Admit, GiveUp, Answer, usage, input
<1> USE DEF ProxyInv, ProxyTypeOK, Hands, Sent, Books, Phases, Holding, Working, Returning
<1>5. CASE Refuse(r)
  <2>1. r \in Executes => input[r] = 0  BY InputFacts DEF ProxyInv
  <2> QED  BY <1>0, <1>3, <1>4, <1>5, <2>1, NothingFits DEF Refuse, Goto, poolVars, clocks, usage
<1>6. CASE Admit(r)
  <2>1. r \in Executes => input[r] = 0  BY InputFacts DEF ProxyInv
  <2> QED  BY <1>0, <1>3, <1>4, <1>6, <2>1, NothingFits DEF Admit, Goto, poolVars, clocks, usage
<1>7. CASE GiveUp(r)
  BY <1>0, <1>3, <1>4, <1>7 DEF GiveUp, Goto, poolVars, clocks, usage
<1>8. CASE Answer(r)
  BY <1>0, <1>3, <1>4, <1>8 DEF Answer, Goto, poolVars, clocks, usage
<1> QED  BY <1>5, <1>6, <1>7, <1>8

(* The end of an answer, which is charged once, and its row in the log.    *)
LEMMA ChargeInv ==
  ASSUME ProxyInv, PoolInv', NEW r \in Requests, NEW out,
         BodyLost(r) \/ (out \in Outputs /\ (BodyRead(r, out) \/ StreamEnds(r, out)))
  PROVE  ProxyInv'
<1> DEFINE n == IF BodyLost(r) THEN 0 ELSE ResponseTokens(out, input[r])
<1>1. /\ phase[r] \in {"reading", "streaming"}
      /\ Charge(r, n) /\ phase' = [phase EXCEPT ![r] = IF BodyLost(r) THEN "returning"
                                                                    ELSE "settling"]
      /\ UNCHANGED <<poolVars, clocks, sends, using, detached>>
  BY DEF BodyRead, StreamEnds, BodyLost, Goto
<1>2. /\ ProxyTypeOK /\ input[r] \in Nat /\ ~ OverSize(input[r])
      /\ tokens[r] = 0 /\ charged[r] = 0 /\ logged[r] = Nothing
  <2>1. ProxyTypeOK /\ input[r] \in 0 .. U32Max  BY InputFacts DEF ProxyInv
  <2> QED  BY <1>1, <2>1, LimitAssumption DEF ProxyInv, ProxyTypeOK, Sent, Books, Working
<1>3. n \in 0 .. MaxTokens /\ n \in Nat /\ (~ BodyLost(r) => n >= input[r])
  <2>1. CASE BodyLost(r)  BY <2>1, ProxyAssumption
  <2>2. CASE ~ BodyLost(r)
    <3>1. out \in Outputs  BY <2>2
    <3> QED  BY <1>2, <2>2, <3>1, AnswerCharge, ProxyAssumption
  <2> QED  BY <2>1, <2>2
<1>4. phase[r] \in Holding  BY <1>1 DEF Holding, Working
<1>5. keys' \in [Keys -> KeyState]
  <2>1. RecordUsage(KeyInUse(r), n) \in KeyState
    BY <1>3, <1>4, KeyInUseType, RecordFields
  <2> QED  BY <1>1, <1>4, <2>1, KeyInUseFact DEF Charge
<1> HIDE DEF n
<1>6. /\ tokens' = [tokens EXCEPT ![r] = n] /\ charged' = [charged EXCEPT ![r] = @ + n]
      /\ body' = body /\ input' = input /\ logged' = logged
  BY <1>1 DEF Charge, input
<1>7. PoolTypeOK'  BY DEF PoolInv
<1> USE DEF ProxyInv, ProxyTypeOK, Hands, Sent, Books, Phases, Holding, Working, Returning
<1>8. ProxyTypeOK' /\ Hands' /\ Sent'
  BY <1>1, <1>3, <1>5, <1>6, <1>7 DEF poolVars, clocks
<1>9. Books'  BY <1>1, <1>2, <1>3, <1>6
<1> QED  BY <1>8, <1>9

LEMMA LogInv ==
  ASSUME ProxyInv, PoolInv', NEW r \in Requests, Log(r)
  PROVE  ProxyInv'
<1>1. PoolTypeOK'  BY DEF PoolInv
<1>2. tokens[r] \in Nat  BY ProxyAssumption DEF ProxyInv, ProxyTypeOK
<1>3. body' = body /\ input' = input  BY DEF Log, input
<1> USE DEF ProxyInv, ProxyTypeOK, Hands, Sent, Books, Phases, Holding, Working, Returning
<1> QED  BY <1>1, <1>2, <1>3 DEF Log, Goto, poolVars, clocks

(* The clock and an import move no request.                                *)
LEMMA WorldInv ==
  ASSUME ProxyInv, PoolInv', Tick \/ \E s \in Slots : Import(s)
  PROVE  ProxyInv'
<1>1. PoolTypeOK'  BY DEF PoolInv
<1>0. body' = body /\ input' = input  BY DEF Tick, Import, usage, input
<1>2. CASE Tick
  BY <1>0, <1>1, <1>2 DEF Tick, poolVars, usage, ProxyInv, ProxyTypeOK, Hands, Sent, Books
<1>3. ASSUME NEW s \in Slots, Import(s) PROVE ProxyInv'
  <2>1. \A k \in Keys : NewKey(now, day, CooldownOnLimit[k]) \in KeyState
    BY LimitAssumption, ProxyAssumption
       DEF ProxyInv, ProxyTypeOK, NewKey, KeyState, NoBan
  <2>2. keys' \in [Keys -> KeyState]
    BY <1>3, <2>1, ProxyAssumption DEF Import, ProxyInv, ProxyTypeOK
  <2> QED
    BY <1>0, <1>1, <1>3, <2>2
       DEF Import, AddKey, clocks, usage, ProxyInv, ProxyTypeOK, Hands, Sent, Books
<1> QED  BY <1>2, <1>3

LEMMA ProxyStep == ProxyInv /\ [ProxyNext]_vars => ProxyInv'
<1> SUFFICES ASSUME ProxyInv, [ProxyNext]_vars PROVE ProxyInv'
  OBVIOUS
<1>1. PoolInv'  BY PoolSteps, PoolStep DEF ProxyInv
<1>2. CASE UNCHANGED vars
  <2>1. body' = body /\ input' = input  BY <1>2 DEF vars, input
  <2> QED
    BY <1>1, <1>2, <2>1 DEF vars, ProxyInv, ProxyTypeOK, PoolInv, Hands, Sent, Books
<1>3. ASSUME NEW r \in Requests, Proceed(r) PROVE ProxyInv'
  <2>1. CASE \E out \in Outputs : BodyRead(r, out)  BY <1>1, <2>1, ChargeInv
  <2>2. CASE BodyLost(r)
    BY <1>1, <2>2, ChargeInv
  <2>3. CASE Log(r)  BY <1>1, <2>3, LogInv
  <2> QED  BY <1>1, <1>3, <2>1, <2>2, <2>3, MovesInv, KeyStepsInv DEF Proceed
<1> QED  BY <1>1, <1>2, <1>3, MovesInv, ChargeInv, WorldInv DEF ProxyNext

LEMMA ProxyInvariant == ProxySpec => []ProxyInv
<1> QED  BY ProxyInitInv, ProxyStep, PTL DEF ProxySpec

(* The pool, the keys and the requests keep their types.                   *)
THEOREM ProxyTyping == ProxySpec => []ProxyTypeOK
<1>1. ProxyInv => ProxyTypeOK  BY DEF ProxyInv
<1> QED  BY <1>1, ProxyInvariant, PTL

(* A log row tells what the key was charged, with the slot given back.     *)
THEOREM LogsAgree == ProxySpec => []LogAgreesWithKeys
<1>1. ProxyInv => LogAgreesWithKeys
  BY DEF ProxyInv, Books, Hands, Holding, Working, Returning, LogAgreesWithKeys
<1> QED  BY <1>1, ProxyInvariant, PTL

(* Every answer is charged what was estimated for its request, at least.   *)
THEOREM AnswersPaid == ProxySpec => []NoFreeAnswers
<1>1. ProxyInv => NoFreeAnswers
  BY DEF ProxyInv, Books, NoFreeAnswers
<1> QED  BY <1>1, ProxyInvariant, PTL

(* No text escapes: a request is limited and charged by an estimate that   *)
(* is 0 for a body without text only, and every answer to one with text    *)
(* costs its key something.                                                *)
THEOREM TextsCounted == ProxySpec => []EstimateCoversText
<1>1. ASSUME ProxyInv PROVE EstimateCoversText
  <2>1. ASSUME NEW r \in Requests
        PROVE  /\ Fair(input[r], body[r])
               /\ logged[r] # Nothing /\ AllTokens(body[r]) > 0 => logged[r] > 0
    <3>1. /\ body[r] \in Bodies[r] /\ input[r] \in 0 .. U32Max
          /\ input[r] = Estimate(body[r], RequestFields)
      BY <1>1, InputFacts, RequestEstimate DEF ProxyInv
    <3>2. IsJson(body[r])  BY <3>1, TextAssumption
    <3>3. Fair(input[r], body[r])  BY <3>1, <3>2, EstimateFair
    <3>4. /\ logged[r] # Nothing => logged[r] = tokens[r] /\ tokens[r] >= input[r]
          /\ tokens[r] \in Nat
      BY <1>1, ProxyAssumption DEF ProxyInv, ProxyTypeOK, Books
    <3> QED  BY <3>1, <3>3, <3>4, LimitAssumption DEF Fair
  <2>2. ASSUME NEW events \in Answers, NEW e \in events
        PROVE  Fair(Estimate(e.body, ResponseFields), e.body)
    <3>1. IsJson(e.body)  BY TextAssumption
    <3> QED  BY <3>1, EstimateFair
  <2> QED  BY <2>1, <2>2 DEF EstimateCoversText
<1> QED  BY <1>1, ProxyInvariant, PTL

(* The slots of a key are finitely many, and so are its requests, by the   *)
(* injection of a request to the slot it holds.                            *)
Fits(k) ==
  /\ Cardinality(Upstream(k)) \in Nat /\ Cardinality(KeySlots(k)) \in Nat
  /\ IsFiniteSet(Upstream(k)) /\ IsFiniteSet(KeySlots(k))
  /\ Cardinality(Upstream(k)) <= Cardinality(KeySlots(k))

LEMMA UpstreamFits == ProxyInv => \A k \in Keys : Fits(k)
<1> SUFFICES ASSUME ProxyInv, NEW k \in Keys PROVE Fits(k)
  OBVIOUS
<1> DEFINE f == [r \in Upstream(k) |-> held[r]]
<1>1. \A r \in Upstream(k) : held[r] = using[r] /\ held[r] \in KeySlots(k) /\ r \in Holders
  BY DEF ProxyInv, Hands, Holding, Working, PoolInv, Known, Holders, Upstream, KeySlots
<1>2. IsFiniteSet(KeySlots(k))
  <2>1. KeySlots(k) \subseteq Slots
    BY DEF KeySlots, ProxyInv, PoolInv, PoolTypeOK
  <2> QED  BY <2>1, ProxyAssumption, FS_Subset
<1>3. f \in [Upstream(k) -> KeySlots(k)]  BY <1>1
<1>4. \A r, q \in Upstream(k) : f[r] = f[q] => r = q
  BY <1>1 DEF ProxyInv, PoolInv, SlotsExclusive
<1>5. f \in Injection(Upstream(k), KeySlots(k))
  BY <1>3, <1>4 DEF Injection, IsInjective
<1>6. /\ IsFiniteSet(Upstream(k))
      /\ Cardinality(Upstream(k)) <= Cardinality(KeySlots(k))
  BY <1>2, <1>5, FS_Injection
<1> QED  BY <1>2, <1>6, FS_CardinalityType DEF Fits

(* The requests that one key has with its provider use slots of their own. *)
THEOREM Concurrency == ProxySpec => []UpstreamWithinConcurrency
<1>1. ProxyInv => UpstreamWithinConcurrency
  BY UpstreamFits DEF UpstreamWithinConcurrency, Fits
<1> QED  BY <1>1, ProxyInvariant, PTL

-----------------------------------------------------------------------------
(* What a key has counted and what its requests may still be charged, a of *)
(* them on b slots, stay below the limit and a full answer for each slot.  *)
Allowed(counted, limit, a, b) ==
  limit # NoLimit =>
    IF limit = 0 THEN counted = 0 /\ a = 0
                 ELSE counted + a * MaxTokens < limit + b * MaxTokens

TokenInv ==
  \A k \in Keys :
    /\ Allowed(keys[k].tokens_this_minute, TpmLimit,
               Cardinality(Upstream(k)), Cardinality(KeySlots(k)))
    /\ Allowed(keys[k].tokens_today, TpdLimit,
               Cardinality(Upstream(k)), Cardinality(KeySlots(k)))

LEMMA Products ==
  ASSUME NEW a \in Nat, NEW b \in Nat, NEW m \in Nat, a <= b
  PROVE  a * m \in Nat /\ b * m \in Nat /\ a * m <= b * m /\ (a + 1) * m = a * m + m
OBVIOUS

(* Requests end, slots are added and counters restart.                     *)
LEMMA AllowedKept ==
  ASSUME NEW limit \in Limits, NEW n \in Nat, NEW n2 \in Nat, n2 <= n,
         NEW a \in Nat, NEW a2 \in Nat, a2 <= a, NEW b \in Nat, NEW b2 \in Nat, b <= b2,
         Allowed(n, limit, a, b)
  PROVE  Allowed(n2, limit, a2, b2)
<1>1. MaxTokens \in Nat  BY ProxyAssumption
<1>2. a2 * MaxTokens \in Nat /\ a * MaxTokens \in Nat /\ a2 * MaxTokens <= a * MaxTokens
  BY <1>1, Products
<1>3. b * MaxTokens \in Nat /\ b2 * MaxTokens \in Nat /\ b * MaxTokens <= b2 * MaxTokens
  BY <1>1, Products
<1> QED  BY <1>2, <1>3 DEF Allowed, Limits

(* A request that ends is charged once, at most what it was allowed.       *)
LEMMA AllowedCharged ==
  ASSUME NEW limit \in Limits, NEW n \in Nat, NEW n2 \in Nat, NEW m \in 0 .. MaxTokens,
         n2 <= n + m, NEW a \in Nat, NEW b \in Nat, Allowed(n, limit, a + 1, b)
  PROVE  Allowed(n2, limit, a, b)
<1>1. MaxTokens \in Nat  BY ProxyAssumption
<1>2. a * MaxTokens \in Nat /\ (a + 1) * MaxTokens = a * MaxTokens + MaxTokens
  BY <1>1, Products
<1>3. b * MaxTokens \in Nat  BY <1>1, Products
<1> QED  BY <1>1, <1>2, <1>3 DEF Allowed, Limits

(* Whoever is admitted finds less than the limit counted, and a slot.      *)
LEMMA AllowedAdmitted ==
  ASSUME NEW limit \in Limits, NEW n \in Nat, limit # NoLimit => n < limit,
         NEW a \in Nat, NEW b \in Nat, a <= b
  PROVE  Allowed(n, limit, a, b)
<1>1. MaxTokens \in Nat  BY ProxyAssumption
<1>2. a * MaxTokens \in Nat /\ b * MaxTokens \in Nat /\ a * MaxTokens <= b * MaxTokens
  BY <1>1, Products
<1> QED  BY <1>2 DEF Allowed, Limits

(* Steps that charge and admit nothing for key k.                          *)
Calm(k) ==
  /\ keys'[k].tokens_this_minute <= keys[k].tokens_this_minute
  /\ keys'[k].tokens_today <= keys[k].tokens_today
  /\ Upstream(k)' \subseteq Upstream(k)

LEMMA CalmMoves ==
  ASSUME ProxyInv, NEW r \in Requests, NEW k \in Keys,
         \/ Reject(r) \/ Enter(r) \/ TakeSlot(r) \/ RefuseSize(r) \/ Backoff(r)
         \/ Retry(r) \/ GiveBack(r) \/ AwaitRoom(r) \/ Log(r) \/ Disconnect(r)
  PROVE  Calm(k)
<1>1. /\ phase \in [Requests -> Phases] /\ using \in [Requests -> Slots \cup {NoSlot}]
      /\ keys[k].tokens_this_minute \in Nat /\ keys[k].tokens_today \in Nat
  BY LimitAssumption DEF ProxyInv, ProxyTypeOK, KeyState
<1>2. /\ keys' = keys
      /\ \A q \in Requests \ {r} : phase'[q] = phase[q] /\ using'[q] = using[q]
  BY <1>1 DEF Reject, Enter, TakeSlot, RefuseSize, Backoff, Retry, AwaitRoom, Log,
              GiveBack, Disconnect, Goto, clocks
<1>3. phase'[r] \in Working => phase[r] \in Working /\ using'[r] = using[r]
  BY <1>1 DEF Reject, Enter, TakeSlot, RefuseSize, Backoff, Retry, AwaitRoom, Log,
              GiveBack, Disconnect, Goto, clocks, Working, Returning
<1>4. Upstream(k)' \subseteq Upstream(k)
  BY <1>2, <1>3 DEF Upstream, Working
<1> QED  BY <1>1, <1>2, <1>4 DEF Calm

LEMMA CalmWorld ==
  ASSUME ProxyInv, NEW k \in Keys,
         Tick \/ UNCHANGED vars \/ \E s \in Slots : Import(s)
  PROVE  Calm(k)
<1>1. /\ keys \in [Keys -> KeyState]
      /\ keys[k].tokens_this_minute \in Nat /\ keys[k].tokens_today \in Nat
  BY LimitAssumption DEF ProxyInv, ProxyTypeOK, KeyState
<1>2. phase' = phase /\ using' = using
  BY DEF Tick, vars, Import
<1>3. Upstream(k)' = Upstream(k)  BY <1>2 DEF Upstream
<1>4. \/ keys'[k] = keys[k]
      \/ keys'[k].tokens_this_minute = 0 /\ keys'[k].tokens_today = 0
  <2>1. CASE Tick \/ UNCHANGED vars  BY <2>1 DEF Tick, vars
  <2>2. ASSUME NEW s \in Slots, Import(s)
        PROVE  \/ keys'[k] = keys[k]
               \/ keys'[k].tokens_this_minute = 0 /\ keys'[k].tokens_today = 0
    <3> DEFINE x == NewKey(now, day, CooldownOnLimit[KeyOf[s]])
    <3>1. x.tokens_this_minute = 0 /\ x.tokens_today = 0  BY DEF NewKey
    <3>2. keys' = keys \/ keys' = [keys EXCEPT ![KeyOf[s]] = x]
      BY <2>2 DEF Import
    <3> HIDE DEF x
    <3> QED  BY <1>1, <3>1, <3>2
  <2> QED  BY <2>1, <2>2
<1> QED  BY <1>1, <1>3, <1>4 DEF Calm

(* A request that is refused or that fails moves no counter up.            *)
LEMMA CalmRefusal ==
  ASSUME ProxyInv, NEW r \in Requests, NEW k \in Keys,
         Refuse(r) \/ GiveUp(r) \/ Answer(r)
  PROVE  Calm(k)
<1>1. /\ phase \in [Requests -> Phases] /\ keys \in [Keys -> KeyState]
      /\ \A x \in KeyState : x.tokens_this_minute \in Nat /\ x.tokens_today \in Nat
  BY LimitAssumption DEF ProxyInv, ProxyTypeOK, KeyState
<1>2. phase[r] \in Holding
  BY DEF Refuse, GiveUp, Answer, Holding, Working
<1>3. /\ KeyInUse(r) \in KeyState /\ now \in Nat /\ day \in Nat
      /\ MinuteLen \in Nat /\ TenSeconds \in Nat
  BY <1>2, KeyInUseType, TimeAssumption
<1>4. PICK x : /\ keys' = [keys EXCEPT ![KeyOf[using[r]]] = x]
               /\ x.tokens_this_minute \in {0, KeyInUse(r).tokens_this_minute}
               /\ x.tokens_today \in {0, KeyInUse(r).tokens_today}
  <2>1. CASE Refuse(r)
    <3> DEFINE x == TryUse(KeyInUse(r), now, day)
    <3>1. /\ x.tokens_this_minute \in {0, KeyInUse(r).tokens_this_minute}
          /\ x.tokens_today \in {0, KeyInUse(r).tokens_today}
      BY <1>3, <2>1, RefuseFields DEF Refuse
    <3>2. keys' = [keys EXCEPT ![KeyOf[using[r]]] = x]
      BY <2>1 DEF Refuse, SetKey
    <3> QED  BY <3>1, <3>2
  <2>2. ASSUME NEW d \in Nat, SetKey(r, SetCooldown(KeyInUse(r), now, d))
        PROVE  \E x : /\ keys' = [keys EXCEPT ![KeyOf[using[r]]] = x]
                      /\ x.tokens_this_minute \in {0, KeyInUse(r).tokens_this_minute}
                      /\ x.tokens_today \in {0, KeyInUse(r).tokens_today}
    <3> DEFINE x == SetCooldown(KeyInUse(r), now, d)
    <3>1. /\ x.tokens_this_minute = KeyInUse(r).tokens_this_minute
          /\ x.tokens_today = KeyInUse(r).tokens_today
      BY <1>3, CooldownFields
    <3>2. keys' = [keys EXCEPT ![KeyOf[using[r]]] = x]
      BY <2>2 DEF SetKey
    <3> HIDE DEF x
    <3> QED  BY <3>1, <3>2
  <2>3. CASE keys' = keys
    <3>1. keys' = [keys EXCEPT ![KeyOf[using[r]]] = KeyInUse(r)]
      BY <1>1, <2>3 DEF KeyInUse
    <3> QED  BY <3>1
  <2> QED  BY <1>3, <2>1, <2>2, <2>3 DEF GiveUp, Answer
<1>5. /\ keys'[k].tokens_this_minute <= keys[k].tokens_this_minute
      /\ keys'[k].tokens_today <= keys[k].tokens_today
  <2>1. CASE k = KeyOf[using[r]]  BY <1>1, <1>3, <1>4, <2>1 DEF KeyInUse
  <2>2. CASE k # KeyOf[using[r]]  BY <1>1, <1>4, <2>2
  <2> QED  BY <2>1, <2>2
<1>6. /\ using' = using
      /\ \A q \in Requests : phase'[q] \in Working => phase[q] \in Working
  BY <1>1 DEF Refuse, GiveUp, Answer, Goto, Working
<1>7. Upstream(k)' \subseteq Upstream(k)  BY <1>6 DEF Upstream, Working
<1> QED  BY <1>5, <1>7 DEF Calm

(* An admission that finds room below both limits.                         *)
LEMMA AdmitMoves ==
  ASSUME ProxyInv, NEW r \in Requests, Admit(r), NEW k \in Keys
  PROVE  \/ Calm(k)
         \/ /\ TpmLimit # NoLimit => keys'[k].tokens_this_minute < TpmLimit
            /\ TpdLimit # NoLimit => keys'[k].tokens_today < TpdLimit
<1>1. /\ phase \in [Requests -> Phases] /\ keys \in [Keys -> KeyState]
      /\ \A x \in KeyState : x.tokens_this_minute \in Nat /\ x.tokens_today \in Nat
  BY LimitAssumption DEF ProxyInv, ProxyTypeOK, KeyState
<1>2. KeyInUse(r) \in KeyState /\ now \in Nat /\ day \in Nat
  BY KeyInUseType DEF Admit, Holding
<1>3. CASE k = KeyOf[using[r]]
  <2>1. keys'[k] = TryUse(KeyInUse(r), now, day)
    BY <1>1, <1>3 DEF Admit, SetKey
  <2> QED  BY <1>2, <2>1, AdmitFields DEF Admit
<1>4. CASE k # KeyOf[using[r]]
  <2>1. keys'[k] = keys[k]  BY <1>1, <1>4 DEF Admit, SetKey
  <2>2. using' = using /\ \A q \in Requests \ {r} : phase'[q] = phase[q]
    BY <1>1 DEF Admit, Goto
  <2>3. Upstream(k)' \subseteq Upstream(k)  BY <1>4, <2>2 DEF Upstream
  <2> QED  BY <1>1, <2>1, <2>3 DEF Calm
<1> QED  BY <1>3, <1>4

(* The end of an answer: one request less, and its tokens on the key.      *)
LEMMA ChargeMoves ==
  ASSUME ProxyInv, NEW r \in Requests, NEW k \in Keys, NEW out,
         BodyLost(r) \/ (out \in Outputs /\ (BodyRead(r, out) \/ StreamEnds(r, out)))
  PROVE  \/ Calm(k)
         \/ /\ r \in Upstream(k) /\ Upstream(k)' = Upstream(k) \ {r}
            /\ \E n \in 0 .. MaxTokens :
                 /\ keys'[k].tokens_this_minute <= keys[k].tokens_this_minute + n
                 /\ keys'[k].tokens_today <= keys[k].tokens_today + n
<1>1. /\ phase \in [Requests -> Phases] /\ keys \in [Keys -> KeyState]
      /\ \A x \in KeyState : x.tokens_this_minute \in Nat /\ x.tokens_today \in Nat
  BY LimitAssumption DEF ProxyInv, ProxyTypeOK, KeyState
<1>2. /\ phase[r] \in {"reading", "streaming"} /\ using' = using
      /\ phase'[r] \notin Working /\ \A q \in Requests \ {r} : phase'[q] = phase[q]
  BY <1>1 DEF BodyLost, BodyRead, StreamEnds, Goto, Working
<1>3. PICK n \in 0 .. MaxTokens :
        keys' = [keys EXCEPT ![KeyOf[using[r]]] = RecordUsage(KeyInUse(r), n)]
  <2>1. CASE BodyLost(r)
    <3>1. 0 \in 0 .. MaxTokens  BY ProxyAssumption
    <3> QED  BY <2>1, <3>1 DEF BodyLost, Charge, SetKey
  <2>2. CASE out \in Outputs /\ (BodyRead(r, out) \/ StreamEnds(r, out))
    <3>1. ResponseTokens(out, input[r]) \in 0 .. MaxTokens
      BY <1>2, <2>2, AnswerCharge DEF ProxyInv, ProxyTypeOK, Sent, Working
    <3> QED  BY <2>2, <3>1 DEF BodyRead, StreamEnds, Charge, SetKey
  <2> QED  BY <2>1, <2>2
<1>4. KeyInUse(r) \in KeyState /\ n \in Nat
  BY <1>2, KeyInUseType, ProxyAssumption DEF Holding, Working
<1>5. CASE k = KeyOf[using[r]]
  <2>1. keys[k] = KeyInUse(r) /\ keys'[k] = RecordUsage(KeyInUse(r), n)
    BY <1>1, <1>3, <1>5 DEF KeyInUse
  <2>2. /\ keys'[k].tokens_this_minute <= keys[k].tokens_this_minute + n
        /\ keys'[k].tokens_today <= keys[k].tokens_today + n
    <3> DEFINE x == RecordUsage(KeyInUse(r), n)
    <3>1. /\ x.tokens_this_minute <= KeyInUse(r).tokens_this_minute + n
          /\ \/ x.tokens_today = KeyInUse(r).tokens_today + n
             \/ /\ x.tokens_today = U32Max
                /\ KeyInUse(r).tokens_today + n > U32Max
      BY <1>4, RecordFields
    <3>2. KeyInUse(r).tokens_today + n \in Nat /\ U32Max \in Nat
      BY <1>1, <1>4, LimitAssumption
    <3> HIDE DEF x
    <3> QED  BY <2>1, <3>1, <3>2 DEF x
  <2>3. r \in Upstream(k) /\ Upstream(k)' = Upstream(k) \ {r}
    BY <1>2, <1>5 DEF Upstream, Working
  <2> QED  BY <2>2, <2>3
<1>6. CASE k # KeyOf[using[r]]
  <2>1. keys'[k] = keys[k]  BY <1>1, <1>3, <1>6
  <2>2. Upstream(k)' \subseteq Upstream(k)  BY <1>2, <1>6 DEF Upstream
  <2> QED  BY <1>1, <2>1, <2>2 DEF Calm
<1> QED  BY <1>5, <1>6

LEMMA FitsNext == ProxyInv' => (\A k \in Keys : Fits(k))'
BY UpstreamFits, PTL

LEMMA TokenStep == ProxyInv /\ TokenInv /\ [ProxyNext]_vars => TokenInv'
<1> SUFFICES ASSUME ProxyInv, TokenInv, [ProxyNext]_vars, NEW k \in Keys
             PROVE  /\ Allowed(keys'[k].tokens_this_minute, TpmLimit,
                         Cardinality(Upstream(k))', Cardinality(KeySlots(k))')
                    /\ Allowed(keys'[k].tokens_today, TpdLimit,
                         Cardinality(Upstream(k))', Cardinality(KeySlots(k))')
  BY DEF TokenInv, Allowed
<1> DEFINE a == Cardinality(Upstream(k))
           b == Cardinality(KeySlots(k))
           m == keys[k].tokens_this_minute
           d == keys[k].tokens_today
<1>1. ProxyInv'  BY ProxyStep
<1>2. Fits(k) /\ Fits(k)'
  BY <1>1, UpstreamFits, FitsNext
<1>3. a \in Nat /\ a' \in Nat /\ b \in Nat /\ b' \in Nat /\ a' <= b'
  BY <1>2 DEF Fits
<1>4. m \in Nat /\ m' \in Nat /\ d \in Nat /\ d' \in Nat
  BY <1>1, LimitAssumption DEF ProxyInv, ProxyTypeOK, KeyState
<1>5. TpmLimit \in Limits /\ TpdLimit \in Limits  BY LimitAssumption
<1>6. Allowed(m, TpmLimit, a, b) /\ Allowed(d, TpdLimit, a, b)
  BY DEF TokenInv
<1>7. b <= b'
  <2>1. offered \subseteq offered'
    BY PoolSteps DEF Next, poolVars, Request, Acquire, Release, Suspend, Drop, AddKey
  <2>2. KeySlots(k) \subseteq KeySlots(k)'  BY <2>1 DEF KeySlots
  <2> QED  BY <1>2, <2>2, FS_Subset DEF Fits
<1>8. CASE Calm(k)
  <2>1. m' <= m /\ d' <= d  BY <1>8 DEF Calm
  <2>2. a' <= a  BY <1>2, <1>8, FS_Subset DEF Calm, Fits
  <2> QED  BY <1>3, <1>4, <1>5, <1>6, <1>7, <2>1, <2>2, AllowedKept
<1>9. ASSUME NEW r \in Requests, Admit(r)
      PROVE  Allowed(m', TpmLimit, a', b') /\ Allowed(d', TpdLimit, a', b')
  <2>1. CASE Calm(k)  BY <1>8, <2>1
  <2>2. CASE /\ TpmLimit # NoLimit => m' < TpmLimit
             /\ TpdLimit # NoLimit => d' < TpdLimit
    BY <1>3, <1>4, <1>5, <2>2, AllowedAdmitted
  <2> QED  BY <1>9, <2>1, <2>2, AdmitMoves
<1>10. ASSUME NEW r \in Requests, NEW out,
              BodyLost(r) \/ (out \in Outputs /\ (BodyRead(r, out) \/ StreamEnds(r, out)))
       PROVE  Allowed(m', TpmLimit, a', b') /\ Allowed(d', TpdLimit, a', b')
  <2>1. CASE Calm(k)  BY <1>8, <2>1
  <2>2. ASSUME r \in Upstream(k), Upstream(k)' = Upstream(k) \ {r},
               NEW n \in 0 .. MaxTokens, m' <= m + n, d' <= d + n
        PROVE  Allowed(m', TpmLimit, a', b') /\ Allowed(d', TpdLimit, a', b')
    <3>1. a = a' + 1
      BY <1>2, <1>3, <2>2, FS_RemoveElement DEF Fits
    <3>2. Allowed(m, TpmLimit, a' + 1, b) /\ Allowed(d, TpdLimit, a' + 1, b)
      BY <1>6, <3>1
    <3>3. Allowed(m', TpmLimit, a', b) /\ Allowed(d', TpdLimit, a', b)
      BY <1>3, <1>4, <1>5, <2>2, <3>2, AllowedCharged
    <3> QED  BY <1>3, <1>4, <1>5, <1>7, <3>3, AllowedKept
  <2> QED  BY <1>10, <2>1, <2>2, ChargeMoves
<1>11. ASSUME NEW r \in Requests, Proceed(r)
       PROVE  Allowed(m', TpmLimit, a', b') /\ Allowed(d', TpdLimit, a', b')
  <2>1. CASE Admit(r)  BY <1>9, <2>1
  <2>2. CASE BodyLost(r) \/ \E out \in Outputs : BodyRead(r, out)  BY <1>10, <2>2
  <2>3. CASE Refuse(r) \/ GiveUp(r) \/ Answer(r)  BY <1>8, <2>3, CalmRefusal
  <2> QED  BY <1>8, <1>11, <2>1, <2>2, <2>3, CalmMoves DEF Proceed
<1>12. Allowed(m', TpmLimit, a', b') /\ Allowed(d', TpdLimit, a', b')
  <2>1. CASE Tick \/ UNCHANGED vars \/ \E s \in Slots : Import(s)
    BY <1>8, <2>1, CalmWorld
  <2>2. ASSUME NEW r \in Requests, Reject(r) \/ Enter(r) \/ Disconnect(r)
        PROVE  Calm(k)
    BY <2>2, CalmMoves
  <2> QED  BY <1>8, <1>10, <1>11, <2>1, <2>2 DEF ProxyNext
<1> QED  BY <1>12

(* The keys of a working pool overshoot their limits by the requests that  *)
(* have slots, and by no more, whoever is dropped, retried or imported.    *)
THEOREM KeysOvershoot == ProxySpec => []KeysWithinOvershoot
<1>1. ProxyInit => TokenInv
  <2> SUFFICES ASSUME ProxyInit, NEW k \in Keys
               PROVE  /\ keys[k].tokens_this_minute = 0 /\ keys[k].tokens_today = 0
                      /\ Upstream(k) = {} /\ Fits(k)
    <3>1. Cardinality({}) = 0  BY FS_EmptySet
    <3>2. ASSUME NEW n \in Nat, NEW limit \in Limits
          PROVE  Allowed(0, limit, 0, n)
      BY ProxyAssumption, Products DEF Allowed, Limits
    <3> QED  BY <3>1, <3>2, LimitAssumption DEF TokenInv, Fits
  <2> QED
    BY ProxyInitInv, UpstreamFits DEF ProxyInit, NewKey, Upstream
<1>2. ProxyInv /\ TokenInv => KeysWithinOvershoot
  <2> SUFFICES ASSUME ProxyInv, NEW k \in Keys, NEW n \in Nat, NEW limit \in Limits,
                      Allowed(n, limit, Cardinality(Upstream(k)), Cardinality(KeySlots(k)))
               PROVE  WithinOvershoot(n, limit, k)
    BY LimitAssumption DEF TokenInv, KeysWithinOvershoot, ProxyInv, ProxyTypeOK, KeyState
  <2>1. MaxTokens \in Nat  BY ProxyAssumption
  <2>2. /\ Cardinality(Upstream(k)) * MaxTokens \in Nat
        /\ Cardinality(KeySlots(k)) * MaxTokens \in Nat
    BY <2>1, UpstreamFits, Products DEF Fits
  <2> QED  BY <2>2 DEF Allowed, WithinOvershoot, Limits
<1> QED  BY <1>1, <1>2, TokenStep, ProxyInvariant, PTL DEF ProxySpec

-----------------------------------------------------------------------------
(* While nothing was imported nobody waits for room, and each slot that is *)
(* missing went with a request that had been sent.                         *)
LossInv ==
  offered = InitialSlots =>
    releasing = {} /\ Cardinality(Lost) <= Cardinality(DroppedUpstream)

LEMMA FiniteLosses ==
  /\ IsFiniteSet(InitialSlots) /\ IsFiniteSet(Lost)
  /\ IsFiniteSet(DroppedUpstream)
  /\ Cardinality(Lost) \in Nat /\ Cardinality(DroppedUpstream) \in Nat
<1>1. InitialSlots \subseteq Slots
  BY PoolAssumption, ElementOfSeq DEF PoolParameters, InitialSlots
<1>2. IsFiniteSet(InitialSlots)  BY <1>1, ProxyAssumption, FS_Subset
<1>3. IsFiniteSet(Lost)  BY <1>2, FS_Subset DEF Lost
<1>4. IsFiniteSet(DroppedUpstream)
  BY PoolAssumption, FS_Subset DEF PoolParameters, DroppedUpstream
<1> QED  BY <1>2, <1>3, <1>4, FS_CardinalityType

(* A pool step loses at most the slot of a request that is dropped.        *)
LEMMA LostStep ==
  ASSUME PoolInv, [Next]_poolVars
  PROVE  \/ Lost' = Lost
         \/ \E r \in Holders : Drop(r) /\ Lost' \subseteq Lost \cup {held[r]}
<1>1. /\ held \in [Requests -> Slots \cup {NoSlot}] /\ NoSlot \notin Slots
      /\ InitialSlots \subseteq Slots
  BY PoolAssumption, ElementOfSeq DEF PoolInv, PoolTypeOK, PoolParameters, InitialSlots
<1>2. ASSUME NEW r \in Requests, Request(r) \/ Suspend(r) PROVE Lost' = Lost
  BY <1>2 DEF Request, Suspend, Lost, Queued
<1>3. ASSUME NEW r \in Requests, Acquire(r) PROVE Lost' = Lost
  <2>1. Queued' = Queued \ {held'[r]} /\ held'[r] \in Queued /\ r \notin Holders
    BY <1>3, AcquireInv
  <2>2. held[r] = NoSlot /\ \A q \in Requests \ {r} : held'[q] = held[q]
    BY <1>1, <1>3, <2>1 DEF Acquire, Holders
  <2>3. \A s \in InitialSlots : s \in Lost' <=> s \in Lost
    BY <1>1, <2>1, <2>2 DEF Lost
  <2> QED  BY <2>3 DEF Lost
<1>4. ASSUME NEW r \in Requests, Release(r) PROVE Lost' = Lost
  <2>1. Queued' = Queued \cup {held[r]}  BY <1>4, ReleaseInv
  <2>2. held'[r] = NoSlot /\ \A q \in Requests \ {r} : held'[q] = held[q]
    BY <1>1, <1>4 DEF Release
  <2>3. \A s \in InitialSlots : s \in Lost' <=> s \in Lost
    BY <1>1, <2>1, <2>2 DEF Lost
  <2> QED  BY <2>3 DEF Lost
<1>5. ASSUME NEW s \in Slots, AddKey(s) PROVE Lost' = Lost
  <2>1. held' = held /\ s \notin InitialSlots
    BY <1>5 DEF AddKey, PoolInv, Known
  <2>2. Queued' = Queued \cup {s} \/ Queued' = Queued  BY <1>5, AddKeyInv
  <2>3. \A t \in InitialSlots : t \in Lost' <=> t \in Lost
    BY <2>1, <2>2 DEF Lost
  <2> QED  BY <2>3 DEF Lost
<1>6. ASSUME NEW r \in Requests, Drop(r)
      PROVE  Lost' = Lost \/ (r \in Holders /\ Lost' \subseteq Lost \cup {held[r]})
  <2>1. /\ held'[r] = NoSlot /\ \A q \in Requests \ {r} : held'[q] = held[q]
        /\ Queued' = Queued
    BY <1>1, <1>6 DEF Drop, Queued
  <2>2. CASE r \in Holders  BY <2>1, <2>2 DEF Lost
  <2>3. CASE r \notin Holders
    <3>1. held' = held  BY <1>1, <1>6, <2>3 DEF Drop, Holders
    <3> QED  BY <2>1, <3>1 DEF Lost
  <2> QED  BY <2>2, <2>3
<1>7. CASE UNCHANGED poolVars  BY <1>7 DEF poolVars, Lost, Queued
<1> QED  BY <1>2, <1>3, <1>4, <1>5, <1>6, <1>7 DEF Next, Holders

(* Whoever was dropped upstream stays so.                                  *)
LEMMA DroppedStep ==
  ASSUME ProxyInv, [ProxyNext]_vars
  PROVE  DroppedUpstream \subseteq DroppedUpstream'
<1> SUFFICES ASSUME NEW q \in Requests, phase[q] = "gone", sends[q] > 0
             PROVE  phase'[q] = "gone" /\ sends'[q] > 0
  BY DEF DroppedUpstream
<1>1. phase \in [Requests -> Phases] /\ sends \in [Requests -> 0 .. 3]
  BY DEF ProxyInv, ProxyTypeOK
<1>2. q \notin releasing  BY DEF ProxyInv, Hands, Returning
<1> USE DEF Goto, Returning
<1>3. CASE Tick \/ UNCHANGED vars  BY <1>3 DEF Tick, vars
<1>4. ASSUME NEW r \in Requests, Reject(r) \/ Enter(r)
      PROVE phase'[q] = "gone" /\ sends'[q] > 0
  BY <1>1, <1>4 DEF Reject, Enter
<1>5. ASSUME NEW r \in Requests, Proceed(r)
      PROVE phase'[q] = "gone" /\ sends'[q] > 0
  BY <1>1, <1>5
     DEF Proceed, TakeSlot, RefuseSize, Refuse, Admit, Backoff, Retry, GiveUp,
         Answer, BodyLost, BodyRead, GiveBack, AwaitRoom, Log
<1>6. ASSUME NEW r \in Requests, NEW out \in Outputs, StreamEnds(r, out)
      PROVE phase'[q] = "gone" /\ sends'[q] > 0
  BY <1>1, <1>6 DEF StreamEnds
<1>7. ASSUME NEW r \in Requests, Disconnect(r)
      PROVE phase'[q] = "gone" /\ sends'[q] > 0
  BY <1>1, <1>2, <1>7 DEF Disconnect, Droppable
<1>8. ASSUME NEW s \in Slots, Import(s)
      PROVE phase'[q] = "gone" /\ sends'[q] > 0
  BY <1>8 DEF Import
<1> QED  BY <1>3, <1>4, <1>5, <1>6, <1>7, <1>8 DEF ProxyNext

(* A step that drops a slot in the pool is a disconnect of its holder.     *)
LEMMA DropIsDisconnect ==
  ASSUME ProxyInv, [ProxyNext]_vars, NEW r \in Holders, Drop(r)
  PROVE  phase'[r] = "gone" /\ (r \in releasing \/ phase[r] \in Working) /\ sends' = sends
<1>1. /\ held \in [Requests -> Slots \cup {NoSlot}] /\ held[r] # NoSlot
      /\ held' = [held EXCEPT ![r] = NoSlot] /\ queue' = queue /\ r \in Requests
  BY DEF ProxyInv, PoolInv, PoolTypeOK, Drop, Holders
<1>2. held' # held /\ ~ UNCHANGED poolVars  BY <1>1 DEF poolVars
<1>3. ~ \E q \in Requests : Acquire(q) \/ Release(q)
  <2>1. queue \in Seq(Slots)  BY DEF ProxyInv, PoolInv, PoolTypeOK
  <2>2. ASSUME NEW q \in Requests, Acquire(q) PROVE FALSE
    BY <1>1, <2>2, AcquireInv, LenProperties, <2>1 DEF ProxyInv
  <2>3. ASSUME NEW q \in Requests, Release(q) PROVE FALSE
    BY <1>1, <2>3, ReleaseInv, LenProperties, <2>1 DEF ProxyInv
  <2> QED  BY <2>2, <2>3
<1>4. ~ \E q \in Requests : Request(q) \/ Suspend(q)
  BY <1>2 DEF Request, Suspend
<1>5. ~ \E s \in Slots : AddKey(s)  BY <1>2 DEF AddKey
<1>6. \E q \in Requests : Disconnect(q)
  <2>1. ~ Tick /\ ~ UNCHANGED vars  BY <1>2 DEF Tick, vars, poolVars
  <2>2. \A q \in Requests : ~ Reject(q) /\ ~ Enter(q)
    BY <1>2, <1>4 DEF Reject, Enter
  <2>3. \A q \in Requests : ~ Proceed(q)
    BY <1>2, <1>3, <1>4
       DEF Proceed, TakeSlot, RefuseSize, Refuse, Admit, Backoff, Retry, GiveUp,
           Answer, BodyLost, BodyRead, GiveBack, AwaitRoom, Log
  <2>4. \A q \in Requests, out \in Outputs : ~ StreamEnds(q, out)
    BY <1>2 DEF StreamEnds
  <2>5. \A s \in Slots : ~ Import(s)  BY <1>5 DEF Import
  <2> QED  BY <2>1, <2>2, <2>3, <2>4, <2>5 DEF ProxyNext
<1>7. PICK q \in Requests : Disconnect(q)  BY <1>6
<1>8. q = r /\ phase[q] # "logging"
  <2>1. phase[q] # "logging"  BY <1>2, <1>7 DEF Disconnect
  <2>2. held' = [held EXCEPT ![q] = NoSlot]  BY <1>7, <2>1 DEF Disconnect, Drop
  <2> QED  BY <1>1, <2>1, <2>2
<1>9. phase[r] \in Holding /\ phase \in [Requests -> Phases]
  BY <1>1 DEF ProxyInv, ProxyTypeOK, Hands
<1> QED
  BY <1>1, <1>7, <1>8, <1>9 DEF Disconnect, Droppable, Goto, Holding, Working, Returning

LEMMA LossStep ==
  ProxyInv /\ RoomInv /\ LossInv /\ [ProxyNext]_vars => LossInv'
<1> SUFFICES ASSUME ProxyInv, RoomInv, LossInv, [ProxyNext]_vars,
                    offered' = InitialSlots
             PROVE  releasing' = {} /\ Cardinality(Lost') <= Cardinality(DroppedUpstream')
  BY DEF LossInv
<1>1. PoolInv /\ [Next]_poolVars  BY PoolSteps DEF ProxyInv
<1>2. offered = InitialSlots
  <2>1. InitialSlots \subseteq offered /\ offered \subseteq offered'
    BY <1>1 DEF PoolInv, Known, Next, poolVars, Request, Acquire, Suspend, Release, Drop, AddKey
  <2> QED  BY <2>1
<1>3. releasing = {} /\ Cardinality(Lost) <= Cardinality(DroppedUpstream)
  BY <1>2 DEF LossInv
<1>4. releasing' = {}
  <2>1. \A r \in Requests : ~ Suspend(r)
    <3> SUFFICES ASSUME NEW r \in Requests, Suspend(r) PROVE FALSE
      OBVIOUS
    <3>1. r \in Holders /\ Len(queue) = Capacity  BY DEF Suspend, Holders
    <3>2. Cardinality(Holders) \in Nat /\ Cardinality(Holders) # 0
      BY <3>1, HoldersFinite, FS_EmptySet
    <3>3. /\ Len(queue) \in Nat /\ Len(InitialQueue) \in Nat /\ ConfiguredCapacity \in Nat
      BY <1>1, PoolAssumption, LenProperties DEF PoolInv, PoolTypeOK, PoolParameters
    <3> QED  BY <1>2, <3>1, <3>2, <3>3 DEF RoomInv, Capacity
  <2> QED
    BY <1>1, <1>3, <2>1 DEF Next, poolVars, Request, Acquire, Release, Drop, AddKey
<1>5. /\ IsFiniteSet(Lost) /\ IsFiniteSet(DroppedUpstream) /\ IsFiniteSet(DroppedUpstream')
      /\ Cardinality(Lost) \in Nat /\ Cardinality(DroppedUpstream) \in Nat
      /\ Cardinality(Lost') \in Nat /\ Cardinality(DroppedUpstream') \in Nat
  <2>1. IsFiniteSet(Lost') /\ IsFiniteSet(DroppedUpstream')
    BY PoolAssumption, FiniteLosses, FS_Subset DEF PoolParameters, Lost, DroppedUpstream
  <2> QED  BY <2>1, FiniteLosses, FS_CardinalityType
<1>6. DroppedUpstream \subseteq DroppedUpstream'  BY DroppedStep
<1>7. CASE Lost' = Lost
  <2>1. Cardinality(DroppedUpstream) <= Cardinality(DroppedUpstream')
    BY <1>5, <1>6, FS_Subset
  <2> QED  BY <1>3, <1>4, <1>5, <1>7, <2>1
<1>8. ASSUME NEW r \in Holders, Drop(r), Lost' \subseteq Lost \cup {held[r]}
      PROVE  Cardinality(Lost') <= Cardinality(DroppedUpstream')
  <2>1. phase'[r] = "gone" /\ phase[r] \in Working /\ sends' = sends /\ r \in Requests
    BY <1>3, <1>8, DropIsDisconnect DEF Holders
  <2>2. sends[r] > 0  BY <2>1 DEF ProxyInv, Sent
  <2>3. r \in DroppedUpstream' /\ r \notin DroppedUpstream
    BY <2>1, <2>2 DEF DroppedUpstream, Working
  <2>4. Cardinality(DroppedUpstream \cup {r}) = Cardinality(DroppedUpstream) + 1
        /\ IsFiniteSet(DroppedUpstream \cup {r})
    BY <1>5, <2>3, FS_AddElement
  <2>5. Cardinality(DroppedUpstream') >= Cardinality(DroppedUpstream) + 1
    BY <1>5, <1>6, <2>3, <2>4, FS_Subset
  <2>6. IsFiniteSet(Lost \cup {held[r]})
        /\ Cardinality(Lost \cup {held[r]}) <= Cardinality(Lost) + 1
    <3> DEFINE h == held[r]
    <3>1. Cardinality(Lost \cup {h}) = IF h \in Lost THEN Cardinality(Lost)
                                                   ELSE Cardinality(Lost) + 1
      BY <1>5, FS_AddElement
    <3>2. IsFiniteSet(Lost \cup {h})  BY <1>5, FS_AddElement
    <3> QED  BY <1>5, <3>1, <3>2
  <2>7. Cardinality(Lost') <= Cardinality(Lost \cup {held[r]})
    BY <1>8, <2>6, FS_Subset
  <2>8. Cardinality(Lost \cup {held[r]}) \in Nat  BY <2>6, FS_CardinalityType
  <2> QED  BY <1>3, <1>5, <2>5, <2>6, <2>7, <2>8
<1>9. \/ Lost' = Lost
      \/ \E r \in Holders : Drop(r) /\ Lost' \subseteq Lost \cup {held[r]}
  BY <1>1, LostStep
<1> QED  BY <1>4, <1>7, <1>8, <1>9

(* Every way out of the handlers gives the slot back, and a pool without   *)
(* imports loses one only with a request dropped after it was sent.        *)
THEOREM SlotsReturn == ProxySpec => []SlotsAccountedFor
<1>1. ProxyInit => LossInv
  <2> SUFFICES ASSUME ProxyInit PROVE LossInv  OBVIOUS
  <2>1. releasing = {} /\ Queued = InitialSlots
    BY DEF ProxyInit, Init, Queued, InitialSlots
  <2>2. Lost = {}  BY <2>1 DEF Lost
  <2> QED  BY <2>1, <2>2, FS_EmptySet, FiniteLosses DEF LossInv
<1>2. ProxyInit => RoomInv  BY RoomInit DEF ProxyInit
<1>3. ProxyInv /\ RoomInv /\ [ProxyNext]_vars => RoomInv'
  BY PoolSteps, RoomStep DEF ProxyInv
<1>4. ProxyInv /\ LossInv => SlotsAccountedFor
  BY DEF ProxyInv, LossInv, Hands, Holding, Working, Returning, SlotsAccountedFor
<1> QED
  BY <1>1, <1>2, <1>3, <1>4, LossStep, ProxyInvariant, PTL DEF ProxySpec

-----------------------------------------------------------------------------
(* A slot in use is among the watched slots by its own phase and key only. *)
LEMMA WatchedSlot ==
  ASSUME ProxyInv, NEW P, P \subseteq Holding, NEW r \in Requests, phase[r] \in Holding
  PROVE  /\ using[r] \in Slots
         /\ using[r] \in WatchedSlots(P) <=> phase[r] \in P /\ KeyOf[using[r]] = Watched
<1>1. \A q \in Requests : /\ using[q] = held[q] /\ (phase[q] \in Holding => q \in Holders)
                          /\ held[q] \in Slots \cup {NoSlot}
  BY DEF ProxyInv, Hands, Holders, PoolInv, PoolTypeOK
<1>2. \A p, q \in Holders : held[p] = held[q] => p = q
  BY DEF ProxyInv, PoolInv, SlotsExclusive
<1>3. \A q \in Requests : phase[q] \in Holding /\ using[q] = using[r] => q = r
  BY <1>1, <1>2
<1>4. using[r] \in Slots  BY <1>1 DEF Holders
<1> QED  BY <1>3, <1>4 DEF WatchedSlots

(* What a step of one request makes of the watched slots.                  *)
LEMMA WatchedStep ==
  ASSUME ProxyInv, NEW P, P \subseteq Holding, NEW r \in Requests,
         \A q \in Requests \ {r} : phase'[q] = phase[q] /\ using'[q] = using[q],
         phase[r] \in Holding => using'[r] = using[r] \/ phase'[r] \notin Holding
  PROVE  /\ phase[r] \in P <=> phase'[r] \in P => WatchedSlots(P)' = WatchedSlots(P)
         /\ phase[r] \in Holding /\ KeyOf[using[r]] # Watched => WatchedSlots(P)' = WatchedSlots(P)
         /\ phase[r] \in Holding \ P /\ phase'[r] \in P /\ KeyOf[using[r]] = Watched
              => WatchedSlots(P)' = WatchedSlots(P) \cup {using[r]}
         /\ phase[r] \in P /\ phase'[r] \notin P /\ KeyOf[using[r]] = Watched
              => WatchedSlots(P)' = WatchedSlots(P) \ {using[r]}
<1> USE DEF WatchedSlots
<1>1. CASE phase[r] \in P /\ phase'[r] \in P
  <2>1. using'[r] = using[r]  BY <1>1
  <2> QED  BY <1>1, <2>1
<1>2. CASE phase[r] \notin P /\ phase'[r] \notin P  BY <1>2
<1>3. CASE phase[r] \in Holding /\ KeyOf[using[r]] # Watched
  BY <1>3
<1>4. CASE phase[r] \in Holding \ P /\ phase'[r] \in P /\ KeyOf[using[r]] = Watched
  <2>1. using'[r] = using[r]  BY <1>4
  <2> QED  BY <1>4, <2>1
<1>5. CASE phase[r] \in P /\ phase'[r] \notin P /\ KeyOf[using[r]] = Watched
  <2>1. \A q \in Requests \ {r} : phase[q] \in P => using[q] # using[r]
    BY <1>5 DEF ProxyInv, Hands, Holders, PoolInv, SlotsExclusive
  <2> QED  BY <1>5, <2>1
<1> QED  BY <1>1, <1>2, <1>3, <1>4, <1>5

(* ApiKey computes with the operators that the pool computes with.         *)
LEMMA SameOperators ==
  ASSUME NEW k, NEW n, NEW d
  PROVE  /\ OneKey!MayUse(k, n, d) = MayUse(k, n, d)
         /\ OneKey!TryUse(k, n, d) = TryUse(k, n, d)
         /\ OneKey!SetCooldown(k, n, d) = SetCooldown(k, n, d)
         /\ OneKey!RecordUsage(k, n) = RecordUsage(k, n)
         /\ OneKey!NewKey(n, d, k) = NewKey(n, d, k)
<1>1. OneKey!MayUse(k, n, d) = MayUse(k, n, d)
  BY DEF MayUse, OneKey!MayUse, Verdict, OneKey!Verdict, Expired,
         OneKey!Expired, CoolingDown, OneKey!CoolingDown, LimitHit,
         OneKey!LimitHit, Reached, OneKey!Reached, Rolled, OneKey!Rolled,
         DayRolled, OneKey!DayRolled, MinuteRolled, OneKey!MinuteRolled,
         SecondRolled, OneKey!SecondRolled, NoBan, OneKey!NoBan
<1>2. OneKey!TryUse(k, n, d) = TryUse(k, n, d)
  BY DEF MayUse, OneKey!MayUse, Verdict, OneKey!Verdict, Expired,
         OneKey!Expired, CoolingDown, OneKey!CoolingDown, LimitHit,
         OneKey!LimitHit, Reached, OneKey!Reached, Rolled, OneKey!Rolled,
         DayRolled, OneKey!DayRolled, MinuteRolled, OneKey!MinuteRolled,
         SecondRolled, OneKey!SecondRolled, NoBan, OneKey!NoBan, TryUse,
         OneKey!TryUse, Admitted, OneKey!Admitted, Refused, OneKey!Refused,
         LimitCooldown, OneKey!LimitCooldown, SetCooldown,
         OneKey!SetCooldown
<1>3. OneKey!SetCooldown(k, n, d) = SetCooldown(k, n, d)
  BY DEF SetCooldown, OneKey!SetCooldown
<1>4. OneKey!RecordUsage(k, n) = RecordUsage(k, n)
  BY DEF RecordUsage, OneKey!RecordUsage, SaturatingAdd,
OneKey!SaturatingAdd
<1>5. OneKey!NewKey(n, d, k) = NewKey(n, d, k)
  BY DEF NewKey, OneKey!NewKey, NoBan, OneKey!NoBan
<1> QED  BY <1>1, <1>2, <1>3, <1>4, <1>5

(* The steps that ApiKey does not see.                                     *)
LEMMA Unseen ==
  ASSUME ProxyInv, NEW r \in Requests,
         \/ Reject(r) \/ Enter(r) \/ TakeSlot(r) \/ RefuseSize(r) \/ Backoff(r)
         \/ Retry(r) \/ AwaitRoom(r) \/ Log(r)
         \/ GiveBack(r) /\ phase[r] # "executing"
         \/ Disconnect(r) /\ phase[r] \notin Working \cup {"executing"}
  PROVE  UNCHANGED OneKey!vars
<1> DEFINE P == {"sending", "backoff", "reading", "streaming", "executing"}
           Q == {"reading", "streaming"}
<1>1. /\ phase \in [Requests -> Phases] /\ using \in [Requests -> Slots \cup {NoSlot}]
      /\ phase[r] \in Holding <=> held[r] # NoSlot
  BY DEF ProxyInv, ProxyTypeOK, Hands
<1>2. /\ \A q \in Requests \ {r} : phase'[q] = phase[q] /\ using'[q] = using[q]
      /\ UNCHANGED <<now, day, keys>>
      /\ phase[r] \in P <=> phase'[r] \in P
      /\ phase[r] \in Q <=> phase'[r] \in Q
      /\ phase[r] \in Holding => using'[r] = using[r] \/ phase'[r] \notin Holding
  BY <1>1 DEF Reject, Enter, TakeSlot, RefuseSize, Backoff, Retry, AwaitRoom, Log,
              GiveBack, Disconnect, Droppable, Goto, clocks, Working, Returning, Holding
<1>3. P \subseteq Holding /\ Q \subseteq Holding  BY DEF Holding, Working, Returning
<1> HIDE DEF P, Q
<1>4. WatchedSlots(P)' = WatchedSlots(P)  BY <1>2, <1>3, WatchedStep
<1>5. WatchedSlots(Q)' = WatchedSlots(Q)  BY <1>2, <1>3, WatchedStep
<1> QED  BY <1>2, <1>4, <1>5 DEF OneKey!vars, Inflight, Responded, P, Q

(* Those of requests on another key.                                       *)
LEMMA OtherKey ==
  ASSUME ProxyInv, NEW r \in Requests, phase[r] \in Holding, KeyOf[using[r]] # Watched, NEW out,
         \/ Refuse(r) \/ Admit(r) \/ GiveUp(r) \/ Answer(r) \/ BodyLost(r)
         \/ BodyRead(r, out) \/ StreamEnds(r, out) \/ GiveBack(r) \/ Disconnect(r)
  PROVE  UNCHANGED OneKey!vars
<1> DEFINE P == {"sending", "backoff", "reading", "streaming", "executing"}
           Q == {"reading", "streaming"}
<1>1. /\ phase \in [Requests -> Phases] /\ using \in [Requests -> Slots \cup {NoSlot}]
      /\ keys \in [Keys -> KeyState] /\ Watched \in Keys
  BY WatchedAssumption DEF ProxyInv, ProxyTypeOK
<1>2. /\ \A q \in Requests \ {r} : phase'[q] = phase[q] /\ using'[q] = using[q]
      /\ UNCHANGED <<now, day>>
      /\ phase[r] \in Holding => using'[r] = using[r] \/ phase'[r] \notin Holding
  BY <1>1 DEF Refuse, Admit, GiveUp, Answer, BodyLost, BodyRead, StreamEnds, GiveBack,
              Disconnect, Goto, clocks, Working, Returning, Holding
<1>3. keys'[Watched] = keys[Watched]
  BY <1>1 DEF Refuse, Admit, GiveUp, Answer, BodyLost, BodyRead, StreamEnds, GiveBack,
              Disconnect, Charge, SetKey
<1>4. P \subseteq Holding /\ Q \subseteq Holding  BY DEF Holding, Working, Returning
<1> HIDE DEF P, Q
<1>5. WatchedSlots(P)' = WatchedSlots(P)  BY <1>2, <1>4, WatchedStep
<1>6. WatchedSlots(Q)' = WatchedSlots(Q)  BY <1>2, <1>4, WatchedStep
<1> QED  BY <1>2, <1>3, <1>5, <1>6 DEF OneKey!vars, Inflight, Responded, P, Q

(* Those of requests on the watched key, which ApiKey has as its own.      *)
LEMMA SameKey ==
  ASSUME ProxyInv, NEW r \in Requests, phase[r] \in Holding, KeyOf[using[r]] = Watched, NEW out,
         \/ Refuse(r) \/ Admit(r) \/ GiveUp(r) \/ Answer(r) \/ BodyLost(r)
         \/ out \in Outputs /\ (BodyRead(r, out) \/ StreamEnds(r, out))
         \/ GiveBack(r) /\ phase[r] = "executing"
         \/ Disconnect(r) /\ phase[r] \in Working \cup {"executing"}
  PROVE  OneKey!Next
<1> DEFINE P == {"sending", "backoff", "reading", "streaming", "executing"}
           Q == {"reading", "streaming"}
           s == using[r]
           OneSlots == {t \in Slots : KeyOf[t] = Watched}
<1>1. /\ phase \in [Requests -> Phases] /\ using \in [Requests -> Slots \cup {NoSlot}]
      /\ keys \in [Keys -> KeyState] /\ Watched \in Keys
  BY WatchedAssumption DEF ProxyInv, ProxyTypeOK
<1>2. /\ \A q \in Requests \ {r} : phase'[q] = phase[q] /\ using'[q] = using[q]
      /\ UNCHANGED <<now, day>>
      /\ phase[r] \in Holding => using'[r] = using[r] \/ phase'[r] \notin Holding
  BY <1>1 DEF Refuse, Admit, GiveUp, Answer, BodyLost, BodyRead, StreamEnds, GiveBack,
              Disconnect, Goto, clocks, Working, Returning, Holding
<1>3. P \subseteq Holding /\ Q \subseteq Holding  BY DEF Holding, Working, Returning
<1>4. /\ Inflight = WatchedSlots(P) /\ Inflight' = WatchedSlots(P)'
      /\ Responded = WatchedSlots(Q) /\ Responded' = WatchedSlots(Q)'
  BY DEF Inflight, Responded
<1> HIDE DEF P, Q
<1>5. /\ s \in OneSlots /\ (s \in Inflight <=> phase[r] \in P)
      /\ (s \in Responded <=> phase[r] \in Q)
  BY <1>3, <1>4, WatchedSlot
<1>6. /\ (phase[r] \in P <=> phase'[r] \in P) => Inflight' = Inflight
      /\ phase[r] \notin P /\ phase'[r] \in P => Inflight' = Inflight \cup {s}
      /\ phase[r] \in P /\ phase'[r] \notin P => Inflight' = Inflight \ {s}
  BY <1>2, <1>3, <1>4, WatchedStep
<1>7. /\ (phase[r] \in Q <=> phase'[r] \in Q) => Responded' = Responded
      /\ phase[r] \notin Q /\ phase'[r] \in Q => Responded' = Responded \cup {s}
      /\ phase[r] \in Q /\ phase'[r] \notin Q => Responded' = Responded \ {s}
  BY <1>2, <1>3, <1>4, WatchedStep
<1>8. KeyInUse(r) = keys[Watched]
  BY DEF KeyInUse
<1>9. /\ Refuse(r) \/ Admit(r) => keys'[Watched] = OneKey!TryUse(keys[Watched], now, day)
      /\ GiveUp(r) => keys'[Watched] = OneKey!SetCooldown(keys[Watched], now, TenSeconds)
      /\ Answer(r) =>
           \/ keys'[Watched] = keys[Watched]
           \/ keys'[Watched] = OneKey!SetCooldown(keys[Watched], now, MinuteLen)
           \/ keys'[Watched] = OneKey!SetCooldown(keys[Watched], now, TenSeconds)
      /\ BodyLost(r) => keys'[Watched] = OneKey!RecordUsage(keys[Watched], 0)
      /\ BodyRead(r, out) \/ StreamEnds(r, out) =>
           keys'[Watched] = OneKey!RecordUsage(keys[Watched], ResponseTokens(out, input[r]))
      /\ OneKey!MayUse(keys[Watched], now, day) = MayUse(keys[Watched], now, day)
  BY <1>1, <1>8, SameOperators
     DEF SetKey, Refuse, Admit, GiveUp, Answer, BodyLost, BodyRead, StreamEnds, Charge
<1> HIDE DEF s, OneSlots
<1> USE DEF P, Q, Goto
<1>10. CASE Refuse(r)
  <2>1. OneKey!Refuse(s)
    BY <1>1, <1>2, <1>5, <1>6, <1>7, <1>8, <1>9, <1>10 DEF Refuse, OneKey!Refuse
  <2> QED  BY <1>5, <2>1 DEF OneKey!Next, OneSlots
<1>11. CASE Admit(r)
  <2>1. OneKey!Admit(s)
    BY <1>1, <1>2, <1>5, <1>6, <1>7, <1>8, <1>9, <1>11 DEF Admit, OneKey!Admit
  <2> QED  BY <1>5, <2>1 DEF OneKey!Next, OneSlots
<1>12. CASE GiveUp(r)
  <2>1. OneKey!Fail(s)
    BY <1>1, <1>2, <1>5, <1>6, <1>7, <1>8, <1>9, <1>12 DEF GiveUp, OneKey!Fail, OneKey!Ended
  <2> QED  BY <1>5, <2>1 DEF OneKey!Next, OneSlots
<1>13. CASE Answer(r)
  <2>1. OneKey!Answer(s)
    BY <1>1, <1>2, <1>5, <1>6, <1>7, <1>8, <1>9, <1>13 DEF Answer, OneKey!Answer
  <2> QED  BY <1>5, <2>1 DEF OneKey!Next, OneSlots
<1>14. CASE BodyLost(r)
  <2>1. OneKey!Record(s, 0)
    BY <1>1, <1>2, <1>5, <1>6, <1>7, <1>8, <1>9, <1>14
       DEF BodyLost, Charge, OneKey!Record, OneKey!Ended
  <2>2. 0 \in 0 .. MaxTokens  BY ProxyAssumption
  <2> QED  BY <1>5, <2>1, <2>2 DEF OneKey!Next, OneSlots
<1>15. CASE out \in Outputs /\ (BodyRead(r, out) \/ StreamEnds(r, out))
  <2> DEFINE n == ResponseTokens(out, input[r])
  <2>1. n \in 0 .. MaxTokens
    BY <1>15, AnswerCharge DEF BodyRead, StreamEnds, ProxyInv, ProxyTypeOK, Sent, Working
  <2>2. OneKey!Record(s, n)
    BY <1>1, <1>2, <1>5, <1>6, <1>7, <1>8, <1>9, <1>15
       DEF BodyRead, StreamEnds, Charge, OneKey!Record, OneKey!Ended
  <2> QED  BY <1>5, <2>1, <2>2 DEF OneKey!Next, OneSlots
<1>16. CASE GiveBack(r) /\ phase[r] = "executing"
  <2>1. OneKey!Abandon(s)
    BY <1>1, <1>2, <1>5, <1>6, <1>7, <1>16 DEF GiveBack, OneKey!Abandon, OneKey!Ended
  <2> QED  BY <1>5, <2>1 DEF OneKey!Next, OneSlots
<1>17. CASE Disconnect(r) /\ phase[r] \in Working \cup {"executing"}
  <2>1. OneKey!Abandon(s)
    BY <1>1, <1>2, <1>5, <1>6, <1>7, <1>17
       DEF Disconnect, Working, OneKey!Abandon, OneKey!Ended
  <2> QED  BY <1>5, <2>1 DEF OneKey!Next, OneSlots
<1> QED  BY <1>10, <1>11, <1>12, <1>13, <1>14, <1>15, <1>16, <1>17

LEMMA OneKeyStep == ProxyInv /\ [ProxyNext]_vars => [OneKey!Next]_(OneKey!vars)
<1> SUFFICES ASSUME ProxyInv, [ProxyNext]_vars
             PROVE  OneKey!Next \/ UNCHANGED OneKey!vars
  OBVIOUS
<1>1. CASE Tick
  <2>1. Inflight' = Inflight /\ Responded' = Responded
    BY <1>1 DEF Tick, Inflight, Responded, WatchedSlots
  <2>2. OneKey!Tick  BY <1>1, <2>1 DEF Tick, OneKey!Tick
  <2> QED  BY <2>2 DEF OneKey!Next
<1>2. CASE UNCHANGED vars
  <2>1. Inflight' = Inflight /\ Responded' = Responded
    BY <1>2 DEF vars, Inflight, Responded, WatchedSlots
  <2> QED  BY <1>2, <2>1 DEF vars, OneKey!vars
<1>3. ASSUME NEW s \in Slots, Import(s) PROVE UNCHANGED OneKey!vars
  <2>1. Inflight' = Inflight /\ Responded' = Responded
    BY <1>3 DEF Import, Inflight, Responded, WatchedSlots
  <2>2. \E t \in offered : KeyOf[t] = Watched
    BY WatchedAssumption DEF ProxyInv, PoolInv, Known
  <2>3. keys'[Watched] = keys[Watched]
    BY <1>3, <2>2, WatchedAssumption, ProxyAssumption DEF Import, ProxyInv, ProxyTypeOK
  <2> QED  BY <1>3, <2>1, <2>3 DEF Import, clocks, OneKey!vars
<1>4. ASSUME NEW r \in Requests, NEW out,
             \/ Refuse(r) \/ Admit(r) \/ GiveUp(r) \/ Answer(r) \/ BodyLost(r)
             \/ out \in Outputs /\ (BodyRead(r, out) \/ StreamEnds(r, out))
             \/ GiveBack(r) /\ phase[r] = "executing"
             \/ Disconnect(r) /\ phase[r] \in Working \cup {"executing"}
      PROVE  OneKey!Next \/ UNCHANGED OneKey!vars
  <2>1. phase[r] \in Holding
    BY <1>4 DEF Refuse, Admit, GiveUp, Answer, BodyLost, BodyRead, StreamEnds,
                Holding, Working, Returning
  <2> QED  BY <1>4, <2>1, OtherKey, SameKey
<1>5. ASSUME NEW r \in Requests, Proceed(r) PROVE OneKey!Next \/ UNCHANGED OneKey!vars
  <2>1. CASE GiveBack(r)  BY <2>1, <1>4, Unseen
  <2>2. CASE \E out \in Outputs : BodyRead(r, out)  BY <2>2, <1>4
  <2>3. CASE Refuse(r) \/ Admit(r) \/ GiveUp(r) \/ Answer(r) \/ BodyLost(r)  BY <2>3, <1>4
  <2> QED  BY <1>5, <2>1, <2>2, <2>3, Unseen DEF Proceed
<1>6. ASSUME NEW r \in Requests, Disconnect(r) PROVE OneKey!Next \/ UNCHANGED OneKey!vars
  BY <1>6, <1>4, Unseen
<1> QED  BY <1>1, <1>2, <1>3, <1>4, <1>5, <1>6, Unseen DEF ProxyNext

(* Each key of the pool behaves as ApiKey says, so that what ApiKeyProofs  *)
(* shows of its counters holds of the keys of a working pool.              *)
THEOREM KeyRefinement == ProxySpec => ImplementsApiKey
<1>1. ProxyInit => OneKey!Init
  <2> SUFFICES ASSUME ProxyInit PROVE OneKey!Init  OBVIOUS
  <2>1. Inflight = {} /\ Responded = {}
    BY DEF ProxyInit, Inflight, Responded, WatchedSlots
  <2>2. keys[Watched] = OneKey!NewKey(now, day, CooldownOnLimit[Watched])
        /\ CooldownOnLimit[Watched] \in BOOLEAN
    BY WatchedAssumption, ProxyAssumption, SameOperators DEF ProxyInit
  <2> QED  BY <2>1, <2>2 DEF ProxyInit, OneKey!Init
<1> QED
  BY <1>1, OneKeyStep, ProxyInvariant, PTL DEF ProxySpec, ImplementsApiKey
=============================================================================
