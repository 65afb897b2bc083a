---------------------------- MODULE KeyPoolProofs ----------------------------
(***************************************************************************)
(* What holds of a key pool with any number of slots, requests and         *)
(* imports: its types, that no slot is in two places, that a release never *)
(* blocks before an import, and that the pool implements the slot ledger.  *)
(***************************************************************************)
EXTENDS KeyPool, SequenceTheorems, FiniteSetTheorems, TLAPS

(* Every slot around was offered by add_key at some time. *)
Known ==
  /\ InitialSlots \subseteq offered
  /\ Queued \subseteq offered
  /\ \A r \in Holders : held[r] \in offered

PoolInv == PoolTypeOK /\ SlotsExclusive /\ Known

(* Sending to a channel adds the slot at its end and nothing else.         *)
LEMMA QueuedAppend ==
  ASSUME NEW q \in Seq(Slots), NEW s \in Slots
  PROVE  /\ Append(q, s) \in Seq(Slots)
         /\ Len(Append(q, s)) = Len(q) + 1
         /\ \A i \in 1 .. Len(q) : Append(q, s)[i] = q[i]
         /\ Append(q, s)[Len(q) + 1] = s
         /\ {Append(q, s)[i] : i \in 1 .. Len(Append(q, s))}
              = {q[i] : i \in 1 .. Len(q)} \cup {s}
<1>1. /\ Append(q, s) \in Seq(Slots)
      /\ Len(Append(q, s)) = Len(q) + 1
      /\ \A i \in 1 .. Len(q) : Append(q, s)[i] = q[i]
      /\ Append(q, s)[Len(q) + 1] = s
  BY AppendProperties
<1>2. Len(q) \in Nat  BY LenProperties
<1>3. 1 .. Len(Append(q, s)) = (1 .. Len(q)) \cup {Len(q) + 1}
  BY <1>1, <1>2
<1> QED  BY <1>1, <1>3

(* Taking the head of a channel without doubles leaves all the others.     *)
LEMMA QueuedTail ==
  ASSUME NEW q \in Seq(Slots), q # <<>>,
         \A i, j \in 1 .. Len(q) : q[i] = q[j] => i = j
  PROVE  /\ Tail(q) \in Seq(Slots)
         /\ Len(Tail(q)) = Len(q) - 1
         /\ \A i \in 1 .. Len(Tail(q)) : Tail(q)[i] = q[i + 1]
         /\ \A i, j \in 1 .. Len(Tail(q)) : Tail(q)[i] = Tail(q)[j] => i = j
         /\ Head(q) \in {q[i] : i \in 1 .. Len(q)}
         /\ {Tail(q)[i] : i \in 1 .. Len(Tail(q))}
              = {q[i] : i \in 1 .. Len(q)} \ {Head(q)}
<1>1. /\ Tail(q) \in Seq(Slots)
      /\ Len(Tail(q)) = Len(q) - 1
      /\ \A i \in 1 .. Len(Tail(q)) : Tail(q)[i] = q[i + 1]
      /\ Head(q) = q[1]
  BY HeadTailProperties
<1>2. Len(q) \in Nat /\ Len(q) # 0  BY LenProperties, EmptySeq
<1>3. \A i, j \in 1 .. Len(Tail(q)) : Tail(q)[i] = Tail(q)[j] => i = j
  BY <1>1, <1>2
<1>4. \A i \in 1 .. Len(Tail(q)) : Tail(q)[i] # q[1]
  BY <1>1, <1>2
<1>5. \A i \in 1 .. Len(q) :
        i # 1 => i - 1 \in 1 .. Len(Tail(q)) /\ Tail(q)[i - 1] = q[i]
  BY <1>1, <1>2
<1>6. {Tail(q)[i] : i \in 1 .. Len(Tail(q))} \subseteq {q[i] : i \in 1 .. Len(q)}
  BY <1>1, <1>2
<1>7. {q[i] : i \in 1 .. Len(q)} \ {q[1]} \subseteq {Tail(q)[i] : i \in 1 .. Len(Tail(q))}
  BY <1>5
<1>8. q[1] \notin {Tail(q)[i] : i \in 1 .. Len(Tail(q))}
  BY <1>4
<1>9. q[1] \in {q[i] : i \in 1 .. Len(q)}
  BY <1>2
<1>10. {Tail(q)[i] : i \in 1 .. Len(Tail(q))}
         = {q[i] : i \in 1 .. Len(q)} \ {q[1]}
  <2> DEFINE T == {Tail(q)[i] : i \in 1 .. Len(Tail(q))}
  <2> DEFINE Q == {q[i] : i \in 1 .. Len(q)}
  <2>1. T \subseteq Q /\ Q \ {q[1]} \subseteq T /\ q[1] \notin T
    BY <1>6, <1>7, <1>8
  <2> HIDE DEF T, Q
  <2>2. T = Q \ {q[1]}  BY <2>1
  <2> QED  BY <2>2 DEF T, Q
<1>11. Head(q) = q[1]  BY <1>1
<1>12. Head(q) \in {q[i] : i \in 1 .. Len(q)}  BY <1>9, <1>11
<1> QED  BY <1>1, <1>3, <1>10, <1>11, <1>12

(* The initial state has every configured slot in the channel.             *)
LEMMA PoolInit == Init => PoolInv
<1> SUFFICES ASSUME Init PROVE PoolInv
  OBVIOUS
<1> USE PoolAssumption DEF PoolParameters
<1>1. Holders = {}  BY DEF Init, Holders
<1>2. Queued = InitialSlots  BY DEF Init, Queued, InitialSlots
<1>3. InitialSlots \subseteq Slots
  BY ElementOfSeq DEF InitialSlots
<1>4. Len(InitialQueue) \in Nat  BY LenProperties
<1>5. Len(queue) <= Capacity  BY <1>4 DEF Init, Capacity
<1>6. PoolTypeOK  BY <1>1, <1>3, <1>5 DEF Init, PoolTypeOK
<1>7. SlotsExclusive  BY <1>1 DEF Init, SlotsExclusive
<1>8. Known  BY <1>1, <1>2 DEF Init, Known
<1> QED  BY <1>6, <1>7, <1>8 DEF PoolInv

(* Requests that come and go at the pool without taking a slot.            *)
LEMMA HoldersFact ==
  ASSUME NEW r \in Requests, NEW h \in [Requests -> Slots \cup {NoSlot}],
         NEW s \in Slots \cup {NoSlot}
  PROVE  /\ [h EXCEPT ![r] = s] \in [Requests -> Slots \cup {NoSlot}]
         /\ [h EXCEPT ![r] = s][r] = s
         /\ \A q \in Requests \ {r} : [h EXCEPT ![r] = s][q] = h[q]
OBVIOUS

(* acquire: the head leaves the channel for the request's hands.           *)
LEMMA AcquireInv ==
  ASSUME PoolInv, NEW r \in Requests, Acquire(r)
  PROVE  /\ PoolInv'
         /\ Holders' = Holders \cup {r} /\ r \notin Holders
         /\ Len(queue') = Len(queue) - 1
         /\ Queued' = Queued \ {held'[r]} /\ held'[r] \in Queued
<1> USE PoolAssumption DEF PoolParameters
<1>1. PoolTypeOK /\ SlotsExclusive /\ Known  BY DEF PoolInv
<1>2. queue \in Seq(Slots) /\ queue # <<>>  BY <1>1 DEF Acquire, PoolTypeOK
<1>3. \A i, j \in 1 .. Len(queue) : queue[i] = queue[j] => i = j
  BY <1>1 DEF SlotsExclusive
<1>4. /\ queue' \in Seq(Slots)
      /\ Len(queue') = Len(queue) - 1
      /\ \A i, j \in 1 .. Len(queue') : queue'[i] = queue'[j] => i = j
      /\ Head(queue) \in Queued
      /\ Queued' = Queued \ {Head(queue)}
  <2>1. queue' = Tail(queue)  BY DEF Acquire
  <2> DEFINE q == Tail(queue)
  <2>2. /\ q \in Seq(Slots)
        /\ Len(q) = Len(queue) - 1
        /\ \A i, j \in 1 .. Len(q) : q[i] = q[j] => i = j
    BY <1>2, <1>3, QueuedTail
  <2>3. /\ Head(queue) \in Queued
        /\ {q[i] : i \in 1 .. Len(q)} = Queued \ {Head(queue)}
    BY <1>2, <1>3, QueuedTail DEF Queued
  <2>4. Queued' = {q[i] : i \in 1 .. Len(q)}
    BY <2>1 DEF Queued
  <2> QED  BY <2>1, <2>2, <2>3, <2>4
<1>5. Queued \subseteq Slots  BY <1>2, ElementOfSeq DEF Queued
<1>6. /\ held' \in [Requests -> Slots \cup {NoSlot}]
      /\ held'[r] = Head(queue)
      /\ \A q \in Requests \ {r} : held'[q] = held[q]
  BY <1>1, <1>4, <1>5, HoldersFact DEF Acquire, PoolTypeOK
<1>7. r \notin Holders  BY <1>1 DEF Acquire, PoolTypeOK
<1>8. Holders' = Holders \cup {r}
  BY <1>4, <1>5, <1>6 DEF Holders
<1>9. PoolTypeOK'
  <2>1. Len(queue') <= Capacity
    BY <1>1, <1>2, <1>4, LenProperties DEF PoolTypeOK, Capacity
  <2> QED  BY <1>1, <1>4, <1>6, <1>8, <2>1 DEF PoolTypeOK, Acquire
<1>10. SlotsExclusive'
  <2>1. \A q \in Holders : held[q] # Head(queue)
    BY <1>1, <1>4 DEF SlotsExclusive
  <2>2. \A p, q \in Holders' : held'[p] = held'[q] => p = q
    BY <1>1, <1>6, <1>8, <2>1 DEF SlotsExclusive, Holders
  <2>3. \A q \in Holders' : held'[q] \notin Queued'
    BY <1>1, <1>4, <1>6, <1>8 DEF SlotsExclusive, Holders
  <2> QED  BY <1>4, <2>2, <2>3 DEF SlotsExclusive
<1>11. Known'
  BY <1>1, <1>4, <1>6, <1>8 DEF Known, Acquire, Holders
<1> QED  BY <1>4, <1>6, <1>7, <1>8, <1>9, <1>10, <1>11 DEF PoolInv

(* release: the slot goes to the end of the channel, which has room.       *)
LEMMA ReleaseInv ==
  ASSUME PoolInv, NEW r \in Requests, Release(r)
  PROVE  /\ PoolInv'
         /\ Holders' = Holders \ {r} /\ r \in Holders
         /\ Len(queue') = Len(queue) + 1
         /\ Queued' = Queued \cup {held[r]}
<1> USE PoolAssumption DEF PoolParameters
<1>1. PoolTypeOK /\ SlotsExclusive /\ Known  BY DEF PoolInv
<1>2. /\ r \in Holders /\ held[r] \in Slots /\ held[r] # NoSlot
      /\ queue \in Seq(Slots) /\ Len(queue) \in Nat
  BY <1>1, LenProperties DEF Release, PoolTypeOK, Holders
<1>3. /\ queue' \in Seq(Slots)
      /\ Len(queue') = Len(queue) + 1
      /\ \A i \in 1 .. Len(queue) : queue'[i] = queue[i]
      /\ queue'[Len(queue) + 1] = held[r]
      /\ Queued' = Queued \cup {held[r]}
  <2>1. queue' = Append(queue, held[r])  BY DEF Release
  <2> DEFINE q == Append(queue, held[r])
  <2>2. /\ q \in Seq(Slots)
        /\ Len(q) = Len(queue) + 1
        /\ \A i \in 1 .. Len(queue) : q[i] = queue[i]
        /\ q[Len(queue) + 1] = held[r]
    BY <1>2, QueuedAppend
  <2>3. {q[i] : i \in 1 .. Len(q)} = Queued \cup {held[r]}
    BY <1>2, QueuedAppend DEF Queued
  <2>4. Queued' = {q[i] : i \in 1 .. Len(q)}
    BY <2>1 DEF Queued
  <2> QED  BY <2>1, <2>2, <2>3, <2>4
<1>4. /\ held' \in [Requests -> Slots \cup {NoSlot}]
      /\ held'[r] = NoSlot
      /\ \A q \in Requests \ {r} : held'[q] = held[q]
  BY <1>1, HoldersFact DEF Release, PoolTypeOK
<1>5. Holders' = Holders \ {r}  BY <1>4 DEF Holders
<1>6. PoolTypeOK'
  <2>1. Len(queue') <= Capacity
    BY <1>2, <1>3 DEF Release, Capacity
  <2> QED  BY <1>1, <1>3, <1>4, <1>5, <2>1 DEF PoolTypeOK, Release
<1>7. SlotsExclusive'
  <2>1. \A i \in 1 .. Len(queue) : queue[i] # held[r]
    BY <1>1, <1>2 DEF SlotsExclusive, Queued
  <2>2. \A i, j \in 1 .. Len(queue) : queue[i] = queue[j] => i = j
    BY <1>1 DEF SlotsExclusive
  <2>3. \A i, j \in 1 .. Len(queue') : queue'[i] = queue'[j] => i = j
    BY <1>2, <1>3, <2>1, <2>2
  <2>4. \A p, q \in Holders' : held'[p] = held'[q] => p = q
    BY <1>1, <1>4, <1>5 DEF SlotsExclusive, Holders
  <2>5. \A q \in Holders' : held'[q] \notin Queued'
    BY <1>1, <1>2, <1>3, <1>4, <1>5 DEF SlotsExclusive, Holders
  <2> QED  BY <2>3, <2>4, <2>5 DEF SlotsExclusive
<1>8. Known'
  BY <1>1, <1>2, <1>3, <1>4, <1>5 DEF Known, Release, Holders
<1> QED  BY <1>2, <1>3, <1>5, <1>6, <1>7, <1>8 DEF PoolInv

(* import_key: a slot never offered before comes in, or is thrown away.    *)
LEMMA AddKeyInv ==
  ASSUME PoolInv, NEW s \in Slots, AddKey(s)
  PROVE  /\ PoolInv'
         /\ offered' # InitialSlots
         /\ s \notin Queued \cup {held[r] : r \in Requests}
         /\ Queued' = Queued \cup {s} \/ Queued' = Queued
<1> USE PoolAssumption DEF PoolParameters
<1>1. PoolTypeOK /\ SlotsExclusive /\ Known  BY DEF PoolInv
<1>2. /\ s \notin offered /\ s \in offered'
      /\ offered \subseteq offered' /\ offered' \in SUBSET Slots
      /\ held' = held /\ waiting' = waiting /\ releasing' = releasing
  BY <1>1 DEF AddKey, PoolTypeOK
<1>3. s \notin Queued /\ \A r \in Requests : held[r] # s
  BY <1>1, <1>2 DEF Known, Holders
<1>4. Holders' = Holders  BY <1>2 DEF Holders
<1>5. queue \in Seq(Slots) /\ Len(queue) \in Nat /\ Len(queue) <= Capacity
  BY <1>1, LenProperties DEF PoolTypeOK
<1>6. /\ PoolTypeOK' /\ SlotsExclusive' /\ Queued' \subseteq Queued \cup {s}
      /\ (Queued' = Queued \cup {s} \/ Queued' = Queued)
  <2>1. CASE Len(queue) < Capacity
    <3>1. /\ queue' \in Seq(Slots)
          /\ Len(queue') = Len(queue) + 1
          /\ \A i \in 1 .. Len(queue) : queue'[i] = queue[i]
          /\ queue'[Len(queue) + 1] = s
          /\ Queued' = Queued \cup {s}
      BY <1>5, <2>1, QueuedAppend DEF AddKey, Queued
    <3>2. Len(queue') <= Capacity  BY <1>5, <2>1, <3>1 DEF Capacity
    <3>3. PoolTypeOK'
      BY <1>1, <1>2, <1>4, <3>1, <3>2 DEF PoolTypeOK
    <3>4. \A i \in 1 .. Len(queue) : queue[i] # s
      BY <1>3 DEF Queued
    <3>5. \A i, j \in 1 .. Len(queue) : queue[i] = queue[j] => i = j
      BY <1>1 DEF SlotsExclusive
    <3>6. \A i, j \in 1 .. Len(queue') : queue'[i] = queue'[j] => i = j
      BY <1>5, <3>1, <3>4, <3>5
    <3>7. SlotsExclusive'
      BY <1>1, <1>2, <1>3, <1>4, <3>1, <3>6 DEF SlotsExclusive, Holders
    <3> QED  BY <3>1, <3>3, <3>7
  <2>2. CASE ~ (Len(queue) < Capacity)
    <3>1. queue' = queue  BY <2>2 DEF AddKey
    <3>2. Queued' = Queued  BY <3>1 DEF Queued
    <3> QED
      BY <1>1, <1>2, <1>4, <3>1, <3>2 DEF PoolTypeOK, SlotsExclusive
  <2> QED  BY <2>1, <2>2
<1>7. Known'  BY <1>1, <1>2, <1>4, <1>6 DEF Known
<1>8. offered' # InitialSlots  BY <1>1, <1>2 DEF Known
<1> QED  BY <1>3, <1>6, <1>7, <1>8 DEF PoolInv

(* The steps that move no slot, and the drop of a request, which loses one.*)
LEMMA OtherInv ==
  ASSUME PoolInv, NEW r \in Requests,
         Request(r) \/ Suspend(r) \/ Drop(r)
  PROVE  /\ PoolInv'
         /\ queue' = queue /\ Queued' = Queued /\ offered' = offered
         /\ \/ held' = held
            \/ r \in Holders /\ held' = [held EXCEPT ![r] = NoSlot]
<1> USE PoolAssumption DEF PoolParameters
<1>1. PoolTypeOK /\ SlotsExclusive /\ Known  BY DEF PoolInv
<1>2. queue' = queue /\ offered' = offered
  BY DEF Request, Suspend, Drop
<1>3. Queued' = Queued  BY <1>2 DEF Queued
<1>4. CASE Request(r) \/ Suspend(r)
  <2>1. held' = held  BY <1>4 DEF Request, Suspend
  <2>2. Holders' = Holders  BY <2>1 DEF Holders
  <2>3. PoolTypeOK'
    BY <1>1, <1>2, <1>4, <2>1, <2>2 DEF PoolTypeOK, Request, Suspend, Holders
  <2>4. SlotsExclusive' /\ Known'
    BY <1>1, <1>2, <1>3, <2>1, <2>2 DEF SlotsExclusive, Known
  <2> QED  BY <1>2, <1>3, <2>1, <2>3, <2>4 DEF PoolInv
<1>5. CASE Drop(r)
  <2>1. /\ held' = [held EXCEPT ![r] = NoSlot]
        /\ held' \in [Requests -> Slots \cup {NoSlot}]
        /\ held'[r] = NoSlot
        /\ \A q \in Requests \ {r} : held'[q] = held[q]
    BY <1>1, <1>5, HoldersFact DEF Drop, PoolTypeOK
  <2>2. Holders' = Holders \ {r}  BY <2>1 DEF Holders
  <2>3. held' = held \/ r \in Holders
    BY <1>1, <2>1 DEF Holders, PoolTypeOK
  <2>4. PoolTypeOK'
    BY <1>1, <1>2, <1>5, <2>1, <2>2 DEF PoolTypeOK, Drop
  <2>5. SlotsExclusive' /\ Known'
    BY <1>1, <1>2, <1>3, <2>1, <2>2 DEF SlotsExclusive, Known, Holders
  <2> QED  BY <1>2, <1>3, <2>1, <2>3, <2>4, <2>5 DEF PoolInv
<1> QED  BY <1>4, <1>5

(* A step keeps the invariant: the lemmas above, and stuttering.           *)
LEMMA PoolStep == PoolInv /\ [Next]_poolVars => PoolInv'
<1> SUFFICES ASSUME PoolInv, [Next]_poolVars PROVE PoolInv'
  OBVIOUS
<1>1. ASSUME NEW r \in Requests, Request(r) \/ Suspend(r) \/ Drop(r)
      PROVE PoolInv'
  BY <1>1, OtherInv
<1>2. ASSUME NEW r \in Requests, Acquire(r) PROVE PoolInv'
  BY <1>2, AcquireInv
<1>3. ASSUME NEW r \in Requests, Release(r) PROVE PoolInv'
  BY <1>3, ReleaseInv
<1>4. ASSUME NEW s \in Slots, AddKey(s) PROVE PoolInv'
  BY <1>4, AddKeyInv
<1>5. CASE UNCHANGED poolVars
  BY <1>5 DEF poolVars, PoolInv, PoolTypeOK, SlotsExclusive, Known, Queued, Holders
<1> QED  BY <1>1, <1>2, <1>3, <1>4, <1>5 DEF Next

LEMMA PoolInvariant == Spec => []PoolInv
<1> QED  BY PoolInit, PoolStep, PTL DEF Spec

(* The channel and the tasks around it keep their types.                   *)
THEOREM Typing == Spec => []TypeOK
<1>1. PoolInv => TypeOK  BY DEF PoolInv, TypeOK
<1> QED  BY <1>1, PoolInvariant, PTL

(* No clone of a key is in two places.                                     *)
THEOREM Exclusion == Spec => []SlotsExclusive
<1>1. PoolInv => SlotsExclusive  BY DEF PoolInv
<1> QED  BY <1>1, PoolInvariant, PTL

(* Until an import the slots around are at most those run_server added.    *)
RoomInv ==
  offered = InitialSlots =>
    Len(queue) + Cardinality(Holders) <= Len(InitialQueue)

LEMMA HoldersFinite == IsFiniteSet(Holders) /\ Cardinality(Holders) \in Nat
  BY PoolAssumption, FS_Subset, FS_CardinalityType DEF Holders, PoolParameters

LEMMA RoomInit == Init => RoomInv
<1> SUFFICES ASSUME Init PROVE RoomInv
  OBVIOUS
<1>1. Holders = {}  BY DEF Init, Holders
<1>2. Cardinality(Holders) = 0  BY <1>1, FS_EmptySet
<1>3. Len(InitialQueue) \in Nat  BY PoolAssumption, LenProperties DEF PoolParameters
<1> QED  BY <1>2, <1>3 DEF Init, RoomInv

LEMMA RoomStep == PoolInv /\ RoomInv /\ [Next]_poolVars => RoomInv'
<1> SUFFICES ASSUME PoolInv, RoomInv, [Next]_poolVars PROVE RoomInv'
  OBVIOUS
<1>1. /\ Len(queue) \in Nat /\ Len(InitialQueue) \in Nat
      /\ Cardinality(Holders) \in Nat /\ IsFiniteSet(Holders)
  BY PoolAssumption, LenProperties, HoldersFinite DEF PoolInv, PoolTypeOK, PoolParameters
<1>2. ASSUME NEW r \in Requests, Request(r) \/ Suspend(r) \/ Drop(r)
      PROVE RoomInv'
  <2>1. queue' = queue /\ offered' = offered
    BY <1>2, OtherInv
  <2>2. Holders' = Holders \/ Holders' = Holders \ {r}
    <3>1. held \in [Requests -> Slots \cup {NoSlot}]
      BY DEF PoolInv, PoolTypeOK
    <3>2. held' = held \/ held' = [held EXCEPT ![r] = NoSlot]
      BY <1>2, OtherInv
    <3>3. CASE held' = held  BY <3>3 DEF Holders
    <3>4. CASE held' = [held EXCEPT ![r] = NoSlot]
      BY <3>1, <3>4 DEF Holders
    <3> QED  BY <3>2, <3>3, <3>4
  <2>3. Cardinality(Holders') \in Nat /\ Cardinality(Holders') <= Cardinality(Holders)
    BY <1>1, <2>2, FS_Subset, FS_CardinalityType
  <2> QED  BY <1>1, <2>1, <2>3 DEF RoomInv
<1>3. ASSUME NEW r \in Requests, Acquire(r) PROVE RoomInv'
  <2>1. /\ Holders' = Holders \cup {r} /\ r \notin Holders
        /\ Len(queue') = Len(queue) - 1 /\ offered' = offered
    BY <1>3, AcquireInv DEF Acquire
  <2>2. Cardinality(Holders') = Cardinality(Holders) + 1
    BY <1>1, <2>1, FS_AddElement
  <2> QED  BY <1>1, <2>1, <2>2 DEF RoomInv
<1>4. ASSUME NEW r \in Requests, Release(r) PROVE RoomInv'
  <2>1. /\ Holders' = Holders \ {r} /\ r \in Holders
        /\ Len(queue') = Len(queue) + 1 /\ offered' = offered
    BY <1>4, ReleaseInv DEF Release
  <2>2. Cardinality(Holders') = Cardinality(Holders) - 1
    BY <1>1, <2>1, FS_RemoveElement
  <2> QED  BY <1>1, <2>1, <2>2 DEF RoomInv
<1>5. ASSUME NEW s \in Slots, AddKey(s) PROVE RoomInv'
  BY <1>5, AddKeyInv DEF RoomInv
<1>6. CASE UNCHANGED poolVars
  BY <1>6 DEF poolVars, RoomInv, Holders
<1> QED  BY <1>2, <1>3, <1>4, <1>5, <1>6 DEF Next

(* A release never has to wait for room in a pool nothing was imported to. *)
THEOREM RoomToRelease == Spec => []ReleaseFindsRoom
<1>1. PoolInv /\ RoomInv => ReleaseFindsRoom
  <2> SUFFICES ASSUME PoolInv, RoomInv, offered = InitialSlots, NEW r \in Holders
               PROVE  Len(queue) < Capacity
    BY DEF ReleaseFindsRoom
  <2>1. Len(queue) \in Nat
    BY LenProperties DEF PoolInv, PoolTypeOK
  <2>2. Cardinality(Holders) \in Nat /\ Cardinality(Holders) # 0
    BY HoldersFinite, FS_EmptySet
  <2>3. Len(InitialQueue) \in Nat /\ ConfiguredCapacity \in Nat
    BY PoolAssumption, LenProperties DEF PoolParameters
  <2> QED  BY <2>1, <2>2, <2>3 DEF RoomInv, Capacity
<1> QED  BY <1>1, PoolInvariant, RoomInit, RoomStep, PTL DEF Spec

(* The initial states and the steps of the pool are those of the ledger.   *)
LEMMA LedgerInit == Init => Ledger!Init
<1> SUFFICES ASSUME Init PROVE Ledger!Init
  OBVIOUS
<1>1. Queued \subseteq Slots
  BY PoolAssumption, ElementOfSeq DEF Init, Queued, PoolParameters
<1> QED  BY <1>1 DEF Init, Ledger!Init

LEMMA LedgerStep == PoolInv /\ [Next]_poolVars => [Ledger!Next]_(Ledger!ledger)
<1> SUFFICES ASSUME PoolInv, [Next]_poolVars
             PROVE  Ledger!Next \/ UNCHANGED <<Queued, held>>
  BY DEF Ledger!ledger
<1>1. /\ held \in [Requests -> Slots \cup {NoSlot}]
      /\ queue \in Seq(Slots) /\ NoSlot \notin Slots
      /\ Queued \subseteq Slots
  BY PoolAssumption, ElementOfSeq DEF PoolInv, PoolTypeOK, Queued, PoolParameters
<1>2. ASSUME NEW r \in Requests, Request(r) \/ Suspend(r) \/ Drop(r)
      PROVE Ledger!Forfeit(r) \/ UNCHANGED <<Queued, held>>
  BY <1>2, OtherInv DEF Ledger!Forfeit, Holders
<1>3. ASSUME NEW r \in Requests, Acquire(r)
      PROVE \E s \in Slots : Ledger!Lend(r, s)
  <2>1. /\ Queued' = Queued \ {held'[r]} /\ held'[r] \in Queued
        /\ r \notin Holders
    BY <1>3, AcquireInv
  <2>2. held' = [held EXCEPT ![r] = held'[r]]
    BY <1>1, <1>3 DEF Acquire
  <2>3. held[r] = NoSlot  BY <2>1 DEF Holders
  <2> QED  BY <1>1, <2>1, <2>2, <2>3 DEF Ledger!Lend
<1>4. ASSUME NEW r \in Requests, Release(r) PROVE Ledger!Return(r)
  <2>1. Queued' = Queued \cup {held[r]} /\ r \in Holders
    BY <1>4, ReleaseInv
  <2> QED  BY <1>4, <2>1 DEF Ledger!Return, Release, Holders
<1>5. ASSUME NEW s \in Slots, AddKey(s)
      PROVE Ledger!Grow(s) \/ UNCHANGED <<Queued, held>>
  <2>1. held' = held  BY <1>5 DEF AddKey
  <2>2. /\ s \notin Queued \cup {held[r] : r \in Requests}
        /\ (Queued' = Queued \cup {s} \/ Queued' = Queued)
    BY <1>5, AddKeyInv
  <2> QED  BY <2>1, <2>2 DEF Ledger!Grow, Ledger!LentSlots
<1>6. CASE UNCHANGED poolVars
  BY <1>6 DEF poolVars, Queued
<1> QED  BY <1>2, <1>3, <1>4, <1>5, <1>6 DEF Next, Ledger!Next

(* The pool implements the ledger of free and lent slots.                  *)
THEOREM LedgerRefinement == Spec => ImplementsLedger
<1> QED
  BY LedgerInit, LedgerStep, PoolInvariant, PTL
     DEF Spec, ImplementsLedger, Ledger!Spec
=============================================================================
