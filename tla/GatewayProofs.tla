---------------------------- MODULE GatewayProofs ----------------------------
(***************************************************************************)
(* What holds of the gateway for every number of pools, providers, clients *)
(* and keys: the grants, the replay of requests, and who a request is      *)
(* taken to come from.                                                     *)
(***************************************************************************)
EXTENDS GatewayChecks, IdentityChecks, OrderingProofs

-----------------------------------------------------------------------------
(* Sequences that repeat only elements of D, and sequences in which such   *)
(* an element does not follow itself either.                               *)
Twice(s, D) == \A i, j \in DOMAIN s : i < j /\ s[i] = s[j] => s[i] \in D
Apart(s, D) == \A i, j \in DOMAIN s : i < j /\ s[i] = s[j] => s[i] \in D /\ j > i + 1

LEMMA SeqFacts ==
  ASSUME NEW T, NEW s \in Seq(T)
  PROVE  /\ Len(s) \in Nat /\ DOMAIN s = 1 .. Len(s) /\ \A i \in DOMAIN s : s[i] \in T
         /\ ToSet(s) \subseteq T /\ (s # <<>> => 1 \in DOMAIN s)
         /\ \A x : x \in ToSet(s) <=> \E i \in DOMAIN s : s[i] = x
<1>1. Len(s) \in Nat /\ DOMAIN s = 1 .. Len(s) /\ \A i \in DOMAIN s : s[i] \in T
  OBVIOUS
<1>2. s # <<>> => 1 \in DOMAIN s  OBVIOUS
<1>3. \A x : x \in ToSet(s) <=> \E i \in DOMAIN s : s[i] = x  BY DEF ToSet
<1> QED  BY <1>1, <1>2, <1>3

LEMMA Joined ==
  ASSUME NEW T, NEW s \in Seq(T), NEW t \in Seq(T), NEW D, Twice(s, D), Twice(t, D),
         ToSet(s) \cap ToSet(t) = {}
  PROVE  /\ s \o t \in Seq(T) /\ Twice(s \o t, D) /\ ToSet(s \o t) = ToSet(s) \cup ToSet(t)
         /\ Len(s \o t) = Len(s) + Len(t)
<1> DEFINE u == s \o t
<1>1. /\ u \in Seq(T) /\ Len(u) = Len(s) + Len(t)
      /\ Len(s) \in Nat /\ Len(t) \in Nat
      /\ DOMAIN s = 1 .. Len(s) /\ DOMAIN t = 1 .. Len(t)
      /\ DOMAIN u = 1 .. Len(s) + Len(t)
      /\ \A i \in DOMAIN s : u[i] = s[i]
      /\ \A i \in DOMAIN u : i > Len(s) => i - Len(s) \in DOMAIN t /\ u[i] = t[i - Len(s)]
      /\ \A i \in DOMAIN t : i + Len(s) \in DOMAIN u /\ u[i + Len(s)] = t[i]
  <2>1. /\ u \in Seq(T) /\ Len(u) = Len(s) + Len(t)
        /\ Len(s) \in Nat /\ Len(t) \in Nat
        /\ DOMAIN s = 1 .. Len(s) /\ DOMAIN t = 1 .. Len(t)
    OBVIOUS
  <2>2. DOMAIN u = 1 .. Len(s) + Len(t)  BY <2>1
  <2>3. \A i \in 1 .. Len(s) + Len(t) :
          u[i] = IF i <= Len(s) THEN s[i] ELSE t[i - Len(s)]
    OBVIOUS
  <2> HIDE DEF u
  <2>4. \A i \in DOMAIN t : /\ i + Len(s) \in DOMAIN u /\ ~ (i + Len(s) <= Len(s))
                            /\ i + Len(s) - Len(s) = i
    BY <2>1, <2>2
  <2>5. \A i \in DOMAIN t : i + Len(s) \in DOMAIN u /\ u[i + Len(s)] = t[i]
    BY <2>2, <2>3, <2>4
  <2>6. \A i \in DOMAIN s : u[i] = s[i]  BY <2>1, <2>2, <2>3
  <2>7. \A i \in DOMAIN u : i > Len(s) => i - Len(s) \in DOMAIN t /\ u[i] = t[i - Len(s)]
    BY <2>1, <2>2, <2>3
  <2> QED  BY <2>1, <2>2, <2>5, <2>6, <2>7
<1> HIDE DEF u
<1>2. \A i \in DOMAIN u : i \in DOMAIN s \/ i > Len(s)  BY <1>1
<1>3. DOMAIN s \subseteq DOMAIN u  BY <1>1
<1>4. Twice(u, D)
  <2> SUFFICES ASSUME NEW i \in DOMAIN u, NEW j \in DOMAIN u, i < j, u[i] = u[j]
               PROVE  u[i] \in D
    BY DEF Twice
  <2>1. CASE i \in DOMAIN s /\ j \in DOMAIN s  BY <1>1, <2>1 DEF Twice
  <2>2. CASE i > Len(s)
    <3>1. j > Len(s) /\ i - Len(s) < j - Len(s)  BY <1>1, <2>2
    <3> QED  BY <1>1, <2>2, <3>1 DEF Twice
  <2>3. CASE i \in DOMAIN s /\ j > Len(s)
    <3>1. u[i] = s[i] /\ j - Len(s) \in DOMAIN t /\ u[j] = t[j - Len(s)]
      BY <1>1, <2>3
    <3>2. u[i] \in ToSet(s) /\ u[j] \in ToSet(t)  BY <2>3, <3>1 DEF ToSet
    <3> QED  BY <3>2
  <2> QED  BY <1>2, <2>1, <2>2, <2>3
<1>5. ToSet(u) = ToSet(s) \cup ToSet(t)
  BY <1>1, <1>2, <1>3 DEF ToSet
<1> QED  BY <1>1, <1>4, <1>5 DEF u

LEMMA Kept ==
  ASSUME NEW T, NEW s \in Seq(T), NEW D, Twice(s, D), NEW S
  PROVE  /\ Keep(s, S) \in Seq(T) /\ Twice(Keep(s, S), D)
         /\ ToSet(Keep(s, S)) = ToSet(s) \cap S
         /\ Len(Keep(s, S)) <= Len(s)
<1> DEFINE k == Keep(s, S)
<1>1. /\ k \in Seq(T) /\ Len(k) \in Nat /\ DOMAIN k = 1 .. Len(k)
      /\ \A a \in DOMAIN k : k[a] \in S /\ \E i \in DOMAIN s : k[a] = s[i]
      /\ \A i \in DOMAIN s : s[i] \in S => \E a \in DOMAIN k : k[a] = s[i]
      /\ \A a, b \in DOMAIN k : a < b =>
           \E i, j \in DOMAIN s : i < j /\ k[a] = s[i] /\ k[b] = s[j]
  BY KeepFacts
<1>2. Len(k) <= Len(s)
  <2>1. \A I \in SUBSET (DOMAIN s) : Len(Selected(s, I)) <= Len(s)
    BY SelectedLength
  <2>2. {i \in DOMAIN s : s[i] \in S} \in SUBSET (DOMAIN s)  OBVIOUS
  <2> QED  BY <2>1, <2>2 DEF Keep
<1> HIDE DEF k
<1>3. Twice(k, D)  BY <1>1 DEF Twice
<1>4. ToSet(k) = ToSet(s) \cap S  BY <1>1 DEF ToSet
<1> QED  BY <1>1, <1>2, <1>3, <1>4 DEF k

(* Of pools that follow each other the first stays.                        *)
LEMMA DedupFacts ==
  ASSUME NEW T, NEW s \in Seq(T), NEW D, Twice(s, D), NEW d, d = Dedup(s)
  PROVE  /\ d \in Seq(T) /\ Apart(d, D) /\ ToSet(d) = ToSet(s) /\ Len(d) <= Len(s)
<1> DEFINE I == {i \in DOMAIN s : i = 1 \/ s[i] # s[i - 1]}
<1>1. d = Selected(s, I) /\ I \in SUBSET (DOMAIN s)  BY DEF Dedup
<1>2. \A i \in DOMAIN s : i \in I <=> i = 1 \/ s[i] # s[i - 1]  OBVIOUS
<1>3. Len(s) \in Nat /\ DOMAIN s = 1 .. Len(s)  OBVIOUS
<1> HIDE DEF I
<1>4. d \in Seq(T) /\ Len(d) \in Nat /\ DOMAIN d = 1 .. Len(d) /\ Len(d) <= Len(s)
  BY <1>1, SelectedFacts, SelectedLength
<1>5. PICK o \in [DOMAIN d -> I] :
        /\ \A a \in DOMAIN d : d[a] = s[o[a]]
        /\ \A i \in I : \E a \in DOMAIN d : o[a] = i
        /\ \A a, b \in DOMAIN d : a < b => o[a] < o[b]
  BY <1>1, SelectedFacts
<1>6. \A a \in DOMAIN d : o[a] \in I /\ o[a] \in DOMAIN s  BY <1>1, <1>5
<1>7. ToSet(d) = ToSet(s)
  <2>1. \A x \in ToSet(d) : x \in ToSet(s)  BY <1>5, <1>6 DEF ToSet
  <2>2. ASSUME NEW x \in ToSet(s) PROVE x \in ToSet(d)
    <3> DEFINE at == {i \in DOMAIN s : s[i] = x}
    <3>1. at # {} /\ at \subseteq Nat /\ IsFiniteSet(at)
      <4>1. IsFiniteSet(DOMAIN s)  BY <1>3, FS_Interval
      <4>2. at \subseteq DOMAIN s  OBVIOUS
      <4> QED  BY <1>3, <2>2, <4>1, <4>2, FS_Subset DEF ToSet
    <3>2. PICK i \in at : \A j \in at : i <= j  BY <3>1, Least
    <3>3. i \in DOMAIN s /\ s[i] = x  BY <3>2
    <3>4. i # 1 => i - 1 \in DOMAIN s /\ ~ (i <= i - 1)  BY <1>3, <3>3
    <3>5. i \in I  BY <1>2, <3>2, <3>3, <3>4
    <3>6. PICK a \in DOMAIN d : o[a] = i  BY <1>5, <3>5
    <3> QED  BY <1>5, <3>3, <3>6 DEF ToSet
  <2> QED  BY <2>1, <2>2
<1>8. ASSUME NEW a \in DOMAIN d, NEW b \in DOMAIN d, a < b, d[a] = d[b]
      PROVE  d[a] \in D /\ b > a + 1
  <2>1. o[a] < o[b] /\ s[o[a]] = s[o[b]] /\ d[a] = s[o[a]]  BY <1>5, <1>8
  <2>2. d[a] \in D  BY <1>6, <2>1 DEF Twice
  <2>3. b > a + 1
    <3> SUFFICES ASSUME b = a + 1 PROVE FALSE  BY <1>4, <1>8
    <3>1. \A i \in DOMAIN s : o[a] < i /\ i < o[b] => i \notin I
      <4> SUFFICES ASSUME NEW i \in I, o[a] < i, i < o[b] PROVE FALSE  OBVIOUS
      <4>1. PICK c \in DOMAIN d : o[c] = i  BY <1>5
      <4>2. c \in Nat /\ a \in Nat /\ b = a + 1  BY <1>4
      <4>3. c <= a \/ b <= c  BY <4>2
      <4>4. o[c] <= o[a] \/ o[b] <= o[c]
        <5>1. c = a \/ c < a \/ c = b \/ b < c  BY <4>2, <4>3
        <5>2. \A x \in DOMAIN d : o[x] \in Nat  BY <1>3, <1>6
        <5>3. c < a => o[c] < o[a]  BY <1>5, <1>8
        <5>4. b < c => o[b] < o[c]  BY <1>5, <1>8
        <5> QED  BY <1>8, <5>1, <5>2, <5>3, <5>4
      <4>5. o[a] \in Nat /\ o[b] \in Nat /\ i \in Nat  BY <1>1, <1>3, <1>6, <1>8
      <4> QED  BY <4>1, <4>4, <4>5
    <3> DEFINE other == {i \in DOMAIN s : o[a] < i /\ i <= o[b] /\ s[i] # s[o[a]]}
    <3>2. other = {}
      <4> SUFFICES ASSUME other # {} PROVE FALSE  OBVIOUS
      <4>1. other \subseteq Nat /\ IsFiniteSet(other)
        <5>1. IsFiniteSet(DOMAIN s)  BY <1>3, FS_Interval
        <5>2. other \subseteq DOMAIN s  OBVIOUS
        <5> QED  BY <1>3, <5>1, <5>2, FS_Subset
      <4>2. PICK i \in other : \A j \in other : i <= j  BY <4>1, Least
      <4>3. i \in DOMAIN s /\ o[a] < i /\ i <= o[b] /\ s[i] # s[o[a]]  BY <4>2
      <4>4. o[a] \in DOMAIN s /\ o[a] \in Nat /\ o[b] \in Nat  BY <1>3, <1>6, <1>8
      <4>5. i # o[b]  BY <2>1, <4>3
      <4>6. i < o[b]  BY <1>3, <4>3, <4>4, <4>5
      <4>7. i \notin I  BY <3>1, <4>3, <4>6
      <4>8. s[i] = s[i - 1]  BY <1>2, <4>3, <4>7
      <4>9. i - 1 \in DOMAIN s /\ (i - 1 = o[a] \/ o[a] < i - 1) /\ i - 1 <= o[b]
        BY <1>3, <4>3, <4>4, <4>6
      <4>10. i - 1 \notin other
        <5>1. ~ (i <= i - 1)  BY <1>3, <4>3
        <5> QED  BY <4>2, <5>1
      <4> QED  BY <4>3, <4>8, <4>9, <4>10
    <3>3. o[b] \in I /\ o[b] # 1
      <4>1. o[a] \in 1 .. Len(s) /\ o[b] \in 1 .. Len(s)  BY <1>3, <1>6, <1>8
      <4> QED  BY <1>6, <2>1, <4>1
    <3>4. s[o[b]] # s[o[b] - 1]  BY <1>2, <1>6, <3>3
    <3>5. /\ o[b] - 1 \in DOMAIN s /\ o[b] - 1 <= o[b]
          /\ o[b] - 1 = o[a] \/ o[a] < o[b] - 1
      <4>1. o[a] \in 1 .. Len(s) /\ o[b] \in 1 .. Len(s)  BY <1>3, <1>6, <1>8
      <4> QED  BY <1>3, <2>1, <4>1
    <3>6. s[o[b] - 1] = s[o[a]]  BY <3>2, <3>5
    <3> QED  BY <2>1, <3>4, <3>6
  <2> QED  BY <2>2, <2>3
<1>9. Apart(d, D)  BY <1>8 DEF Apart
<1> QED  BY <1>4, <1>7, <1>9

LEMMA Sorted ==
  ASSUME NEW ps \in SUBSET Pools, NEW D
  PROVE  /\ BestFirst(ps) \in Seq(Pools) /\ Twice(BestFirst(ps), D)
         /\ ToSet(BestFirst(ps)) = ps /\ Len(BestFirst(ps)) <= NumPools
<1> DEFINE s == BestFirst(ps)
<1>1. IsFiniteSet(ps) /\ Cardinality(ps) <= NumPools
  <2>1. IsFiniteSet(Pools) /\ Cardinality(Pools) = NumPools
    BY FS_Interval, GatewayAssumption DEF Pools
  <2> QED  BY <2>1, FS_Subset
<1>2. Orders(Better, ps)
  <2>1. \A x, y \in ps : <<x, y>> \in Better <=>
          Priority[x] > Priority[y] \/ (Priority[x] = Priority[y] /\ x < y)
    BY DEF Better
  <2>2. \A x \in ps : Priority[x] \in Int /\ x \in Int
    BY GatewayAssumption DEF Pools
  <2> QED  BY <2>1, <2>2 DEF Orders
<1>3. s = InOrder(ps, Better)  BY DEF BestFirst
<1> HIDE DEF s
<1>4. /\ s \in Seq(ps) /\ Len(s) = Cardinality(ps)
      /\ \A x \in ps : \E i \in DOMAIN s : s[i] = x
      /\ \A i, j \in DOMAIN s : i < j => s[i] # s[j]
  <2>1. /\ s \in Seq(ps) /\ Len(s) = Cardinality(ps)
        /\ Len(s) \in Nat /\ DOMAIN s = 1 .. Len(s)
        /\ \A x \in ps : \E i \in DOMAIN s : s[i] = x
        /\ \A i, j \in DOMAIN s : i < j => <<s[i], s[j]>> \in Better /\ s[i] # s[j]
    BY <1>1, <1>2, <1>3, InOrderFacts
  <2> QED  BY <2>1
<1>5. s \in Seq(Pools)  BY <1>4
<1>6. Twice(s, D)  BY <1>4 DEF Twice
<1>7. ToSet(s) = ps  BY <1>4 DEF ToSet
<1> QED  BY <1>1, <1>4, <1>5, <1>6, <1>7 DEF s

-----------------------------------------------------------------------------
(* The pools a request may be sent to, whatever is allowed and known.      *)
Suits(p) ==
  /\ req.direct # NoPool => p = req.direct
  /\ req.explicit # NoProvider => ProviderOf[p] = req.explicit
  /\ req.direct = NoPool /\ req.capability = "stt" => "stt" \in Speaks[p]

(* A transcription whose provider is open, and the pools it must try.      *)
Open == req.direct = NoPool /\ req.capability = "stt" /\ req.explicit = NoProvider
Wanted == {p \in AtStart : "stt" \in Speaks[p] /\ p \in allowed}

Types ==
  /\ configured \in SUBSET Pools /\ AtStart \subseteq configured
  /\ grants \in SUBSET Pools
  /\ req \in Requests
  /\ phase \in {"new", "grants", "route", "fill", "enter", "inside", "done"}
  /\ cfg \in SUBSET Pools /\ allowed \in SUBSET Pools
  /\ candidates \in Seq(Pools)
  /\ tried \in Seq(Pools)
  /\ doubled \in SUBSET Pools
  /\ status \in Statuses

(* What the request got into is a beginning of the list of candidates: to  *)
(* the current one, where it is inside, or to the one before.              *)
Turns ==
  /\ index \in Nat /\ Len(tried) <= index /\ Len(tried) <= Len(candidates)
  /\ \A i \in DOMAIN tried : tried[i] = candidates[i]
  /\ index > 1 => AllowFailover
  /\ phase = "enter" => index \in DOMAIN candidates /\ Len(tried) = index - 1
  /\ phase = "inside" => index \in DOMAIN candidates /\ Len(tried) = index
  /\ phase \in {"new", "grants", "route", "fill"} => tried = <<>> /\ index = 1
  /\ phase \in {"new", "grants", "route"} => candidates = <<>>
  /\ phase \in {"grants", "route", "fill"} => req.direct = NoPool
  /\ phase = "fill" => req.explicit = NoProvider

(* What the cache has given, before the other pools are added.             *)
Known(s) ==
  /\ Twice(s, doubled)
  /\ ToSet(s) \subseteq allowed
  /\ Len(s) <= Cardinality(Providers)
  /\ req.capability = "stt" => \A p \in ToSet(s) : "stt" \in Speaks[p]

(* The list that the pools are tried by.                                   *)
Settled ==
  /\ Apart(candidates, doubled)
  /\ \A p \in ToSet(candidates) : Suits(p)
  /\ req.direct = NoPool => ToSet(candidates) \subseteq allowed
  /\ Len(candidates) <= Cardinality(Providers) + NumPools
  /\ Open => Wanted \subseteq ToSet(candidates)

Lists ==
  /\ phase = "fill" => Known(candidates)
  /\ phase \in {"enter", "inside", "done"} => Settled

(* A transcription has an answer that no pool gives only when all have.    *)
Answered ==
  Open /\ phase = "done" =>
    status # "not_found" /\ (status \in Failover => Len(tried) = Len(candidates))

(* What is allowed to a client that is no admin was granted; grants stay.  *)
Granted ==
  /\ ~ Admin(req) => allowed \subseteq grants
  /\ GrantedOnly

GatewayInv == Types /\ Turns /\ Lists /\ Answered /\ Granted

LEMMA RequestFacts ==
  ASSUME req \in Requests
  PROVE  /\ req.direct \in Pools \cup {NoPool}
         /\ req.direct # NoPool => req.explicit = NoProvider
         /\ ~ req.named => req.explicit = NoProvider
         /\ req.named \in BOOLEAN /\ req.bypass \in BOOLEAN
         /\ req.capability \in {"chat", "stt"}
BY GatewayAssumption DEF Requests, Capabilities

LEMMA RouteFacts ==
  ASSUME NEW route \in Routes
  PROVE  /\ route \in Seq(Pools) /\ Twice(route, Doubled(route))
         /\ Len(route) <= Cardinality(Providers)
<1>1. route \in BoundedSeq(Pools, Cardinality(Providers))  BY DEF Routes
<1>2. PICK n \in 0 .. Cardinality(Providers) : route \in [1 .. n -> Pools]
  BY <1>1 DEF BoundedSeq, SeqOf
<1>3. Cardinality(Providers) \in Nat  BY FS_CardinalityType, GatewayAssumption
<1>4. n \in Nat /\ n <= Cardinality(Providers)  BY <1>3
<1>5. route \in Seq(Pools) /\ Len(route) = n  BY <1>2, <1>4
<1>6. \A i \in DOMAIN route : route[i] \in Pools  BY <1>5
<1>7. Twice(route, Doubled(route))  BY <1>6 DEF Twice, Doubled
<1> QED  BY <1>4, <1>5, <1>7

LEMMA FirstFacts ==
  ASSUME NEW s \in Seq(Pools), NEW D
  PROVE  /\ First(s) \in Seq(Pools) /\ Twice(First(s), D)
         /\ ToSet(First(s)) \subseteq ToSet(s)
         /\ Len(First(s)) <= Cardinality(Providers)
<1>0. Cardinality(Providers) \in Nat  BY FS_CardinalityType, GatewayAssumption
<1>1. CASE s = <<>>
  <2>1. First(s) = <<>> /\ Len(<<>>) = 0 /\ DOMAIN <<>> = {}  BY <1>1 DEF First
  <2>2. First(s) \in Seq(Pools) /\ Len(First(s)) <= Cardinality(Providers)
    BY <1>0, <2>1
  <2>3. Twice(First(s), D) /\ ToSet(First(s)) = {}  BY <2>1 DEF Twice, ToSet
  <2> QED  BY <2>2, <2>3
<1>2. CASE s # <<>>
  <2>1. Head(s) \in Pools /\ Head(s) \in ToSet(s)
    <3>1. 1 \in DOMAIN s /\ s[1] \in Pools /\ Head(s) = s[1]  BY <1>2
    <3> QED  BY <3>1 DEF ToSet
  <2>2. First(s) = <<Head(s)>>  BY <1>2 DEF First
  <2>3. Cardinality(Providers) >= 1
    <3>1. ProviderOf[Head(s)] \in Providers  BY <2>1, GatewayAssumption
    <3>2. Cardinality(Providers) # 0  BY <3>1, FS_EmptySet, GatewayAssumption
    <3> QED  BY <1>0, <3>2
  <2> HIDE DEF First
  <2>4. /\ First(s) \in Seq(Pools) /\ DOMAIN First(s) = {1} /\ Len(First(s)) = 1
        /\ First(s)[1] = Head(s)
    BY <2>1, <2>2
  <2>5. Twice(First(s), D)
    <3>1. \A i, j \in {1} : ~ (i < j)  OBVIOUS
    <3> QED  BY <2>4, <3>1 DEF Twice
  <2>6. ToSet(First(s)) = {Head(s)}  BY <2>4 DEF ToSet
  <2> QED  BY <2>1, <2>3, <2>4, <2>5, <2>6
<1> QED  BY <1>1, <1>2

LEMMA SuitableFacts ==
  ASSUME Types, NEW ps \in SUBSET Pools
  PROVE  /\ Suitable(ps) \in SUBSET Pools /\ Suitable(ps) \subseteq allowed
         /\ \A p \in Suitable(ps) : req.capability \in Speaks[p]
BY DEF Suitable

LEMMA FindFacts ==
  ASSUME Types, NEW providers, NEW D
  PROVE  /\ FindPools(providers) \in Seq(Pools) /\ Twice(FindPools(providers), D)
         /\ ToSet(FindPools(providers)) \subseteq allowed
         /\ Len(FindPools(providers)) <= NumPools
         /\ \A p \in ToSet(FindPools(providers)) :
              req.capability \in Speaks[p] /\ ProviderOf[p] \in providers
<1> DEFINE ps == {p \in Suitable(cfg) : ProviderOf[p] \in providers}
<1>1. /\ ps \in SUBSET Pools /\ ps \subseteq allowed
      /\ \A p \in ps : req.capability \in Speaks[p] /\ ProviderOf[p] \in providers
  BY SuitableFacts DEF Types
<1>2. FindPools(providers) = BestFirst(ps)  BY DEF FindPools
<1> HIDE DEF ps
<1> QED  BY <1>1, <1>2, Sorted

(* What LookUp takes from the cache.                                       *)
LEMMA KnownFacts ==
  ASSUME Types, NEW route \in Routes, req.explicit = NoProvider,
         NEW s, s = IF req.capability = "chat" THEN ChatPool(KnownPools(route))
                    ELSE Keep(KnownPools(route), Suitable(configured))
  PROVE  /\ s \in Seq(Pools) /\ Twice(s, Doubled(route))
         /\ ToSet(s) \subseteq allowed
         /\ Len(s) <= Cardinality(Providers)
         /\ req.capability = "stt" => \A p \in ToSet(s) : "stt" \in Speaks[p]
<1> DEFINE k == KnownPools(route)
<1> DEFINE D == Doubled(route)
<1>0. Cardinality(Providers) \in Nat  BY FS_CardinalityType, GatewayAssumption
<1>1. /\ k \in Seq(Pools) /\ Twice(k, D) /\ ToSet(k) \subseteq allowed
      /\ Len(k) <= Cardinality(Providers)
  <2>1. route \in Seq(Pools) /\ Twice(route, D) /\ Len(route) <= Cardinality(Providers)
    BY RouteFacts
  <2>2. k = Keep(route, allowed)  BY DEF KnownPools
  <2> HIDE DEF k, D
  <2>3. k \in Seq(Pools) /\ Twice(k, D) /\ ToSet(k) \subseteq allowed /\ Len(k) <= Len(route)
    BY <2>1, <2>2, Kept
  <2>4. Len(k) \in Nat /\ Len(route) \in Nat  BY <2>1, <2>3
  <2> QED  BY <1>0, <2>1, <2>3, <2>4
<1> HIDE DEF k, D
<1>2. CASE req.capability = "chat"
  <2>1. s = ChatPool(k)  BY <1>2 DEF k
  <2>2. CASE k # <<>>
    <3>1. s = First(k)  BY <2>1, <2>2 DEF ChatPool
    <3> QED  BY <1>1, <1>2, <3>1, FirstFacts DEF D
  <2>3. CASE k = <<>>
    <3>1. s = First(FindPools(req.guess))  BY <2>1, <2>3 DEF ChatPool
    <3>2. FindPools(req.guess) \in Seq(Pools) /\ ToSet(FindPools(req.guess)) \subseteq allowed
      BY FindFacts
    <3> QED  BY <1>2, <3>1, <3>2, FirstFacts DEF D
  <2> QED  BY <2>2, <2>3
<1>3. CASE req.capability # "chat"
  <2>1. s = Keep(k, Suitable(configured))  BY <1>3 DEF k
  <2>2. /\ s \in Seq(Pools) /\ Twice(s, D) /\ Len(s) <= Len(k)
        /\ ToSet(s) = ToSet(k) \cap Suitable(configured)
    BY <1>1, <2>1, Kept
  <2>3. \A p \in Suitable(configured) : req.capability \in Speaks[p]
    BY SuitableFacts DEF Types
  <2>4. Len(s) \in Nat /\ Len(k) \in Nat  BY <1>1, <2>2
  <2>5. Len(s) <= Cardinality(Providers)  BY <1>0, <1>1, <2>2, <2>4
  <2> QED  BY <1>1, <2>2, <2>3, <2>5 DEF D
<1> QED  BY <1>2, <1>3

-----------------------------------------------------------------------------
LEMMA GatewayInit == Init => GatewayInv
<1> SUFFICES ASSUME Init PROVE GatewayInv  OBVIOUS
<1>1. <<>> \in Seq(Pools) /\ DOMAIN <<>> = {} /\ Len(<<>>) = 0  OBVIOUS
<1>2. Types
  BY <1>1, GatewayAssumption DEF Init, Types, Statuses
<1>3. Turns /\ Lists /\ Answered
  BY <1>1 DEF Init, Turns, Lists, Answered
<1>4. Granted
  BY <1>1 DEF Init, Granted, GrantedOnly, Tried
<1> QED  BY <1>2, <1>3, <1>4 DEF GatewayInv

(* What changes in the world leaves the request alone.                     *)
LEMMA WorldStep ==
  ASSUME GatewayInv, UNCHANGED handler,
         configured' \in SUBSET Pools, AtStart \subseteq configured',
         grants' \in SUBSET Pools, grants \subseteq grants'
  PROVE  GatewayInv'
<1>0. /\ req' = req /\ phase' = phase /\ cfg' = cfg /\ allowed' = allowed
      /\ candidates' = candidates /\ index' = index /\ tried' = tried
      /\ doubled' = doubled /\ status' = status
  BY DEF handler
<1>1. Types'  BY <1>0 DEF GatewayInv, Types
<1>2. Turns'  BY <1>0 DEF GatewayInv, Turns, AllowFailover
<1>3. Known(candidates)' <=> Known(candidates)  BY <1>0 DEF Known, Twice
<1>4. Settled' <=> Settled  BY <1>0 DEF Settled, Apart, Suits, Open, Wanted
<1>5. Lists'  BY <1>0, <1>3, <1>4 DEF GatewayInv, Lists
<1>6. Answered'  BY <1>0 DEF GatewayInv, Answered, Open
<1>7. Granted'  BY <1>0 DEF GatewayInv, Granted, GrantedOnly, Admin, Tried
<1> QED  BY <1>1, <1>2, <1>5, <1>6, <1>7 DEF GatewayInv

(* The candidates are settled: what the list must have, it has.            *)
LEMMA SettleStep ==
  ASSUME GatewayInv, phase \in {"route", "fill"},
         UNCHANGED <<world, req, cfg, allowed, index, tried, doubled>>,
         NEW pools \in Seq(Pools), Settle(pools),
         Twice(pools, doubled), ToSet(pools) \subseteq allowed,
         \A p \in ToSet(pools) : Suits(p),
         Len(pools) <= Cardinality(Providers) + NumPools,
         Open => Wanted \subseteq ToSet(pools)
  PROVE  GatewayInv'
<1>0. Types /\ Turns /\ Granted  BY DEF GatewayInv
<1>1. /\ candidates' \in Seq(Pools) /\ Apart(candidates', doubled)
      /\ ToSet(candidates') = ToSet(pools) /\ Len(candidates') <= Len(pools)
  BY DedupFacts DEF Settle
<1>2. /\ world' = world /\ req' = req /\ cfg' = cfg /\ allowed' = allowed
      /\ index' = index /\ tried' = tried /\ doubled' = doubled
      /\ configured' = configured /\ grants' = grants
  BY DEF world
<1>3. tried = <<>> /\ index = 1 /\ Len(tried) = 0 /\ DOMAIN tried = {}
  BY <1>0 DEF Turns
<1>4. /\ phase' \in {"enter", "done"} /\ status' \in Statuses
      /\ phase' = "enter" => candidates' # <<>>
      /\ phase' = "done" => status' = "forbidden"
  BY <1>0 DEF Settle, Finish, Types, Statuses
<1>5. Types'
  BY <1>0, <1>1, <1>2, <1>4 DEF Types
<1>6. Turns'
  <2>1. Len(candidates') \in Nat /\ (candidates' # <<>> => 1 \in DOMAIN candidates')
    BY <1>1, SeqFacts
  <2> QED  BY <1>2, <1>3, <1>4, <2>1 DEF Turns
<1>7. Lists'
  <2>1. Len(candidates') <= Cardinality(Providers) + NumPools
    <3>1. Cardinality(Providers) + NumPools \in Nat
      BY FS_CardinalityType, GatewayAssumption
    <3>2. Len(candidates') \in Nat /\ Len(pools) \in Nat  BY <1>1
    <3> QED  BY <1>1, <3>1, <3>2
  <2>2. Settled'
    BY <1>1, <1>2, <2>1 DEF Settled, Apart, Suits, Open, Wanted
  <2> QED  BY <1>4, <2>2 DEF Lists
<1>8. Answered'  BY <1>2, <1>4 DEF Answered, Open, Failover
<1>9. Granted'  BY <1>0, <1>2 DEF Granted, GrantedOnly, Admin, Tried
<1> QED  BY <1>5, <1>6, <1>7, <1>8, <1>9 DEF GatewayInv

LEMMA LoadStep == GatewayInv /\ Load => GatewayInv'
<1> SUFFICES ASSUME GatewayInv, Load PROVE GatewayInv'  OBVIOUS
<1>0. Types /\ Turns /\ Granted  BY DEF GatewayInv
<1>1. /\ phase = "new" /\ cfg' = configured
      /\ configured' = configured /\ grants' = grants /\ req' = req
      /\ allowed' = allowed /\ index' = index /\ tried' = tried
      /\ doubled' = doubled /\ status' = status
  BY DEF Load, world
<1>2. Granted'  BY <1>0, <1>1 DEF Granted, GrantedOnly, Admin, Tried
<1>3. tried = <<>> /\ index = 1 /\ candidates = <<>> /\ Len(tried) = 0 /\ DOMAIN tried = {}
  BY <1>0, <1>1 DEF Turns
<1>4. CASE req.direct = NoPool
  <2>1. phase' = "grants" /\ candidates' = candidates  BY <1>4 DEF Load
  <2>2. Types'  BY <1>0, <1>1, <2>1 DEF Types
  <2>3. Turns'  BY <1>0, <1>1, <1>3, <1>4, <2>1 DEF Turns
  <2>4. Lists' /\ Answered'  BY <2>1 DEF Lists, Answered
  <2> QED  BY <1>2, <2>2, <2>3, <2>4 DEF GatewayInv
<1>5. CASE req.direct # NoPool
  <2>1. phase' = "enter" /\ candidates' = <<req.direct>>  BY <1>5 DEF Load
  <2>2. req.direct \in Pools /\ req.explicit = NoProvider
    BY <1>0, <1>5, RequestFacts DEF Types
  <2>3. /\ candidates' \in Seq(Pools) /\ DOMAIN candidates' = {1}
        /\ candidates'[1] = req.direct /\ Len(candidates') = 1
    BY <2>1, <2>2
  <2>4. Types'  BY <1>0, <1>1, <2>1, <2>3 DEF Types
  <2>5. Turns'  BY <1>1, <1>3, <2>1, <2>3 DEF Turns
  <2>6. ToSet(candidates') = {req.direct} /\ Apart(candidates', doubled)
    <3> DEFINE c == candidates'
    <3>1. DOMAIN c = {1} /\ c[1] = req.direct  BY <2>3
    <3> HIDE DEF c
    <3>2. \A i, j \in {1} : ~ (i < j)  OBVIOUS
    <3>3. ToSet(c) = {req.direct} /\ Apart(c, doubled)
      BY <3>1, <3>2 DEF ToSet, Apart
    <3> QED  BY <3>3 DEF c
  <2>7. Suits(req.direct) /\ ~ Open  BY <1>5, <2>2 DEF Suits, Open
  <2>8. Len(candidates') <= Cardinality(Providers) + NumPools
    <3>1. NumPools >= 1  BY <2>2, GatewayAssumption DEF Pools
    <3>2. Cardinality(Providers) \in Nat /\ NumPools \in Nat
      BY FS_CardinalityType, GatewayAssumption
    <3> QED  BY <2>3, <3>1, <3>2
  <2>9. Settled'
    BY <1>1, <1>5, <2>6, <2>7, <2>8 DEF Settled, Apart, Suits, Open
  <2>10. Lists' /\ Answered'  BY <2>1, <2>9 DEF Lists, Answered
  <2> QED  BY <1>2, <2>4, <2>5, <2>10 DEF GatewayInv
<1> QED  BY <1>4, <1>5

LEMMA ReadGrantsStep == GatewayInv /\ ReadGrants => GatewayInv'
<1> SUFFICES ASSUME GatewayInv, ReadGrants PROVE GatewayInv'  OBVIOUS
<1>0. Types /\ Turns /\ Granted  BY DEF GatewayInv
<1>1. /\ phase = "grants" /\ phase' = "route"
      /\ configured' = configured /\ grants' = grants /\ req' = req /\ cfg' = cfg
      /\ candidates' = candidates /\ index' = index /\ tried' = tried
      /\ doubled' = doubled /\ status' = status
  BY DEF ReadGrants, world
<1>2. allowed' \in SUBSET Pools /\ (~ Admin(req) => allowed' \subseteq grants)
  BY <1>0 DEF ReadGrants, Types
<1>3. Types'  BY <1>0, <1>1, <1>2 DEF Types
<1>4. Turns'  BY <1>0, <1>1 DEF Turns, AllowFailover
<1>5. Lists' /\ Answered'  BY <1>1 DEF Lists, Answered
<1>6. Granted'  BY <1>0, <1>1, <1>2 DEF Granted, GrantedOnly, Admin, Tried
<1> QED  BY <1>3, <1>4, <1>5, <1>6 DEF GatewayInv

LEMMA ChooseStep == GatewayInv /\ Choose => GatewayInv'
<1> SUFFICES ASSUME GatewayInv, Choose PROVE GatewayInv'  OBVIOUS
<1>0. Types /\ Turns  BY DEF GatewayInv
<1> DEFINE s == FindPools({req.explicit})
<1>1. /\ phase = "route" /\ req.explicit # NoProvider /\ Settle(s)
      /\ UNCHANGED <<world, req, cfg, allowed, index, tried, doubled>>
  BY DEF Choose
<1>2. /\ s \in Seq(Pools) /\ Twice(s, doubled) /\ ToSet(s) \subseteq allowed
      /\ Len(s) <= NumPools
      /\ \A p \in ToSet(s) : req.capability \in Speaks[p] /\ ProviderOf[p] \in {req.explicit}
  BY <1>0, FindFacts
<1> HIDE DEF s
<1>3. req.direct = NoPool  BY <1>0, <1>1 DEF Turns
<1>4. \A p \in ToSet(s) : Suits(p)  BY <1>2, <1>3 DEF Suits
<1>5. ~ Open  BY <1>1 DEF Open
<1>6. Len(s) <= Cardinality(Providers) + NumPools
  <2>1. Cardinality(Providers) \in Nat /\ NumPools \in Nat /\ Len(s) \in Nat
    BY <1>2, FS_CardinalityType, GatewayAssumption
  <2> QED  BY <1>2, <2>1
<1> QED  BY <1>1, <1>2, <1>4, <1>5, <1>6, SettleStep

LEMMA LookUpStep == GatewayInv /\ LookUp => GatewayInv'
<1> SUFFICES ASSUME GatewayInv, LookUp PROVE GatewayInv'  OBVIOUS
<1>0. Types /\ Turns /\ Granted  BY DEF GatewayInv
<1>1. /\ phase = "route" /\ phase' = "fill" /\ req.explicit = NoProvider
      /\ configured' = configured /\ grants' = grants /\ req' = req /\ cfg' = cfg
      /\ allowed' = allowed /\ index' = index /\ tried' = tried /\ status' = status
  BY DEF LookUp, world
<1>2. /\ tried = <<>> /\ index = 1 /\ candidates = <<>> /\ req.direct = NoPool
      /\ Len(tried) = 0 /\ DOMAIN tried = {}
  BY <1>0, <1>1 DEF Turns
<1>3. /\ candidates' \in Seq(Pools) /\ Twice(candidates', doubled')
      /\ ToSet(candidates') \subseteq allowed
      /\ Len(candidates') <= Cardinality(Providers)
      /\ req.capability = "stt" => \A p \in ToSet(candidates') : "stt" \in Speaks[p]
      /\ doubled' \in SUBSET Pools
  <2>1. CASE req.named
    <3>1. PICK route \in Routes :
            /\ candidates' = IF req.capability = "chat" THEN ChatPool(KnownPools(route))
                             ELSE Keep(KnownPools(route), Suitable(configured))
            /\ doubled' = Doubled(route)
      BY <2>1 DEF LookUp
    <3>2. doubled' \in SUBSET Pools  BY <3>1 DEF Doubled
    <3> DEFINE c == candidates'
    <3>3. c = IF req.capability = "chat" THEN ChatPool(KnownPools(route))
              ELSE Keep(KnownPools(route), Suitable(configured))
      BY <3>1
    <3> HIDE DEF c
    <3>4. /\ c \in Seq(Pools) /\ Twice(c, Doubled(route))
          /\ ToSet(c) \subseteq allowed
          /\ Len(c) <= Cardinality(Providers)
          /\ req.capability = "stt" => \A p \in ToSet(c) : "stt" \in Speaks[p]
      BY <1>0, <1>1, <3>3, KnownFacts
    <3> QED  BY <3>1, <3>2, <3>4 DEF c
  <2>2. CASE ~ req.named
    <3>1. candidates' = <<>> /\ doubled' = doubled  BY <1>2, <2>2 DEF LookUp
    <3>2. DOMAIN <<>> = {} /\ <<>> \in Seq(Pools) /\ Len(<<>>) = 0  OBVIOUS
    <3>3. Twice(<<>>, doubled) /\ ToSet(<<>>) = {}  BY <3>2 DEF Twice, ToSet
    <3>4. Cardinality(Providers) >= 0  BY FS_CardinalityType, GatewayAssumption
    <3> QED  BY <1>0, <3>1, <3>2, <3>3, <3>4 DEF Types
  <2> QED  BY <1>0, <2>1, <2>2, RequestFacts DEF Types
<1>4. Types'  BY <1>0, <1>1, <1>3 DEF Types
<1>5. Turns'
  <2>1. Len(candidates') \in Nat  BY <1>3
  <2> QED  BY <1>1, <1>2, <2>1 DEF Turns
<1>6. Lists' /\ Answered'
  BY <1>1, <1>3 DEF Lists, Known, Twice, Answered
<1>7. Granted'  BY <1>0, <1>1 DEF Granted, GrantedOnly, Admin, Tried
<1> QED  BY <1>4, <1>5, <1>6, <1>7 DEF GatewayInv

LEMMA FillStep == GatewayInv /\ Fill => GatewayInv'
<1> SUFFICES ASSUME GatewayInv, Fill PROVE GatewayInv'  OBVIOUS
<1>0. Types /\ Turns /\ Lists  BY DEF GatewayInv
<1> DEFINE s == IF req.capability = "chat" /\ candidates # <<>> THEN candidates
                ELSE candidates \o Others
<1>1. /\ phase = "fill" /\ Settle(s)
      /\ UNCHANGED <<world, req, cfg, allowed, index, tried, doubled>>
  BY DEF Fill
<1>2. req.direct = NoPool /\ req.explicit = NoProvider /\ Known(candidates)
  BY <1>0, <1>1 DEF Turns, Lists
<1>3. candidates \in Seq(Pools) /\ req.capability \in {"chat", "stt"}
  BY <1>0, RequestFacts DEF Types
<1> DEFINE able == Suitable(configured)
<1>4. /\ able \in SUBSET Pools /\ able \subseteq allowed
      /\ \A p \in able : req.capability \in Speaks[p]
  BY <1>0, SuitableFacts DEF Types
<1>5. Open => Wanted \subseteq able
  BY <1>0 DEF Types, Open, Wanted, Suitable
<1>6. CapabilityPools = BestFirst(able)  BY DEF CapabilityPools
<1> HIDE DEF able
<1>7. /\ Others \in Seq(Pools) /\ Twice(Others, doubled)
      /\ ToSet(Others) = able \cap (Pools \ ToSet(candidates))
      /\ Len(Others) <= NumPools
  <2>1. /\ CapabilityPools \in Seq(Pools) /\ Twice(CapabilityPools, doubled)
        /\ ToSet(CapabilityPools) = able /\ Len(CapabilityPools) <= NumPools
    BY <1>4, <1>6, Sorted
  <2> DEFINE o == Keep(CapabilityPools, Pools \ ToSet(candidates))
  <2>2. /\ o \in Seq(Pools) /\ Twice(o, doubled)
        /\ ToSet(o) = ToSet(CapabilityPools) \cap (Pools \ ToSet(candidates))
        /\ Len(o) <= Len(CapabilityPools)
    BY <2>1, Kept
  <2> HIDE DEF o
  <2>3. Others = o  BY DEF Others, o
  <2>4. Len(o) <= NumPools
    <3>1. Len(o) \in Nat /\ Len(CapabilityPools) \in Nat /\ NumPools \in Nat
      BY <2>1, <2>2, GatewayAssumption
    <3> QED  BY <2>1, <2>2, <3>1
  <2> QED  BY <2>1, <2>2, <2>3, <2>4
<1> DEFINE u == candidates \o Others
<1>8. /\ u \in Seq(Pools) /\ Twice(u, doubled)
      /\ ToSet(u) = ToSet(candidates) \cup ToSet(Others)
      /\ Len(u) = Len(candidates) + Len(Others)
  <2>1. ToSet(candidates) \cap ToSet(Others) = {}  BY <1>7
  <2> QED  BY <1>2, <1>3, <1>7, <2>1, Joined DEF Known
<1>9. (s = candidates /\ req.capability = "chat") \/ s = u  OBVIOUS
<1> HIDE DEF s, u
<1>10. ToSet(candidates) \subseteq Pools /\ ToSet(u) \subseteq Pools
  BY <1>3, <1>8, SeqFacts
<1>11. /\ s \in Seq(Pools) /\ Twice(s, doubled) /\ ToSet(s) \subseteq allowed
       /\ Len(s) <= Cardinality(Providers) + NumPools
  <2>1. Cardinality(Providers) \in Nat /\ NumPools \in Nat
    BY FS_CardinalityType, GatewayAssumption
  <2>2. Len(candidates) \in Nat /\ Len(Others) \in Nat  BY <1>3, <1>7
  <2>3. Len(candidates) <= Cardinality(Providers) /\ ToSet(candidates) \subseteq allowed
        /\ Twice(candidates, doubled)
    BY <1>2 DEF Known
  <2>4. ToSet(u) \subseteq allowed  BY <1>4, <1>7, <1>8, <2>3
  <2>5. /\ Len(u) <= Cardinality(Providers) + NumPools
        /\ Len(candidates) <= Cardinality(Providers) + NumPools
    BY <1>7, <1>8, <2>1, <2>2, <2>3
  <2> QED  BY <1>3, <1>8, <1>9, <2>3, <2>4, <2>5
<1>12. \A p \in ToSet(s) : Suits(p)
  <2>1. CASE req.capability = "chat"  BY <1>2, <2>1 DEF Suits
  <2>2. CASE req.capability = "stt"
    <3>1. s = u  BY <1>9, <2>2
    <3>2. \A p \in ToSet(candidates) : "stt" \in Speaks[p]  BY <1>2, <2>2 DEF Known
    <3>3. \A p \in ToSet(Others) : "stt" \in Speaks[p]  BY <1>4, <1>7, <2>2
    <3> QED  BY <1>2, <1>8, <3>1, <3>2, <3>3 DEF Suits
  <2> QED  BY <1>3, <2>1, <2>2
<1>13. Open => Wanted \subseteq ToSet(s)
  <2> SUFFICES ASSUME Open PROVE Wanted \subseteq ToSet(s)  OBVIOUS
  <2>1. s = u  BY <1>9 DEF Open
  <2>2. able \subseteq ToSet(u)  BY <1>4, <1>7, <1>8
  <2> QED  BY <1>5, <2>1, <2>2
<1> QED  BY <1>1, <1>11, <1>12, <1>13, SettleStep

(* A pool is done with: the request goes on to the next or is answered.    *)
LEMMA TurnEnds ==
  ASSUME GatewayInv, UNCHANGED <<world, req, cfg, allowed, candidates, tried, doubled>>,
         phase \in {"enter", "inside"}, NEW st \in Statuses, AfterPool(st),
         Open => st # "not_found",
         st \in Failover => Len(tried) = index
  PROVE  GatewayInv'
<1>0. Types /\ Turns /\ Lists /\ Granted  BY DEF GatewayInv
<1>1. /\ req' = req /\ cfg' = cfg /\ allowed' = allowed /\ candidates' = candidates
      /\ tried' = tried /\ doubled' = doubled
      /\ configured' = configured /\ grants' = grants
  BY DEF world
<1>2. /\ index \in DOMAIN candidates /\ index \in Nat
      /\ Len(candidates) \in Nat /\ DOMAIN candidates = 1 .. Len(candidates)
      /\ Len(tried) \in Nat
  BY <1>0 DEF Turns, Types
<1>3. Granted'  BY <1>0, <1>1 DEF Granted, GrantedOnly, Admin, Tried
<1>4. phase' \in {"enter", "done"}  BY DEF AfterPool, Finish
<1>5. Lists'
  <2>1. Settled  BY <1>0 DEF Lists
  <2>2. Settled'  BY <1>1, <2>1 DEF Settled, Apart, Suits, Open, Wanted
  <2> QED  BY <1>4, <2>2 DEF Lists
<1>6. AllowFailover' <=> AllowFailover  BY <1>1 DEF AllowFailover
<1>7. CASE AllowFailover /\ index < Len(candidates) /\ st \in Failover
  <2>1. phase' = "enter" /\ index' = index + 1 /\ status' = status
    BY <1>7 DEF AfterPool
  <2>2. Types'  BY <1>0, <1>1, <2>1 DEF Types
  <2>3. index + 1 \in DOMAIN candidates /\ index + 1 \in Nat /\ Len(tried) = index + 1 - 1
    BY <1>2, <1>7
  <2>4. Len(tried) <= index + 1  BY <1>2, <1>7
  <2> HIDE DEF AllowFailover
  <2>5. Turns'  BY <1>0, <1>1, <1>6, <1>7, <2>1, <2>3, <2>4 DEF Turns
  <2>6. Answered'  BY <2>1 DEF Answered
  <2> QED  BY <1>3, <1>5, <2>2, <2>5, <2>6 DEF GatewayInv
<1>8. CASE ~ (AllowFailover /\ index < Len(candidates) /\ st \in Failover)
  <2>1. phase' = "done" /\ status' = st /\ index' = index
    BY <1>8 DEF AfterPool, Finish
  <2>2. Types'  BY <1>0, <1>1, <2>1 DEF Types
  <2>3. Turns'
    <3> HIDE DEF AllowFailover
    <3> QED  BY <1>0, <1>1, <1>6, <2>1 DEF Turns
  <2>4. Open => AllowFailover  BY DEF Open, AllowFailover
  <2>5. Answered'
    <3>1. ASSUME Open, st \in Failover PROVE Len(tried) = Len(candidates)
      <4>1. index = Len(candidates)  BY <1>2, <1>8, <2>4, <3>1
      <4> QED  BY <3>1, <4>1
    <3> QED  BY <1>1, <2>1, <3>1 DEF Answered, Open
  <2> QED  BY <1>3, <1>5, <2>2, <2>3, <2>5 DEF GatewayInv
<1> QED  BY <1>7, <1>8

LEMMA EnterStep == GatewayInv /\ Enter => GatewayInv'
<1> SUFFICES ASSUME GatewayInv, Enter PROVE GatewayInv'  OBVIOUS
<1>0. Types /\ Turns /\ Lists /\ Granted  BY DEF GatewayInv
<1> DEFINE p == candidates[index]
<1>1. /\ phase = "enter" /\ UNCHANGED <<world, req, cfg, allowed, candidates, doubled>>
      /\ req' = req /\ cfg' = cfg /\ allowed' = allowed /\ candidates' = candidates
      /\ doubled' = doubled /\ configured' = configured /\ grants' = grants
  BY DEF Enter, world
<1>2. /\ index \in DOMAIN candidates /\ index \in Nat /\ Len(tried) = index - 1
      /\ Len(candidates) \in Nat /\ DOMAIN candidates = 1 .. Len(candidates)
      /\ Len(tried) \in Nat /\ DOMAIN tried = 1 .. Len(tried)
      /\ p \in Pools /\ p \in ToSet(candidates)
  <2>1. /\ index \in DOMAIN candidates /\ index \in Nat /\ Len(tried) = index - 1
        /\ candidates \in Seq(Pools) /\ tried \in Seq(Pools)
    BY <1>0, <1>1 DEF Turns, Types
  <2> QED  BY <2>1, SeqFacts
<1>3. Settled  BY <1>0, <1>1 DEF Lists
<1>4. CASE /\ Exempt \/ p \in grants
           /\ phase' = "inside" /\ tried' = Append(tried, p) /\ UNCHANGED <<index, status>>
  <2> DEFINE u == tried'
  <2>1. /\ u \in Seq(Pools) /\ Len(u) = index /\ DOMAIN u = 1 .. index
        /\ \A i \in 1 .. index - 1 : u[i] = tried[i]
        /\ u[index] = p
    <3>1. u = Append(tried, p) /\ tried \in Seq(Pools)  BY <1>0, <1>4 DEF Types
    <3>2. /\ u \in Seq(Pools) /\ Len(u) = Len(tried) + 1
          /\ \A i \in 1 .. Len(tried) : u[i] = tried[i]
          /\ u[Len(tried) + 1] = p /\ DOMAIN u = 1 .. Len(tried) + 1
      BY <1>2, <3>1
    <3>3. Len(tried) + 1 = index  BY <1>2
    <3> QED  BY <1>2, <3>2, <3>3
  <2> HIDE DEF u
  <2>2. Types'  BY <1>0, <1>1, <1>4, <2>1 DEF Types, u
  <2>3. \A i \in 1 .. index : u[i] = candidates[i]
    <3>1. \A i \in 1 .. index - 1 : tried[i] = candidates[i]
      BY <1>0, <1>2 DEF Turns
    <3>2. \A i \in 1 .. index : i \in 1 .. index - 1 \/ i = index  BY <1>2
    <3> QED  BY <2>1, <3>1, <3>2
  <2>4. Turns'
    <3>1. index <= Len(candidates) /\ index <= index  BY <1>2
    <3>2. index > 1 => AllowFailover  BY <1>0 DEF Turns
    <3>3. AllowFailover' <=> AllowFailover  BY <1>1 DEF AllowFailover
    <3> HIDE DEF AllowFailover
    <3> QED  BY <1>1, <1>2, <1>4, <2>1, <2>3, <3>1, <3>2, <3>3 DEF Turns, u
  <2>5. Lists'
    <3>1. Settled'  BY <1>1, <1>3 DEF Settled, Apart, Suits, Open, Wanted
    <3> QED  BY <1>4, <3>1 DEF Lists
  <2>6. Answered'  BY <1>4 DEF Answered
  <2>7. Granted'
    <3>1. {u[i] : i \in DOMAIN u} = Tried \cup {p}
      <4>1. \A i \in 1 .. index : i \in 1 .. index - 1 \/ i = index  BY <1>2
      <4>2. 1 .. index - 1 \subseteq 1 .. index /\ index \in 1 .. index  BY <1>2
      <4>3. DOMAIN tried = 1 .. index - 1  BY <1>2
      <4> QED  BY <2>1, <4>1, <4>2, <4>3 DEF Tried
    <3>2. Tried' = Tried \cup {p}  BY <3>1 DEF Tried, u
    <3>3. ~ Admin(req) => allowed \subseteq grants  BY <1>0 DEF Granted
    <3>4. Admin(req) \/ (req.bypass /\ req.direct # NoPool) \/ p \in grants
      <4>1. req.direct = NoPool => p \in allowed  BY <1>2, <1>3 DEF Settled
      <4> QED  BY <1>4, <3>3, <4>1 DEF Exempt
    <3>5. GrantedOnly'
      BY <1>0, <1>1, <3>2, <3>4 DEF Granted, GrantedOnly, Admin
    <3> QED  BY <1>1, <3>3, <3>5 DEF Granted, Admin
  <2> QED  BY <2>2, <2>4, <2>5, <2>6, <2>7 DEF GatewayInv
<1>5. CASE tried' = tried
  <2>1. PICK st \in {"not_found", "forbidden"} :
          AfterPool(st) /\ (st = "not_found" => p \notin configured \cap AtStart)
    <3>1. \/ p \notin configured \cap AtStart /\ AfterPool("not_found")
          \/ AfterPool("forbidden")
          \/ Into(p)
      <4> HIDE DEF AfterPool, Into
      <4> QED  BY DEF Enter
    <3>2. ~ Into(p)
      <4> SUFFICES ASSUME Into(p) PROVE FALSE  OBVIOUS
      <4>1. tried = Append(tried, p) /\ tried \in Seq(Pools)
        BY <1>0, <1>5 DEF Into, Types
      <4>2. Len(Append(tried, p)) = Len(tried) + 1  BY <1>2, <4>1
      <4>3. Len(tried) = Len(tried) + 1  BY <4>1, <4>2
      <4> QED  BY <1>2, <4>3
    <3> QED  BY <3>1, <3>2
  <2>2. Open => st # "not_found"
    <3> SUFFICES ASSUME Open PROVE p \in configured \cap AtStart  BY <2>1
    <3>1. "stt" \in Speaks[p]  BY <1>2, <1>3 DEF Settled, Suits, Open
    <3>2. p \in AtStart  BY <1>2, <3>1, GatewayAssumption
    <3> QED  BY <1>0, <3>2 DEF Types
  <2>3. st \in Statuses /\ st \notin Failover  BY DEF Statuses, Failover
  <2> QED  BY <1>1, <1>5, <2>1, <2>2, <2>3, TurnEnds
<1> QED  BY <1>4, <1>5 DEF Enter, Into

LEMMA GatewayStep == GatewayInv /\ [Next]_vars => GatewayInv'
<1> SUFFICES ASSUME GatewayInv, [Next]_vars PROVE GatewayInv'  OBVIOUS
<1>0. Types /\ Turns  BY DEF GatewayInv
<1>1. CASE CreatePool \/ LosePool \/ Grant \/ UNCHANGED vars
  <2>1. UNCHANGED handler
    BY <1>1 DEF CreatePool, LosePool, Grant, vars, handler
  <2>2. /\ configured' \in SUBSET Pools /\ AtStart \subseteq configured'
        /\ grants' \in SUBSET Pools /\ grants \subseteq grants'
    BY <1>0, <1>1 DEF CreatePool, LosePool, Grant, vars, world, Types
  <2> QED  BY <2>1, <2>2, WorldStep
<1>2. CASE Leave
  <2>1. phase = "inside" /\ UNCHANGED <<world, req, cfg, allowed, candidates, tried, doubled>>
    BY <1>2 DEF Leave
  <2>2. PICK st \in Failover \cup {"ok", "client_error"} : AfterPool(st)
    BY <1>2 DEF Leave
  <2>3. st \in Statuses /\ st # "not_found"  BY DEF Statuses, Failover
  <2>4. Len(tried) = index  BY <1>0, <2>1 DEF Turns
  <2> QED  BY <2>1, <2>2, <2>3, <2>4, TurnEnds
<1> QED
  BY <1>1, <1>2, LoadStep, ReadGrantsStep, ChooseStep, LookUpStep, FillStep, EnterStep
     DEF Next

LEMMA GatewayInvariant == Spec => []GatewayInv
BY GatewayInit, GatewayStep, PTL DEF Spec

-----------------------------------------------------------------------------
(* A request gets into pools at most as often as its list is long, which   *)
(* the number of providers and of pools bounds.                            *)
THEOREM GatewayTypes == Spec => []TypeOK
<1>1. GatewayInv => TypeOK
  <2> SUFFICES ASSUME GatewayInv PROVE TypeOK  OBVIOUS
  <2>0. Types /\ Turns /\ Lists  BY DEF GatewayInv
  <2>1. Len(tried) \in Nat /\ Len(candidates) \in Nat  BY <2>0 DEF Types
  <2>2. Cardinality(Providers) \in Nat /\ NumPools \in Nat
    BY FS_CardinalityType, GatewayAssumption
  <2>3. Len(tried) <= Cardinality(Providers) + NumPools
    <3>1. CASE phase \in {"new", "grants", "route", "fill"}
      <4>1. Len(tried) = 0  BY <2>0, <3>1 DEF Turns
      <4> QED  BY <2>2, <4>1
    <3>2. CASE phase \in {"enter", "inside", "done"}
      <4>1. Len(candidates) <= Cardinality(Providers) + NumPools
        BY <2>0, <3>2 DEF Lists, Settled
      <4>2. Len(tried) <= Len(candidates)  BY <2>0 DEF Turns
      <4> QED  BY <2>1, <2>2, <4>1, <4>2
    <3> QED  BY <2>0, <3>1, <3>2 DEF Types
  <2> QED  BY <2>0, <2>3 DEF Types, Turns, TypeOK
<1> QED  BY <1>1, GatewayInvariant, PTL

(* Nobody but an admin gets into a pool that was not granted, except under *)
(* the id "admin-bypass" into the pool the request is for.                 *)
THEOREM Grants == Spec => []GrantedOnly
<1>1. GatewayInv => GrantedOnly  BY DEF GatewayInv, Granted
<1> QED  BY <1>1, GatewayInvariant, PTL

(* A chat, a request for one pool and one that names its provider are sent *)
(* to one pool only.                                                       *)
THEOREM Replays == Spec => []NoUnwantedReplay
<1>1. GatewayInv => NoUnwantedReplay
  <2> SUFFICES ASSUME GatewayInv, Len(tried) > 1
               PROVE  /\ req.direct = NoPool /\ req.capability = "stt"
                      /\ req.explicit = NoProvider
    BY DEF NoUnwantedReplay
  <2>0. Types /\ Turns  BY DEF GatewayInv
  <2>1. Len(tried) \in Nat /\ index \in Nat /\ Len(tried) <= index
    BY <2>0 DEF Types, Turns
  <2>2. index > 1  BY <2>1
  <2>3. AllowFailover  BY <2>0, <2>2 DEF Turns
  <2>4. req.capability \in {"chat", "stt"}  BY <2>0, RequestFacts DEF Types
  <2> QED  BY <2>3, <2>4 DEF AllowFailover
<1> QED  BY <1>1, GatewayInvariant, PTL

(* No pool gets a request twice but one that the cached route names twice, *)
(* and that one not before another pool has had it.                        *)
THEOREM RepeatsAsRouted == Spec => []TwiceOnlyAsRouted
<1>1. GatewayInv => TwiceOnlyAsRouted
  <2> SUFFICES ASSUME GatewayInv, NEW i \in DOMAIN tried, NEW j \in DOMAIN tried,
                      i < j, tried[i] = tried[j]
               PROVE  tried[i] \in doubled /\ j > i + 1
    BY DEF TwiceOnlyAsRouted
  <2>0. Types /\ Turns /\ Lists  BY DEF GatewayInv
  <2>1. /\ Len(tried) \in Nat /\ DOMAIN tried = 1 .. Len(tried)
        /\ Len(candidates) \in Nat /\ DOMAIN candidates = 1 .. Len(candidates)
        /\ Len(tried) <= Len(candidates)
    BY <2>0 DEF Types, Turns
  <2>2. phase \in {"enter", "inside", "done"}
    <3>1. tried # <<>>  BY <2>1
    <3> QED  BY <2>0, <3>1 DEF Types, Turns
  <2>3. Apart(candidates, doubled)  BY <2>0, <2>2 DEF Lists, Settled
  <2>4. i \in DOMAIN candidates /\ j \in DOMAIN candidates  BY <2>1
  <2>5. tried[i] = candidates[i] /\ tried[j] = candidates[j]  BY <2>0 DEF Turns
  <2> QED  BY <2>3, <2>4, <2>5 DEF Apart
<1> QED  BY <1>1, GatewayInvariant, PTL

(* What the request got into is on its list.                               *)
LEMMA TriedListed ==
  ASSUME GatewayInv
  PROVE  /\ Tried \subseteq ToSet(candidates)
         /\ Len(tried) = Len(candidates) => ToSet(candidates) \subseteq Tried
         /\ Tried # {} => Settled
<1>0. Types /\ Turns /\ Lists  BY DEF GatewayInv
<1>1. /\ Len(tried) \in Nat /\ DOMAIN tried = 1 .. Len(tried)
      /\ Len(candidates) \in Nat /\ DOMAIN candidates = 1 .. Len(candidates)
      /\ Len(tried) <= Len(candidates)
      /\ \A i \in DOMAIN tried : tried[i] = candidates[i]
  BY <1>0 DEF Types, Turns
<1>2. DOMAIN tried \subseteq DOMAIN candidates  BY <1>1
<1>3. Tried \subseteq ToSet(candidates)  BY <1>1, <1>2 DEF Tried, ToSet
<1>4. Len(tried) = Len(candidates) => ToSet(candidates) \subseteq Tried
  BY <1>1 DEF Tried, ToSet
<1>5. Tried # {} => Settled
  <2>1. Tried # {} => tried # <<>>  BY <1>1 DEF Tried
  <2> QED  BY <1>0, <2>1 DEF Types, Turns, Lists
<1> QED  BY <1>3, <1>4, <1>5

(* A request gets only into pools that suit what it asked for.             *)
THEOREM Stays == Spec => []StaysWhereAsked
<1>1. GatewayInv => StaysWhereAsked
  <2> SUFFICES ASSUME GatewayInv PROVE StaysWhereAsked  OBVIOUS
  <2>1. \A p \in Tried : Suits(p)  BY TriedListed DEF Settled
  <2> QED  BY <2>1 DEF Suits, StaysWhereAsked
<1> QED  BY <1>1, GatewayInvariant, PTL

(* A transcription that fails has been to every pool it was allowed to.    *)
THEOREM TriesAll == Spec => []FailsOnlyAfterAll
<1>1. GatewayInv => FailsOnlyAfterAll
  <2> SUFFICES ASSUME GatewayInv, phase = "done", Open
               PROVE  /\ status # "not_found"
                      /\ status \in Failover => Wanted \subseteq Tried
    BY DEF FailsOnlyAfterAll, Open, Wanted
  <2>1. /\ status # "not_found"
        /\ status \in Failover => Len(tried) = Len(candidates)
    BY DEF GatewayInv, Answered
  <2>2. Wanted \subseteq ToSet(candidates)  BY DEF GatewayInv, Lists, Settled
  <2> QED  BY <2>1, <2>2, TriedListed
<1> QED  BY <1>1, GatewayInvariant, PTL

-----------------------------------------------------------------------------
(* A JWT is no other text: the two differ in their fields.                 *)
LEMMA JwtIsNoText == \A x, y : [jwt |-> x] # [text |-> y]
<1> SUFFICES ASSUME NEW x, NEW y, [jwt |-> x] = [text |-> y] PROVE FALSE
  OBVIOUS
<1>1. DOMAIN [jwt |-> x] = {"jwt"} /\ DOMAIN [text |-> y] = {"text"}
  OBVIOUS
<1> QED  BY <1>1

(* A token that registration made stands for its client, or for nobody,    *)
(* under any settings that are live later.                                 *)
LEMMA TokenNamesClient ==
  ASSUME NEW id \in ClientIds, NEW boot \in Boots,
         NEW live \in AuthConfig, NEW request \in Requesters,
         live.enabled, ~ HasAdminKey(live, request),
         Bears(request, Issued(boot, id))
  PROVE  Identify(live, boot, request) = Holder(boot, id)
<1> DEFINE token == Head(request.tokens)
<1>1. request.tokens # <<>> /\ token = [jwt |-> GenerateToken(boot, id)]
  BY DEF Bears, Issued
<1>2. GenerateToken(boot, id) \in Jwts
  BY DEF GenerateToken, Jwts, Boots, AuthConfig, Roles
<1>3. ~ HasMasterKey(live, token)  BY <1>1, JwtIsNoText DEF HasMasterKey
<1>4. token \in [jwt : Jwts] /\ token.jwt = GenerateToken(boot, id)
  BY <1>1, <1>2
<1>5. boot.enabled \in BOOLEAN  BY DEF Boots, AuthConfig
<1> HIDE DEF token
<1>6. ValidateToken(boot, token) = Holder(boot, id)
  BY <1>4, <1>5 DEF ValidateToken, GenerateToken, Holder
<1> QED  BY <1>1, <1>3, <1>6 DEF Identify, token

(* Somebody is an administrator for one of the reasons, and for each.      *)
LEMMA AdminsHaveReason ==
  ASSUME NEW boot \in Boots, NEW live \in AuthConfig, NEW request \in Requesters
  PROVE  Administers(Identify(live, boot, request))
           <=> ReasonToAdminister(boot, live, request)
<1> DEFINE token == Head(request.tokens)
<1>1. CASE ~ live.enabled \/ HasAdminKey(live, request)
  BY <1>1 DEF Administers, Identify, ReasonToAdminister, Claims
<1>2. CASE live.enabled /\ ~ HasAdminKey(live, request) /\ request.tokens = <<>>
  BY <1>2 DEF Administers, Identify, ReasonToAdminister, Claims, Rejected, Bears
<1>3. CASE /\ live.enabled /\ ~ HasAdminKey(live, request)
           /\ request.tokens # <<>> /\ HasMasterKey(live, token)
  <2>1. Bears(request, [text : {live.master_key} \ {NoKey}])
    BY <1>3 DEF Bears, HasMasterKey
  <2> QED  BY <1>3, <2>1 DEF Administers, Identify, ReasonToAdminister, Claims
<1>4. CASE /\ live.enabled /\ ~ HasAdminKey(live, request)
           /\ request.tokens # <<>> /\ ~ HasMasterKey(live, token)
  <2>1. Identify(live, boot, request) = ValidateToken(boot, token)
    BY <1>4 DEF Identify
  <2>2. ~ Bears(request, [text : {live.master_key} \ {NoKey}])
    BY <1>4 DEF Bears, HasMasterKey
  <2> DEFINE admins == Signed(boot, ClientIds, {"admin"})
  <2> DEFINE named == Signed(boot, ClientIds \cap {"admin-bypass"}, Roles)
  <2>3. ReasonToAdminister(boot, live, request)
          <=> boot.enabled /\ (token \in admins \/ token \in named)
    <3> HIDE DEF admins, named
    <3> QED  BY <1>4, <2>2 DEF ReasonToAdminister, Bears, admins, named
  <2>4. Administers(ValidateToken(boot, token))
          <=> boot.enabled /\ (token \in admins \/ token \in named)
    <3> HIDE DEF token
    <3>0. boot.signer \in Signers /\ boot.enabled \in BOOLEAN
      BY DEF Boots, AuthConfig
    <3>1. CASE ~ boot.enabled
      BY <3>1 DEF ValidateToken, Administers, Claims
    <3>2. CASE boot.enabled /\ token \in [jwt : Jwts]
      <4>1. /\ token.jwt.sub \in ClientIds /\ token.jwt.fresh \in BOOLEAN
            /\ token.jwt.role \in Roles
        BY <3>2 DEF Jwts
      <4>2. token \in admins <=> /\ token.jwt.role = "admin" /\ token.jwt.fresh
                                 /\ token.jwt.signer = boot.signer
        BY <3>2 DEF Jwts, Signed
      <4>3. token \in named <=> /\ token.jwt.sub = "admin-bypass" /\ token.jwt.fresh
                                /\ token.jwt.signer = boot.signer
        BY <3>2 DEF Jwts, Signed
      <4> HIDE DEF admins, named
      <4>5. CASE token.jwt.signer = boot.signer /\ token.jwt.fresh
        <5>1. ValidateToken(boot, token) = Claims(token.jwt.sub, token.jwt.role)
          BY <3>2, <4>5 DEF ValidateToken
        <5> QED  BY <3>2, <4>2, <4>3, <4>5, <5>1 DEF Administers, Claims
      <4>6. CASE ~ (token.jwt.signer = boot.signer /\ token.jwt.fresh)
        <5>1. ValidateToken(boot, token) = Rejected
          BY <3>2, <4>6 DEF ValidateToken
        <5> QED  BY <4>2, <4>3, <4>6, <5>1 DEF Administers, Claims, Rejected
      <4> QED  BY <4>5, <4>6
    <3>3. CASE boot.enabled /\ token \notin [jwt : Jwts]
      <4>1. token \notin admins /\ token \notin named
        BY <3>0, <3>3 DEF Jwts, Signed, Roles
      <4>2. ValidateToken(boot, token) = Rejected  BY <3>3 DEF ValidateToken
      <4> QED  BY <4>1, <4>2 DEF Administers, Claims, Rejected
    <3> QED  BY <3>0, <3>1, <3>2, <3>3
  <2> QED  BY <2>1, <2>3, <2>4
<1>5. live.enabled \in BOOLEAN  BY DEF AuthConfig
<1> QED  BY <1>1, <1>2, <1>3, <1>4, <1>5

(* No request has its role because the token of a client was misread.      *)
THEOREM TokensHold == Spec => []IssuedTokensHold
<1>1. Misread = {}  BY TokenNamesClient DEF Misread
<1>2. IssuedTokensHold  BY <1>1 DEF IssuedTokensHold
<1> QED  BY <1>2, PTL

(* No request has its role for a reason that is not listed.                *)
THEOREM Admins == Spec => []AdminsExplained
<1>1. Unexplained = {}  BY AdminsHaveReason DEF Unexplained
<1>2. AdminsExplained  BY <1>1 DEF AdminsExplained
<1> QED  BY <1>2, PTL
=============================================================================
