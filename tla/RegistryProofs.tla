--------------------------- MODULE RegistryProofs ---------------------------
(***************************************************************************)
(* What holds of the registry for any pools, providers and models, and any *)
(* edits of the configuration between two starts.                          *)
(***************************************************************************)
EXTENDS RegistryChecks, OrderingProofs

LEMMA ConstantFacts ==
  /\ Pools \subseteq Nat /\ IsFiniteSet(Pools)
  /\ Providers \subseteq Nat /\ IsFiniteSet(Keys)
  /\ \A ms \in SUBSET Models : ms # NotSynced
<1>1. IsFiniteSet(Pools)  BY FS_Interval, RegistryAssumption DEF Pools
<1>2. IsFiniteSet(Keys)  BY FS_Product, RegistryAssumption DEF Keys
<1> QED  BY <1>1, <1>2, RegistryAssumption DEF Pools

(* The first pool still to do, in the order of the configuration.          *)
LEMMA CurrentFacts ==
  ASSUME todo \subseteq Pools, todo # {}
  PROVE  Current \in todo /\ \A q \in todo : Current <= q
<1>1. todo \subseteq Nat /\ IsFiniteSet(todo)
  BY ConstantFacts, FS_Subset
<1>2. \E x \in todo : \A q \in todo : x <= q
  BY <1>1, Least
<1> QED  BY <1>2 DEF Current

-----------------------------------------------------------------------------
(* The configurations: what has come since the start has priority 0.       *)
ConfigInv ==
  /\ IsConfig(config) /\ IsConfig(plan)
  /\ started \subseteq DOMAIN config
  /\ \A p \in DOMAIN config \ started : config[p].priority = 0

LEMMA ConfigFacts ==
  ASSUME NEW c, IsConfig(c)
  PROVE  /\ DOMAIN c \subseteq Pools /\ SyncPlan(c) \subseteq DOMAIN c
         /\ \A p \in DOMAIN c : c[p] \in PoolConfig /\ c[p].provider \in Providers
                                /\ c[p].priority \in Int
<1>1. DOMAIN c \subseteq Pools /\ \A p \in DOMAIN c : c[p] \in PoolConfig
  BY DEF IsConfig
<1>2. SyncPlan(c) \subseteq DOMAIN c  BY DEF SyncPlan
<1> QED  BY <1>1, <1>2 DEF PoolConfig

LEMMA ConfigInit == Init => ConfigInv
BY RegistryAssumption DEF Init, ConfigInv

LEMMA ConfigStep == ConfigInv /\ [Next]_vars => ConfigInv'
<1> SUFFICES ASSUME ConfigInv, [Next]_vars PROVE ConfigInv'  OBVIOUS
<1> USE DEF ConfigInv
<1>1. CASE UNCHANGED configs
  BY <1>1 DEF configs, IsConfig
<1>2. CASE StartSync
  BY <1>2 DEF StartSync, IsConfig
<1>3. CASE CreatePool
  <2>1. PICK p \in Pools, provider \in Providers :
          /\ \A q \in DOMAIN config : q < p
          /\ config' = [q \in DOMAIN config \cup {p} |->
                          IF q = p THEN CreatedPool(provider) ELSE config[q]]
    BY <1>3 DEF CreatePool
  <2>2. plan' = plan /\ started' = started  BY <1>3 DEF CreatePool
  <2>3. CreatedPool(provider) \in PoolConfig /\ CreatedPool(provider).priority = 0
    BY DEF CreatedPool, PoolConfig
  <2>4. p \notin DOMAIN config
    <3>1. p \in Nat /\ ~ (p < p)  BY ConstantFacts
    <3> QED  BY <2>1, <3>1
  <2>5. /\ DOMAIN config' = DOMAIN config \cup {p}
        /\ config'[p] = CreatedPool(provider)
        /\ \A q \in DOMAIN config : config'[q] = config[q]
    BY <2>1, <2>4
  <2>6. IsConfig(config)'
    <3>1. \A q \in DOMAIN config \cup {p} :
            (IF q = p THEN CreatedPool(provider) ELSE config[q]) \in PoolConfig
      BY <2>3, ConfigFacts
    <3>2. config' \in [DOMAIN config \cup {p} -> PoolConfig]  BY <2>1, <3>1
    <3> QED  BY <2>5, <3>2 DEF IsConfig
  <2> QED  BY <2>2, <2>3, <2>5, <2>6 DEF IsConfig
<1>4. CASE LosePool
  <2>1. PICK p \in DOMAIN config \ started :
          config' = [q \in DOMAIN config \ {p} |-> config[q]]
    BY <1>4 DEF LosePool
  <2>2. plan' = plan /\ started' = started  BY <1>4 DEF LosePool
  <2>3. /\ DOMAIN config' = DOMAIN config \ {p}
        /\ \A q \in DOMAIN config \ {p} : config'[q] = config[q]
    BY <2>1
  <2>4. IsConfig(config)'  BY <2>1, <2>3 DEF IsConfig
  <2> QED  BY <2>2, <2>3, <2>4 DEF IsConfig
<1>5. CASE Restart
  BY <1>5, RegistryAssumption DEF Restart
<1> QED
  BY <1>1, <1>2, <1>3, <1>4, <1>5
  DEF Next, MarkStale, Store, FetchFails, PlanDone, CleanUp, Rebuild, vars, configs

(* Only an edit of config.yaml changes the priority of a pool.             *)
LEMMA PrioritiesKept ==
  ASSUME ConfigInv, config' = config \/ CreatePool \/ LosePool
  PROVE  \A p : PriorityOf(p)' = PriorityOf(p)
<1>1. CASE config' = config  BY <1>1 DEF PriorityOf
<1>2. CASE CreatePool
  <2>1. PICK p \in Pools, provider \in Providers :
          /\ \A q \in DOMAIN config : q < p
          /\ config' = [q \in DOMAIN config \cup {p} |->
                          IF q = p THEN CreatedPool(provider) ELSE config[q]]
    BY <1>2 DEF CreatePool
  <2>2. p \notin DOMAIN config
    <3>1. p \in Nat /\ ~ (p < p)  BY ConstantFacts
    <3> QED  BY <2>1, <3>1
  <2>3. CreatedPool(provider).priority = 0  BY DEF CreatedPool
  <2> QED  BY <2>1, <2>2, <2>3 DEF PriorityOf
<1>3. CASE LosePool
  <2>1. PICK p \in DOMAIN config \ started :
          config' = [q \in DOMAIN config \ {p} |-> config[q]]
    BY <1>3 DEF LosePool
  <2>2. config[p].priority = 0  BY <2>1 DEF ConfigInv
  <2> QED  BY <2>1, <2>2 DEF PriorityOf
<1> QED  BY <1>1, <1>2, <1>3

-----------------------------------------------------------------------------
(* The table: a row has the date its model was last stored.                *)
Dates == \A k \in Keys : rows[k] # NoRow => rows[k].fetched_at = seen[k]

TableInv ==
  /\ ConfigInv
  /\ rows \in [Keys -> Row \cup {NoRow}]
  /\ now \in 0 .. MaxTime
  /\ pc \in {"mark", "store", "cleanup", "rebuild", "idle"}
  /\ todo \subseteq DOMAIN plan
  /\ pc = "store" => todo # {}
  /\ found \in [Pools -> (SUBSET Models) \cup {NotSynced}]
  /\ rebuilt \in BOOLEAN
  /\ seen \in [Keys -> -1 .. MaxTime]
  /\ Dates
  /\ KeptForADay

(* The pools a pass still has to do.                                       *)
LEMMA TodoFacts ==
  ASSUME TableInv
  PROVE  /\ todo \subseteq Pools
         /\ todo # {} => /\ Current \in todo /\ \A q \in todo : Current <= q
                         /\ Current \in Pools /\ ProviderOf(Current) \in Providers
<1>1. todo \subseteq Pools /\ todo \subseteq DOMAIN plan
  BY ConfigFacts DEF TableInv, ConfigInv
<1>2. todo # {} => Current \in todo /\ \A q \in todo : Current <= q
  BY <1>1, CurrentFacts
<1>3. \A p \in DOMAIN plan : ProviderOf(p) \in Providers
  BY ConfigFacts DEF TableInv, ConfigInv, ProviderOf
<1> QED  BY <1>1, <1>2, <1>3

LEMMA TableInit == Init => TableInv
<1> SUFFICES ASSUME Init PROVE TableInv  OBVIOUS
<1>1. ConfigInv /\ SyncPlan(FirstConfig) \subseteq DOMAIN FirstConfig
  BY ConfigInit DEF SyncPlan
<1>2. MaxTime \in Nat  BY RegistryAssumption
<1>3. /\ rows = [k \in Keys |-> NoRow] /\ seen = [k \in Keys |-> -1]
      /\ plan = FirstConfig /\ now = 0 /\ pc = "mark" /\ rebuilt = FALSE
      /\ todo = SyncPlan(FirstConfig) /\ found = [p \in Pools |-> NotSynced]
  BY DEF Init, NothingFound
<1>4. Dates /\ KeptForADay  BY <1>3 DEF Dates, KeptForADay
<1>5. seen \in [Keys -> -1 .. MaxTime]  BY <1>2, <1>3
<1>6. rows \in [Keys -> Row \cup {NoRow}] /\ now \in 0 .. MaxTime
  BY <1>2, <1>3
<1>7. found \in [Pools -> (SUBSET Models) \cup {NotSynced}]
  BY <1>3
<1> QED  BY <1>1, <1>3, <1>4, <1>5, <1>6, <1>7 DEF TableInv

LEMMA RowFacts ==
  ASSUME NEW r \in Row
  PROVE  /\ r.pool \in Pools /\ r.is_stale \in BOOLEAN /\ r.fetched_at \in 0 .. MaxTime
         /\ r # NoRow
         /\ [r EXCEPT !.is_stale = TRUE] \in Row
         /\ [r EXCEPT !.is_stale = TRUE] # NoRow
         /\ [r EXCEPT !.is_stale = TRUE].pool = r.pool
         /\ [r EXCEPT !.is_stale = TRUE].fetched_at = r.fetched_at
         /\ [r EXCEPT !.is_stale = TRUE].is_stale
BY NoRowAssumption DEF Row

(* The effect of MarkStale on a row.                                       *)
LEMMA Marked ==
  ASSUME TableInv, NEW provider,
         rows' = [k \in Keys |-> IF k[1] = provider /\ rows[k] # NoRow
                                 THEN [rows[k] EXCEPT !.is_stale = TRUE] ELSE rows[k]]
  PROVE  /\ rows' \in [Keys -> Row \cup {NoRow}]
         /\ \A k \in Keys :
              /\ rows'[k] = NoRow <=> rows[k] = NoRow
              /\ rows[k] # NoRow => /\ rows'[k].fetched_at = rows[k].fetched_at
                                    /\ rows'[k].pool = rows[k].pool
              /\ k[1] # provider => rows'[k] = rows[k]
              /\ k[1] = provider /\ rows[k] # NoRow => rows'[k].is_stale
<1>1. \A k \in Keys : rows[k] # NoRow => rows[k] \in Row  BY DEF TableInv
<1> QED  BY <1>1, RowFacts

LEMMA TableStep == TableInv /\ [Next]_vars => TableInv'
<1> SUFFICES ASSUME TableInv, [Next]_vars PROVE TableInv'  OBVIOUS
<1> USE DEF TableInv
<1>0. MaxTime \in Nat /\ Day \in Nat /\ ConfigInv'
  BY RegistryAssumption, ConfigStep
<1>1. CASE rows' = rows /\ seen' = seen /\ now' = now /\ found' = found
           /\ rebuilt' = rebuilt /\ todo' \subseteq DOMAIN plan'
           /\ (pc' = "store" => todo' # {})
           /\ pc' \in {"mark", "store", "cleanup", "rebuild", "idle"}
  BY <1>0, <1>1 DEF Dates, KeptForADay
<1>2. CASE MarkStale
  <2>1. /\ now' = now /\ seen' = seen /\ found' = found /\ rebuilt' = rebuilt
        /\ todo' \subseteq DOMAIN plan' /\ (pc' = "store" => todo' # {})
        /\ pc' \in {"mark", "store"}
    BY <1>2 DEF MarkStale, NextPool, history, configs
  <2>2. CASE rows' = rows  BY <1>1, <2>1, <2>2
  <2>3. CASE rows' # rows
    <3>1. rows' = [k \in Keys |-> IF k[1] = ProviderOf(Current) /\ rows[k] # NoRow
                                  THEN [rows[k] EXCEPT !.is_stale = TRUE] ELSE rows[k]]
      BY <1>2, <2>3 DEF MarkStale
    <3>2. /\ rows' \in [Keys -> Row \cup {NoRow}]
          /\ \A k \in Keys :
               /\ rows'[k] = NoRow <=> rows[k] = NoRow
               /\ rows[k] # NoRow => /\ rows'[k].fetched_at = rows[k].fetched_at
                                     /\ rows'[k].pool = rows[k].pool
               /\ k[1] # ProviderOf(Current) => rows'[k] = rows[k]
               /\ k[1] = ProviderOf(Current) /\ rows[k] # NoRow => rows'[k].is_stale
      <4> HIDE DEF TableInv
      <4> QED  BY <3>1, Marked
    <3>3. Dates' /\ KeptForADay'  BY <2>1, <3>2 DEF Dates, KeptForADay
    <3> QED  BY <1>0, <2>1, <3>2, <3>3
  <2> QED  BY <2>2, <2>3
<1>3. ASSUME NEW ms \in SUBSET Models, Store(ms) PROVE TableInv'
  <2> DEFINE p == Current
  <2> DEFINE stored == {ProviderOf(p)} \X ms
  <2>1. p \in Pools
    <3> HIDE DEF TableInv
    <3>1. TableInv => todo # {}  BY <1>3 DEF Store, TableInv
    <3> QED  BY <3>1, TodoFacts
  <2>2. /\ rows' = [k \in Keys |-> IF k \in stored THEN StoredRow(p, k) ELSE rows[k]]
        /\ seen' = [k \in Keys |-> IF k \in stored THEN now ELSE seen[k]]
        /\ found' = [found EXCEPT ![p] = ms]
        /\ now' = now /\ rebuilt' = rebuilt
        /\ pc' = "mark" /\ todo' \subseteq DOMAIN plan'
    BY <1>3 DEF Store, NextPool, configs
  <2> HIDE DEF p, stored
  <2>4. \A k \in Keys : /\ StoredRow(p, k) \in Row /\ StoredRow(p, k) # NoRow
                        /\ StoredRow(p, k).fetched_at = now
                        /\ StoredRow(p, k).pool = p
    <3> SUFFICES ASSUME NEW k \in Keys
                 PROVE  /\ StoredRow(p, k) \in Row /\ StoredRow(p, k) # NoRow
                        /\ StoredRow(p, k).fetched_at = now
                        /\ StoredRow(p, k).pool = p
      OBVIOUS
    <3>1. StoredRow(p, k) = [pool |-> p, is_stale |-> FALSE, fetched_at |-> now]
      BY DEF StoredRow
    <3>2. StoredRow(p, k) \in Row  BY <2>1, <3>1 DEF Row
    <3>3. StoredRow(p, k) # NoRow  BY <3>2, NoRowAssumption
    <3>4. StoredRow(p, k).fetched_at = now /\ StoredRow(p, k).pool = p
      BY <3>1
    <3> QED  BY <3>2, <3>3, <3>4
  <2>5. /\ rows' \in [Keys -> Row \cup {NoRow}]
        /\ seen' \in [Keys -> -1 .. MaxTime]
        /\ found' \in [Pools -> (SUBSET Models) \cup {NotSynced}]
    <3>1. rows' \in [Keys -> Row \cup {NoRow}]  BY <2>2, <2>4
    <3>2. seen' \in [Keys -> -1 .. MaxTime]  BY <1>0, <2>2
    <3>3. found' \in [Pools -> (SUBSET Models) \cup {NotSynced}]  BY <2>2
    <3> QED  BY <3>1, <3>2, <3>3
  <2>6. Dates'
    <3> SUFFICES ASSUME NEW k \in Keys, rows'[k] # NoRow
                 PROVE  rows'[k].fetched_at = seen'[k]
      BY DEF Dates
    <3>1. CASE k \in stored  BY <2>2, <2>4, <3>1
    <3>2. CASE k \notin stored  BY <2>2, <3>2 DEF Dates
    <3> QED  BY <3>1, <3>2
  <2>7. KeptForADay'
    <3> SUFFICES ASSUME NEW k \in Keys, seen'[k] >= 0, now - seen'[k] <= Day
                 PROVE  rows'[k] # NoRow
      BY <2>2 DEF KeptForADay
    <3>1. CASE k \in stored  BY <2>2, <2>4, <3>1
    <3>2. CASE k \notin stored  BY <2>2, <3>2 DEF KeptForADay
    <3> QED  BY <3>1, <3>2
  <2> QED  BY <1>0, <2>2, <2>5, <2>6, <2>7
<1>4. CASE FetchFails
  <2>1. /\ rows' = rows /\ seen' = seen /\ now' = now /\ rebuilt' = rebuilt
        /\ todo' \subseteq DOMAIN plan' /\ pc' = "mark"
        /\ found' = [found EXCEPT ![Current] = {}]
    BY <1>4 DEF FetchFails, NextPool, configs
  <2>2. found' \in [Pools -> (SUBSET Models) \cup {NotSynced}]  BY <2>1
  <2> QED  BY <1>0, <2>1, <2>2 DEF Dates, KeptForADay
<1>5. CASE PlanDone \/ CreatePool \/ LosePool \/ UNCHANGED vars
  BY <1>1, <1>5 DEF PlanDone, CreatePool, LosePool, sync, history, configs, vars
<1>6. CASE CleanUp
  <2>1. /\ now' = now /\ seen' = seen /\ found' = found /\ rebuilt' = rebuilt
        /\ todo' = todo /\ plan' = plan /\ pc' = "rebuild"
    BY <1>6 DEF CleanUp, history, configs
  <2>2. CASE rows' = rows  BY <1>1, <2>1, <2>2
  <2>3. CASE rows' # rows
    <3>1. \A k \in Keys : \/ rows'[k] = rows[k]
                          \/ /\ rows[k] # NoRow /\ now - rows[k].fetched_at > Day
                             /\ rows'[k] = NoRow
      BY <1>6, <2>3 DEF CleanUp
    <3>2. rows' \in [Keys -> Row \cup {NoRow}]
      BY <1>6, <2>3 DEF CleanUp
    <3>3. Dates'  BY <2>1, <3>1 DEF Dates
    <3>4. KeptForADay'
      <4> SUFFICES ASSUME NEW k \in Keys, seen[k] >= 0, now - seen[k] <= Day
                   PROVE  rows'[k] # NoRow
        BY <2>1 DEF KeptForADay
      <4>1. rows[k] # NoRow /\ rows[k].fetched_at = seen[k]
        BY DEF KeptForADay, Dates
      <4>2. now - seen[k] \in Int  OBVIOUS
      <4> QED  BY <1>0, <3>1, <4>1, <4>2
    <3> QED  BY <1>0, <2>1, <3>2, <3>3, <3>4
  <2> QED  BY <2>2, <2>3
<1>7. CASE Rebuild
  BY <1>0, <1>7 DEF Rebuild, configs, Dates, KeptForADay
<1>8. CASE StartSync
  <2>1. /\ rows' = rows /\ seen' = seen /\ now' = now + 1 /\ rebuilt' = rebuilt
        /\ pc' = "mark" /\ todo' \subseteq DOMAIN plan'
        /\ found' = NothingFound /\ now' \in 0 .. MaxTime
    BY <1>0, <1>8 DEF StartSync, SyncPlan
  <2>2. found' \in [Pools -> (SUBSET Models) \cup {NotSynced}]
    BY <2>1 DEF NothingFound
  <2>3. KeptForADay'
    <3> SUFFICES ASSUME NEW k \in Keys, seen[k] >= 0, now + 1 - seen[k] <= Day
                 PROVE  rows[k] # NoRow
      BY <2>1 DEF KeptForADay
    <3>1. now - seen[k] <= Day  BY <1>0
    <3> QED  BY <3>1 DEF KeptForADay
  <2>4. Dates'  BY <2>1 DEF Dates
  <2> QED  BY <1>0, <2>1, <2>2, <2>3, <2>4
<1>10. CASE Restart
  <2>1. todo' \subseteq DOMAIN plan'
    BY <1>10 DEF Restart, SyncPlan
  <2>2. /\ rows' = rows /\ seen' = seen /\ now' = now /\ rebuilt' = FALSE
        /\ pc' = "mark" /\ found' = NothingFound
    BY <1>10 DEF Restart
  <2>3. found' \in [Pools -> (SUBSET Models) \cup {NotSynced}]
    BY <2>2 DEF NothingFound
  <2> QED  BY <1>0, <2>1, <2>2, <2>3 DEF Dates, KeptForADay
<1> QED
  BY <1>2, <1>3, <1>4, <1>5, <1>6, <1>7, <1>8, <1>10 DEF Next

LEMMA TableInvariant == Spec => []TableInv
BY TableInit, TableStep, PTL DEF Spec

(* No failed call, restart or edit loses a row within a day of the last    *)
(* time its model was found.                                               *)
THEOREM Keeps == Spec => []KeptForADay
<1>1. TableInv => KeptForADay  BY DEF TableInv
<1> QED  BY <1>1, TableInvariant, PTL

-----------------------------------------------------------------------------
(* A pass: it goes through the pools of its configuration in their order;  *)
(* between the two statements for a pool all rows of its provider are      *)
(* stale; the fresh rows of a provider it has reached are what it found;   *)
(* and all it found is there.                                              *)
Fresh(k) == rows[k] # NoRow /\ ~ rows[k].is_stale

InTurn ==
  /\ todo \subseteq DOMAIN plan
  /\ \A p \in Pools : found[p] # NotSynced =>
       p \in DOMAIN plan /\ \A q \in todo : p < q

Wiped ==
  pc = "store" => \A k \in Keys : k[1] = ProviderOf(Current) => ~ Fresh(k)

OnlyFound ==
  \A k \in Keys : Fresh(k) =>
    k[2] \in FoundBy(rows[k].pool) \/ SyncedOf(k[1]) = {}

AllFound ==
  \A p \in Pools : LastOfProvider(p) => \A m \in FoundBy(p) :
    \/ pc = "store" /\ ProviderOf(Current) = ProviderOf(p)
    \/ Fresh(<<ProviderOf(p), m>>) /\ rows[<<ProviderOf(p), m>>].pool = p

PassInv == TableInv /\ InTurn /\ Wiped /\ OnlyFound /\ AllFound

LEMMA FoundFacts ==
  ASSUME TableInv, NEW p \in Pools
  PROVE  /\ FoundBy(p) \subseteq Models
         /\ found[p] = NotSynced => FoundBy(p) = {}
         /\ found[p] # NotSynced => FoundBy(p) = found[p]
BY DEF TableInv, FoundBy

LEMMA KeyFacts ==
  /\ \A k \in Keys : k[1] \in Providers /\ k[2] \in Models /\ k = <<k[1], k[2]>>
  /\ \A x \in Providers, m \in Models :
       <<x, m>> \in Keys /\ <<x, m>>[1] = x /\ <<x, m>>[2] = m
BY ConstantFacts DEF Keys

LEMMA FreshRow ==
  ASSUME TableInv, NEW k \in Keys, Fresh(k)
  PROVE  rows[k].pool \in Pools
<1>1. rows[k] # NoRow /\ rows[k] \in Row  BY DEF TableInv, Fresh
<1> QED  BY <1>1, RowFacts

(* A pool the pass has reached is in its configuration.                    *)
LEMMA Reached ==
  ASSUME TableInv, InTurn, NEW p \in Pools, found[p] # NotSynced
  PROVE  ProviderOf(p) \in Providers
<1>1. p \in DOMAIN plan  BY DEF InTurn
<1> QED  BY <1>1, ConfigFacts DEF TableInv, ConfigInv, ProviderOf

(* What the properties say of a pass, when the pass stays the same.        *)
LEMMA SamePass ==
  ASSUME found' = found, plan' = plan
  PROVE  /\ \A p \in Pools : FoundBy(p)' = FoundBy(p)
         /\ \A x : SyncedOf(x)' = SyncedOf(x)
         /\ \A p \in Pools : LastOfProvider(p)' <=> LastOfProvider(p)
         /\ \A p : ProviderOf(p)' = ProviderOf(p)
BY DEF FoundBy, SyncedOf, LastOfProvider, ProviderOf

LEMMA PassInit == Init => PassInv
<1> SUFFICES ASSUME Init PROVE PassInv  OBVIOUS
<1>1. TableInv  BY TableInit
<1>2. /\ rows = [k \in Keys |-> NoRow] /\ pc = "mark"
      /\ todo \subseteq DOMAIN plan /\ found = [p \in Pools |-> NotSynced]
  BY DEF Init, NothingFound, SyncPlan
<1>3. \A k \in Keys : ~ Fresh(k)  BY <1>2 DEF Fresh
<1>4. InTurn /\ Wiped /\ OnlyFound  BY <1>2, <1>3 DEF InTurn, Wiped, OnlyFound
<1>5. AllFound  BY <1>2 DEF AllFound, LastOfProvider
<1> QED  BY <1>1, <1>4, <1>5 DEF PassInv

(* A new pass, also of a new process: what is in the table is old.         *)
LEMMA PassStarts ==
  ASSUME TableInv, TableInv', rows' = rows, pc' = "mark", found' = NothingFound,
         todo' \subseteq DOMAIN plan'
  PROVE  PassInv'
<1>1. \A p \in Pools : found'[p] = NotSynced  BY DEF NothingFound
<1>2. InTurn' /\ Wiped' /\ OnlyFound'
  BY <1>1 DEF InTurn, Wiped, OnlyFound, SyncedOf
<1>4. AllFound'  BY <1>1 DEF AllFound, LastOfProvider
<1> QED  BY <1>2, <1>4 DEF PassInv

(* Steps that leave the fresh rows and what was found.                     *)
LEMMA PassGoesOn ==
  ASSUME PassInv, TableInv', found' = found, pc # "store", pc' # "store",
         todo' \subseteq todo, plan' = plan,
         \A k \in Keys : Fresh(k)' <=> Fresh(k),
         \A k \in Keys : Fresh(k) => rows'[k] = rows[k]
  PROVE  PassInv'
<1>1. /\ \A p \in Pools : FoundBy(p)' = FoundBy(p)
      /\ \A x : SyncedOf(x)' = SyncedOf(x)
      /\ \A p \in Pools : LastOfProvider(p)' <=> LastOfProvider(p)
      /\ \A p : ProviderOf(p)' = ProviderOf(p)
  BY SamePass
<1>2. \A k \in Keys : Fresh(k) => rows[k].pool \in Pools
  BY FreshRow DEF PassInv
<1>3. InTurn' /\ Wiped'  BY DEF PassInv, InTurn, Wiped
<1>4. OnlyFound'  BY <1>1, <1>2 DEF PassInv, OnlyFound
<1>5. AllFound'
  <2> SUFFICES ASSUME NEW p \in Pools, LastOfProvider(p)', NEW m \in FoundBy(p)'
               PROVE  /\ Fresh(<<ProviderOf(p), m>>)'
                      /\ rows[<<ProviderOf(p), m>>].pool' = p
    BY DEF AllFound
  <2>1. /\ LastOfProvider(p) /\ m \in FoundBy(p) /\ m \in Models
        /\ ProviderOf(p)' = ProviderOf(p)
    BY <1>1, FoundFacts DEF PassInv
  <2>2. <<ProviderOf(p), m>> \in Keys
    BY <2>1, KeyFacts, Reached DEF PassInv, LastOfProvider
  <2>3. Fresh(<<ProviderOf(p), m>>) /\ rows[<<ProviderOf(p), m>>].pool = p
    BY <2>1 DEF PassInv, AllFound
  <2> QED  BY <2>1, <2>2, <2>3
<1> QED  BY <1>3, <1>4, <1>5 DEF PassInv

(* The rows of the current pool's provider are wiped.                      *)
LEMMA PassMarks == PassInv /\ MarkStale /\ TableInv' => PassInv'
<1> SUFFICES ASSUME PassInv, MarkStale, TableInv' PROVE PassInv'  OBVIOUS
<1>0. TableInv  BY DEF PassInv
<1>1. /\ pc = "mark" /\ found' = found /\ plan' = plan
      /\ todo' \subseteq todo
  BY DEF MarkStale, NextPool, history, configs
<1>2. CASE rows' = rows /\ pc' = "mark"
  <2>1. \A k \in Keys : Fresh(k)' <=> Fresh(k)  BY <1>2 DEF Fresh
  <2> QED  BY <1>1, <1>2, <2>1, PassGoesOn
<1>3. CASE /\ rows' = [k \in Keys |->
                         IF k[1] = ProviderOf(Current) /\ rows[k] # NoRow
                         THEN [rows[k] EXCEPT !.is_stale = TRUE] ELSE rows[k]]
           /\ pc' = "store" /\ todo' = todo
  <2> DEFINE provider == ProviderOf(Current)
  <2>1. \A k \in Keys :
          /\ rows'[k] = NoRow <=> rows[k] = NoRow
          /\ rows[k] # NoRow => /\ rows'[k].fetched_at = rows[k].fetched_at
                                /\ rows'[k].pool = rows[k].pool
          /\ k[1] # provider => rows'[k] = rows[k]
          /\ k[1] = provider /\ rows[k] # NoRow => rows'[k].is_stale
    <3>1. rows' = [k \in Keys |-> IF k[1] = provider /\ rows[k] # NoRow
                                  THEN [rows[k] EXCEPT !.is_stale = TRUE] ELSE rows[k]]
      BY <1>3
    <3> HIDE DEF provider
    <3> QED  BY <1>0, <3>1, Marked
  <2>2. ProviderOf(Current)' = provider  BY <1>1, <1>3 DEF Current, ProviderOf
  <2> HIDE DEF provider
  <2>3. /\ \A k \in Keys : k[1] = provider => ~ Fresh(k)'
        /\ \A k \in Keys : k[1] # provider => rows'[k] = rows[k] /\ (Fresh(k)' <=> Fresh(k))
    BY <2>1 DEF Fresh
  <2>4. /\ \A p \in Pools : FoundBy(p)' = FoundBy(p)
        /\ \A x : SyncedOf(x)' = SyncedOf(x)
        /\ \A p \in Pools : LastOfProvider(p)' <=> LastOfProvider(p)
        /\ \A p : ProviderOf(p)' = ProviderOf(p)
    BY <1>1, SamePass
  <2>5. InTurn'  BY <1>1, <1>3 DEF PassInv, InTurn
  <2>6. Wiped'  BY <2>2, <2>3 DEF Wiped
  <2>7. OnlyFound'
    <3>1. \A k \in Keys : Fresh(k) => rows[k].pool \in Pools
      BY <1>0, FreshRow
    <3> QED  BY <1>1, <2>3, <2>4, <3>1 DEF PassInv, OnlyFound
  <2>8. AllFound'
    <3> SUFFICES ASSUME NEW p \in Pools, LastOfProvider(p)', NEW m \in FoundBy(p)',
                        provider # ProviderOf(p)'
                 PROVE  /\ Fresh(<<ProviderOf(p), m>>)'
                        /\ rows[<<ProviderOf(p), m>>].pool' = p
      BY <1>3, <2>2 DEF AllFound
    <3>1. /\ LastOfProvider(p) /\ m \in FoundBy(p) /\ m \in Models
          /\ ProviderOf(p)' = ProviderOf(p)
      BY <1>0, <2>4, FoundFacts
    <3>2. <<ProviderOf(p), m>> \in Keys /\ <<ProviderOf(p), m>>[1] # provider
      BY <3>1, KeyFacts, Reached DEF PassInv, LastOfProvider
    <3>3. Fresh(<<ProviderOf(p), m>>) /\ rows[<<ProviderOf(p), m>>].pool = p
      BY <1>1, <3>1 DEF PassInv, AllFound
    <3> QED  BY <2>3, <3>1, <3>2, <3>3
  <2> QED  BY <2>5, <2>6, <2>7, <2>8 DEF PassInv
<1> QED  BY <1>2, <1>3 DEF MarkStale, NextPool

(* The current pool is done with: ms is what it stored, or nothing.        *)
LEMMA PassStores ==
  ASSUME PassInv, TableInv', pc = "store", pc' = "mark", todo' = todo \ {Current},
         plan' = plan,
         NEW ms \in SUBSET Models, found' = [found EXCEPT ![Current] = ms],
         \A k \in Keys :
           IF k \in {ProviderOf(Current)} \X ms
           THEN Fresh(k)' /\ rows'[k].pool = Current
           ELSE rows'[k] = rows[k]
  PROVE  PassInv'
<1>0. TableInv /\ InTurn /\ Wiped /\ OnlyFound /\ AllFound  BY DEF PassInv
<1> PICK p : p = Current  OBVIOUS
<1>1. /\ p \in todo /\ p \in Pools /\ (\A q \in todo : p <= q) /\ todo \subseteq Pools
      /\ ProviderOf(p) \in Providers
  BY <1>0, TodoFacts DEF TableInv
<1>p. \A x : ProviderOf(x)' = ProviderOf(x)  BY DEF ProviderOf
<1> DEFINE stored == {ProviderOf(p)} \X ms
<1>2. \A k \in Keys : k \in stored <=> k[1] = ProviderOf(p) /\ k[2] \in ms
  BY KeyFacts
<1>3. \A k \in Keys : k[1] = ProviderOf(p) => ~ Fresh(k)
  BY <1>0 DEF Wiped
<1> HIDE DEF stored
<1>4. \A k \in Keys : IF k \in stored THEN Fresh(k)' /\ rows'[k].pool = p
                      ELSE rows'[k] = rows[k] /\ (Fresh(k)' <=> Fresh(k))
  BY DEF Fresh, stored
<1>5. /\ found'[p] = ms /\ ms # NotSynced
      /\ \A q \in Pools : q # p => found'[q] = found[q]
  BY <1>0, <1>1, ConstantFacts DEF TableInv
<1>6. /\ FoundBy(p)' = ms
      /\ \A q \in Pools : q # p => FoundBy(q)' = FoundBy(q)
  BY <1>5 DEF FoundBy
<1>7. /\ \A q \in Pools : found[q] # NotSynced => q < p
      /\ FoundBy(p) = {}
  <2>1. \A q \in Pools : found[q] # NotSynced => q < p
    BY <1>0, <1>1 DEF InTurn
  <2>2. ~ (p < p)  BY <1>1, ConstantFacts
  <2> QED  BY <1>1, <2>1, <2>2 DEF FoundBy
<1>s. \A x : x # ProviderOf(p) => SyncedOf(x)' = SyncedOf(x)
  BY <1>5, <1>p DEF SyncedOf
<1>8. InTurn'
  <2>1. \A q \in todo \ {p} : p < q  BY <1>1, ConstantFacts
  <2>2. todo' = todo \ {p}  OBVIOUS
  <2> QED  BY <1>0, <1>1, <1>5, <2>1, <2>2 DEF InTurn
<1>9. Wiped'  BY DEF Wiped
<1>10. OnlyFound'
  <2> SUFFICES ASSUME NEW k \in Keys, Fresh(k)'
               PROVE  \/ k[2] \in FoundBy(rows[k].pool)'
                      \/ SyncedOf(k[1])' = {}
    BY DEF OnlyFound
  <2>1. CASE k \in stored
    <3>1. rows'[k].pool = p /\ k[2] \in ms  BY <1>2, <1>4, <2>1
    <3>2. FoundBy(rows[k].pool)' = FoundBy(p)'
      BY <3>1, <1>5 DEF FoundBy
    <3> QED  BY <1>6, <3>1, <3>2
  <2>2. CASE k \notin stored
    <3>1. Fresh(k) /\ rows'[k] = rows[k]  BY <1>4, <2>2
    <3>2. k[1] # ProviderOf(p)  BY <1>3, <3>1
    <3>3. rows[k].pool \in Pools  BY <1>0, <3>1, FreshRow
    <3>4. CASE SyncedOf(k[1]) = {}  BY <1>s, <3>2, <3>4
    <3>5. CASE k[2] \in FoundBy(rows[k].pool)
      <4>1. rows[k].pool # p  BY <1>7, <3>5
      <4>2. FoundBy(rows[k].pool)' = FoundBy(rows[k].pool)
        BY <1>5, <3>1, <3>3, <4>1 DEF FoundBy
      <4> QED  BY <3>5, <4>2
    <3> QED  BY <1>0, <3>1, <3>4, <3>5 DEF OnlyFound
  <2> QED  BY <2>1, <2>2
<1>11. AllFound'
  <2> SUFFICES ASSUME NEW q \in Pools, LastOfProvider(q)', NEW m \in FoundBy(q)'
               PROVE  /\ Fresh(<<ProviderOf(q), m>>)'
                      /\ rows[<<ProviderOf(q), m>>].pool' = q
    BY <1>p DEF AllFound
  <2>1. CASE q = p
    <3>1. m \in ms /\ m \in Models  BY <1>6, <2>1
    <3>2. <<ProviderOf(q), m>> \in Keys /\ <<ProviderOf(q), m>> \in stored
      BY <1>1, <1>2, <2>1, <3>1, KeyFacts
    <3> QED  BY <1>p, <1>4, <2>1, <3>2
  <2>2. CASE q # p
    <3>1. m \in FoundBy(q) /\ found[q] # NotSynced /\ m \in Models
      BY <1>0, <1>6, <2>2, FoundFacts
    <3>2. q < p  BY <1>7, <3>1
    <3>3. ProviderOf(p) # ProviderOf(q)
      <4>1. ProviderOf(p) = ProviderOf(q) => p \in SyncedOf(ProviderOf(q))'
        BY <1>1, <1>5, <1>p DEF SyncedOf
      <4>2. \A x \in SyncedOf(ProviderOf(q))' : x <= q
        BY <1>p DEF LastOfProvider
      <4>3. ~ (p <= q)  BY <1>1, <3>2, ConstantFacts
      <4> QED  BY <4>1, <4>2, <4>3
    <3>4. LastOfProvider(q)
      BY <1>p, <1>s, <3>1, <3>3 DEF LastOfProvider
    <3>5. Fresh(<<ProviderOf(q), m>>) /\ rows[<<ProviderOf(q), m>>].pool = q
      BY <1>0, <3>1, <3>3, <3>4 DEF AllFound
    <3>6. <<ProviderOf(q), m>> \in Keys /\ <<ProviderOf(q), m>> \notin stored
      BY <1>0, <1>2, <3>1, <3>3, KeyFacts, Reached
    <3> QED  BY <1>p, <1>4, <3>5, <3>6
  <2> QED  BY <2>1, <2>2
<1> QED  BY <1>8, <1>9, <1>10, <1>11 DEF PassInv

LEMMA PassStep == PassInv /\ [Next]_vars => PassInv'
<1> SUFFICES ASSUME PassInv, [Next]_vars PROVE PassInv'  OBVIOUS
<1>0. TableInv /\ TableInv'  BY TableStep DEF PassInv
<1>1. CASE MarkStale  BY <1>0, <1>1, PassMarks
<1>2. ASSUME NEW ms \in SUBSET Models, Store(ms) PROVE PassInv'
  <2>1. /\ pc = "store" /\ pc' = "mark" /\ todo' = todo \ {Current}
        /\ plan' = plan /\ found' = [found EXCEPT ![Current] = ms]
        /\ rows' = [k \in Keys |-> IF k \in {ProviderOf(Current)} \X ms
                                   THEN StoredRow(Current, k) ELSE rows[k]]
    BY <1>2 DEF Store, NextPool, configs
  <2>2. Current \in Pools  BY <1>0, <2>1, TodoFacts DEF TableInv
  <2>3. \A k \in Keys : /\ StoredRow(Current, k) # NoRow
                        /\ StoredRow(Current, k).pool = Current
                        /\ ~ StoredRow(Current, k).is_stale
    <3> SUFFICES ASSUME NEW k \in Keys
                 PROVE  /\ StoredRow(Current, k) # NoRow
                        /\ StoredRow(Current, k).pool = Current
                        /\ ~ StoredRow(Current, k).is_stale
      OBVIOUS
    <3>1. StoredRow(Current, k)
            = [pool |-> Current, is_stale |-> FALSE, fetched_at |-> now]
      BY DEF StoredRow
    <3>2. StoredRow(Current, k) \in Row  BY <1>0, <2>2, <3>1 DEF Row, TableInv
    <3>3. StoredRow(Current, k) # NoRow  BY <3>2, NoRowAssumption
    <3>4. StoredRow(Current, k).pool = Current /\ ~ StoredRow(Current, k).is_stale
      BY <3>1
    <3> QED  BY <3>3, <3>4
  <2>4. \A k \in Keys : IF k \in {ProviderOf(Current)} \X ms
                        THEN Fresh(k)' /\ rows'[k].pool = Current
                        ELSE rows'[k] = rows[k]
    BY <2>1, <2>3 DEF Fresh
  <2> QED  BY <1>0, <2>1, <2>4, PassStores
<1>3. CASE FetchFails
  <2>1. /\ pc = "store" /\ pc' = "mark" /\ todo' = todo \ {Current}
        /\ plan' = plan /\ found' = [found EXCEPT ![Current] = {}]
        /\ rows' = rows
    BY <1>3 DEF FetchFails, NextPool, configs
  <2>2. \A k \in Keys : IF k \in {ProviderOf(Current)} \X {}
                        THEN Fresh(k)' /\ rows'[k].pool = Current
                        ELSE rows'[k] = rows[k]
    BY <2>1
  <2>3. {} \in SUBSET Models  OBVIOUS
  <2> QED  BY <1>0, <2>1, <2>2, <2>3, PassStores
<1>4. CASE PlanDone \/ Rebuild
  <2>1. /\ rows' = rows /\ found' = found /\ todo' = todo /\ plan' = plan
        /\ pc # "store" /\ pc' # "store"
    BY <1>4 DEF PlanDone, Rebuild, history, configs
  <2>2. \A k \in Keys : Fresh(k)' <=> Fresh(k)  BY <2>1 DEF Fresh
  <2> QED  BY <1>0, <2>1, <2>2, PassGoesOn
<1>5. CASE CleanUp
  <2>1. /\ found' = found /\ todo' = todo /\ plan' = plan
        /\ pc # "store" /\ pc' # "store"
    BY <1>5 DEF CleanUp, history, configs
  <2>2. \A k \in Keys : \/ rows'[k] = rows[k]
                        \/ rows[k].is_stale /\ rows'[k] = NoRow
    BY <1>5 DEF CleanUp
  <2>3. /\ \A k \in Keys : Fresh(k)' <=> Fresh(k)
        /\ \A k \in Keys : Fresh(k) => rows'[k] = rows[k]
    BY <2>2 DEF Fresh
  <2> QED  BY <1>0, <2>1, <2>3, PassGoesOn
<1>6. CASE StartSync
  <2>1. /\ rows' = rows /\ found' = NothingFound /\ pc' = "mark"
        /\ todo' = SyncPlan(config) /\ plan' = config
    BY <1>6 DEF StartSync
  <2>2. todo' \subseteq DOMAIN plan'  BY <2>1 DEF SyncPlan
  <2> QED  BY <1>0, <2>1, <2>2, PassStarts
<1>7. CASE Restart
  <2>1. /\ rows' = rows /\ found' = NothingFound /\ pc' = "mark"
        /\ todo' = SyncPlan(config') /\ plan' = config'
    BY <1>7 DEF Restart
  <2>2. todo' \subseteq DOMAIN plan'  BY <2>1 DEF SyncPlan
  <2> QED  BY <1>0, <2>1, <2>2, PassStarts
<1>8. CASE CreatePool \/ LosePool \/ UNCHANGED vars
  <2>1. /\ rows' = rows /\ found' = found /\ todo' = todo /\ pc' = pc
        /\ plan' = plan
    BY <1>8 DEF CreatePool, LosePool, sync, history, vars
  <2>2. /\ \A p \in Pools : FoundBy(p)' = FoundBy(p)
        /\ \A x : SyncedOf(x)' = SyncedOf(x)
        /\ \A p \in Pools : LastOfProvider(p)' <=> LastOfProvider(p)
        /\ \A p : ProviderOf(p)' = ProviderOf(p)
    BY <2>1, SamePass
  <2>6. /\ \A k \in Keys : Fresh(k)' <=> Fresh(k)
        /\ Current' = Current /\ ProviderOf(Current)' = ProviderOf(Current)
    BY <2>1 DEF Fresh, Current, ProviderOf
  <2>3. InTurn' /\ Wiped'  BY <2>1, <2>2, <2>6 DEF PassInv, InTurn, Wiped
  <2>4. OnlyFound'
    <3>1. \A k \in Keys : Fresh(k) => rows[k].pool \in Pools
      BY <1>0, FreshRow
    <3> QED  BY <2>1, <2>2, <2>6, <3>1 DEF PassInv, OnlyFound
  <2>5. AllFound'
    <3> SUFFICES ASSUME NEW p \in Pools, LastOfProvider(p)', NEW m \in FoundBy(p)'
                 PROVE  \/ pc' = "store" /\ ProviderOf(Current)' = ProviderOf(p)'
                        \/ /\ Fresh(<<ProviderOf(p), m>>)'
                           /\ rows[<<ProviderOf(p), m>>].pool' = p
      BY <2>2 DEF AllFound
    <3>1. LastOfProvider(p) /\ m \in FoundBy(p) /\ m \in Models
      BY <1>0, <2>2, FoundFacts
    <3>2. <<ProviderOf(p), m>> \in Keys
      BY <3>1, KeyFacts, Reached DEF PassInv, LastOfProvider
    <3> QED  BY <2>1, <2>2, <2>6, <3>1, <3>2 DEF PassInv, AllFound
  <2> QED  BY <1>0, <2>3, <2>4, <2>5 DEF PassInv
<1> QED
  BY <1>1, <1>2, <1>3, <1>4, <1>5, <1>6, <1>7, <1>8 DEF Next

-----------------------------------------------------------------------------
(* The cache: a route lists pools with the priority they have, the best    *)
(* first, one for a provider; after a pass, the pools of the fresh rows.   *)
Route(m) ==
  /\ cache[m] \in Seq(Pools \X Int)
  /\ \A i \in DOMAIN cache[m] : cache[m][i][2] = PriorityOf(cache[m][i][1])
  /\ \A i, j \in DOMAIN cache[m] : i < j => cache[m][i][2] >= cache[m][j][2]
  /\ Len(cache[m]) <= Cardinality(Providers)

Matches(m) ==
  /\ \A i \in DOMAIN cache[m] : \E k \in FreshRows(m) : rows[k].pool = cache[m][i][1]
  /\ \A k \in FreshRows(m) : \E i \in DOMAIN cache[m] : cache[m][i][1] = rows[k].pool

CacheInv ==
  /\ PassInv
  /\ \A m \in Models : Route(m) /\ (Synced => Matches(m))

LEMMA PriorityFacts ==
  ASSUME ConfigInv
  PROVE  \A p \in Pools : PriorityOf(p) \in Int
BY ConfigFacts DEF PriorityOf, ConfigInv

(* rebuild_cache.                                                          *)
LEMMA Rebuilt ==
  ASSUME TableInv, NEW m \in Models, NEW c, c = CacheOf(m)
  PROVE  /\ c \in Seq(Pools \X Int)
         /\ \A i \in DOMAIN c : c[i][2] = PriorityOf(c[i][1])
         /\ \A i, j \in DOMAIN c : i < j => c[i][2] >= c[j][2]
         /\ Len(c) <= Cardinality(Providers)
         /\ \A i \in DOMAIN c : \E k \in FreshRows(m) : rows[k].pool = c[i][1]
         /\ \A k \in FreshRows(m) : \E i \in DOMAIN c : c[i][1] = rows[k].pool
<1> DEFINE S == FreshRows(m)
<1> DEFINE pool(k) == rows[k].pool
<1> DEFINE o == InOrder(S, Prefers)
<1>1. \A k \in S : /\ k \in Keys /\ pool(k) \in Pools
                   /\ k[1] \in Int /\ k \in Providers \X {m} /\ k = <<k[1], m>>
  <2> SUFFICES ASSUME NEW k \in S
               PROVE  /\ k \in Keys /\ pool(k) \in Pools
                      /\ k[1] \in Int /\ k \in Providers \X {m} /\ k = <<k[1], m>>
    OBVIOUS
  <2>1. k \in Keys /\ Fresh(k) /\ k[2] = m  BY DEF FreshRows, Fresh
  <2>2. pool(k) \in Pools  BY <2>1, FreshRow
  <2>3. k[1] \in Int /\ k \in Providers \X {m} /\ k = <<k[1], m>>
    BY <2>1, KeyFacts, ConstantFacts
  <2> QED  BY <2>1, <2>2, <2>3
<1>2. IsFiniteSet(S)
  <2>1. S \subseteq Keys  BY DEF FreshRows
  <2> QED  BY <2>1, ConstantFacts, FS_Subset
<1>3. \A x, y \in S : <<x, y>> \in Prefers <=>
        \/ PriorityOf(pool(x)) > PriorityOf(pool(y))
        \/ PriorityOf(pool(x)) = PriorityOf(pool(y)) /\ x[1] < y[1]
  <2> SUFFICES ASSUME NEW x \in S, NEW y \in S
               PROVE  <<x, y>> \in Prefers <=>
                        \/ PriorityOf(pool(x)) > PriorityOf(pool(y))
                        \/ PriorityOf(pool(x)) = PriorityOf(pool(y)) /\ x[1] < y[1]
    OBVIOUS
  <2>1. <<x, y>> \in Keys \X Keys  BY <1>1
  <2> QED  BY <2>1 DEF Prefers
<1>4. \A k \in S : PriorityOf(pool(k)) \in Int
  BY <1>1, PriorityFacts DEF TableInv
<1>5. c = [i \in DOMAIN o |-> <<pool(o[i]), PriorityOf(pool(o[i]))>>]
  BY DEF CacheOf, Entries
<1> HIDE DEF S, pool
<1>6. Orders(Prefers, S)
  <2>1. \A x, y \in S : x # y => x[1] # y[1]  BY <1>1
  <2>2. \A x \in S : <<x, x>> \notin Prefers  BY <1>1, <1>3, <1>4
  <2>3. \A x, y \in S : x # y => <<x, y>> \in Prefers \/ <<y, x>> \in Prefers
    BY <1>1, <1>3, <1>4, <2>1
  <2>4. \A x, y, z \in S :
          <<x, y>> \in Prefers /\ <<y, z>> \in Prefers => <<x, z>> \in Prefers
    BY <1>1, <1>3, <1>4
  <2> QED  BY <2>2, <2>3, <2>4 DEF Orders
<1>7. /\ o \in Seq(S) /\ Len(o) = Cardinality(S)
      /\ Len(o) \in Nat /\ DOMAIN o = 1 .. Len(o)
      /\ \A x \in S : \E i \in DOMAIN o : o[i] = x
      /\ \A i, j \in DOMAIN o : i < j => <<o[i], o[j]>> \in Prefers /\ o[i] # o[j]
  <2>1. o = InOrder(S, Prefers)  OBVIOUS
  <2> HIDE DEF o
  <2> QED  BY <1>2, <1>6, <2>1, InOrderFacts
<1> HIDE DEF o
<1>8. /\ DOMAIN c = DOMAIN o
      /\ \A i \in DOMAIN c : /\ o[i] \in S /\ c[i][1] = pool(o[i])
                             /\ c[i][2] = PriorityOf(pool(o[i]))
                             /\ c[i] \in Pools \X Int
  <2>1. \A i \in DOMAIN o : o[i] \in S  BY <1>7
  <2> QED  BY <1>1, <1>4, <1>5, <2>1
<1>9. c \in Seq(Pools \X Int)
  <2>1. PICK n \in Nat : n = Len(o)  BY <1>7
  <2>2. c \in [1 .. n -> Pools \X Int]  BY <1>5, <1>7, <1>8, <2>1
  <2> QED  BY <2>2
<1>10. \A i \in DOMAIN c : c[i][2] = PriorityOf(c[i][1])  BY <1>8
<1>11. ASSUME NEW i \in DOMAIN c, NEW j \in DOMAIN c, i < j
       PROVE  c[i][2] >= c[j][2]
  <2>1. <<o[i], o[j]>> \in Prefers /\ o[i] \in S /\ o[j] \in S
    BY <1>7, <1>8, <1>11
  <2>2. PriorityOf(pool(o[i])) >= PriorityOf(pool(o[j]))
    BY <1>3, <1>4, <2>1
  <2> QED  BY <1>8, <2>2
<1>14. Len(c) <= Cardinality(Providers)
  <2>1. /\ IsFiniteSet(Providers \X {m}) /\ Cardinality({m}) = 1
        /\ Cardinality(Providers \X {m}) = Cardinality(Providers) * Cardinality({m})
        /\ Cardinality(Providers) \in Nat
    BY FS_Product, FS_Singleton, FS_CardinalityType, RegistryAssumption
  <2>2. S \subseteq Providers \X {m}  BY <1>1
  <2>3. Cardinality(S) <= Cardinality(Providers \X {m})
    BY <2>1, <2>2, FS_Subset
  <2>4. Len(c) = Len(o)  BY <1>5, <1>7, <1>8, <1>9
  <2>5. Cardinality(Providers) * 1 = Cardinality(Providers)  BY <2>1
  <2> QED  BY <1>7, <2>1, <2>3, <2>4, <2>5
<1>12. \A i \in DOMAIN c : \E k \in S : pool(k) = c[i][1]  BY <1>8
<1>13. \A k \in S : \E i \in DOMAIN c : c[i][1] = pool(k)
  <2> SUFFICES ASSUME NEW k \in S PROVE \E i \in DOMAIN c : c[i][1] = pool(k)
    OBVIOUS
  <2>1. PICK i \in DOMAIN o : o[i] = k  BY <1>7
  <2> QED  BY <1>8, <2>1
<1> QED  BY <1>9, <1>10, <1>11, <1>12, <1>13, <1>14 DEF S, pool

LEMMA EmptyRoutes ==
  ASSUME cache = EmptyCache
  PROVE  \A m \in Models : Route(m)
<1>1. Cardinality(Providers) \in Nat  BY FS_CardinalityType, RegistryAssumption
<1> QED  BY <1>1 DEF EmptyCache, Route

LEMMA CacheInit == Init => CacheInv
<1> SUFFICES ASSUME Init PROVE CacheInv  OBVIOUS
<1>1. PassInv /\ cache = EmptyCache /\ ~ Synced
  BY PassInit DEF Init, Synced
<1> QED  BY <1>1, EmptyRoutes DEF CacheInv

LEMMA CacheStep == CacheInv /\ [Next]_vars => CacheInv'
<1> SUFFICES ASSUME CacheInv, [Next]_vars PROVE CacheInv'  OBVIOUS
<1>0. PassInv /\ PassInv' /\ TableInv /\ TableInv'
  BY PassStep DEF CacheInv, PassInv
<1>6. config' = config \/ CreatePool \/ LosePool =>
        \A p : PriorityOf(p)' = PriorityOf(p)
  BY <1>0, PrioritiesKept DEF TableInv
<1>1. ASSUME cache' = cache, \A p \in Pools : PriorityOf(p)' = PriorityOf(p),
             Synced' => Synced /\ rows' = rows
      PROVE  CacheInv'
  <2> SUFFICES ASSUME NEW m \in Models PROVE Route(m)' /\ (Synced' => Matches(m)')
    BY <1>0 DEF CacheInv
  <2>1. Route(m) /\ (Synced => Matches(m))  BY DEF CacheInv
  <2>2. \A i \in DOMAIN cache[m] : cache[m][i][1] \in Pools
    BY <2>1 DEF Route
  <2>3. Route(m)'  BY <1>1, <2>1, <2>2 DEF Route
  <2>4. Synced' => Matches(m)'  BY <1>1, <2>1 DEF Matches, FreshRows
  <2> QED  BY <2>3, <2>4
<1>2. CASE MarkStale \/ FetchFails \/ PlanDone \/ CleanUp \/ StartSync
           \/ \E ms \in SUBSET Models : Store(ms)
  <2>1. cache' = cache /\ pc' # "idle" /\ config' = config
    BY <1>2 DEF MarkStale, FetchFails, PlanDone, CleanUp, StartSync, Store, NextPool,
                configs
  <2>2. \A p \in Pools : PriorityOf(p)' = PriorityOf(p)  BY <1>6, <2>1
  <2>3. ~ Synced'  BY <2>1 DEF Synced
  <2> QED  BY <1>1, <2>1, <2>2, <2>3
<1>3. CASE CreatePool \/ LosePool \/ UNCHANGED vars
  <2>1. cache' = cache /\ rows' = rows /\ (Synced' => Synced)
    BY <1>3 DEF CreatePool, LosePool, sync, history, vars, Synced
  <2>2. config' = config \/ CreatePool \/ LosePool  BY <1>3 DEF vars
  <2> QED  BY <1>1, <1>6, <2>1, <2>2
<1>4. CASE Rebuild
  <2>1. config' = config /\ rows' = rows  BY <1>4 DEF Rebuild, configs
  <2>2. \A p \in Pools : PriorityOf(p)' = PriorityOf(p)  BY <2>1 DEF PriorityOf
  <2>3. CASE cache' = cache /\ rebuilt' = FALSE
    <3>1. ~ Synced'  BY <2>3 DEF Synced
    <3> QED  BY <1>1, <2>2, <2>3, <3>1
  <2>4. CASE cache' = [m \in Models |-> CacheOf(m)]
    <3> SUFFICES ASSUME NEW m \in Models PROVE Route(m)' /\ Matches(m)'
      BY <1>0 DEF CacheInv
    <3> DEFINE c == cache'[m]
    <3>1. c = CacheOf(m)  BY <2>4
    <3> HIDE DEF c
    <3>2. /\ c \in Seq(Pools \X Int)
          /\ \A i \in DOMAIN c : c[i][2] = PriorityOf(c[i][1])
          /\ \A i, j \in DOMAIN c : i < j => c[i][2] >= c[j][2]
          /\ Len(c) <= Cardinality(Providers)
          /\ \A i \in DOMAIN c : \E k \in FreshRows(m) : rows[k].pool = c[i][1]
          /\ \A k \in FreshRows(m) : \E i \in DOMAIN c : c[i][1] = rows[k].pool
      BY <1>0, <3>1, Rebuilt
    <3>3. Route(m)'
      <4>1. \A x : PriorityOf(x)' = PriorityOf(x)  BY <2>1 DEF PriorityOf
      <4> QED  BY <3>2, <4>1 DEF Route, c
    <3>4. Matches(m)'
      <4>1. FreshRows(m)' = FreshRows(m)  BY <2>1 DEF FreshRows
      <4> QED  BY <2>1, <3>2, <4>1 DEF Matches, c
    <3> QED  BY <3>3, <3>4
  <2> QED  BY <1>4, <2>3, <2>4 DEF Rebuild
<1>5. CASE Restart
  <2>1. cache' = EmptyCache /\ ~ Synced'  BY <1>5 DEF Restart, Synced
  <2>3. Cardinality(Providers) \in Nat  BY FS_CardinalityType, RegistryAssumption
  <2>2. \A m \in Models : Route(m)'  BY <2>1, <2>3 DEF EmptyCache, Route
  <2> QED  BY <1>0, <2>1, <2>2 DEF CacheInv
<1> QED  BY <1>2, <1>3, <1>4, <1>5 DEF Next

LEMMA CacheInvariant == Spec => []CacheInv
BY CacheInit, CacheStep, PTL DEF Spec

(* The types of the registry.                                              *)
THEOREM RegistryTypes == Spec => []TypeOK
<1>1. CacheInv => TypeOK
  BY DEF CacheInv, PassInv, TableInv, ConfigInv, Route, TypeOK, RegistryTypeOK
<1> QED  BY <1>1, CacheInvariant, PTL

(* At any time, and whatever was edited between two starts, a route lists  *)
(* pools with their priority, best first, and one for a provider at most.  *)
THEOREM Routing == Spec => []RoutesAsGatewayExpects
<1>1. CacheInv => RoutesAsGatewayExpects
  BY DEF CacheInv, Route, RoutesAsGatewayExpects
<1> QED  BY <1>1, CacheInvariant, PTL

(* What a client finds for a model: nothing unless a pool it may use is    *)
(* there, and then one that is no worse.                                   *)
LEMMA CandidatesFound ==
  ASSUME NEW m \in Models, Route(m), NEW allowed \in SUBSET Pools,
         NEW c, c = ModelCandidates(m, allowed)
  PROVE  /\ c # <<>> => \E i \in DOMAIN cache[m] : cache[m][i][1] \in allowed
         /\ \A i \in DOMAIN cache[m] : cache[m][i][1] \in allowed =>
              c # <<>> /\ c[1] \in Pools /\ PriorityOf(c[1]) >= PriorityOf(cache[m][i][1])
<1> DEFINE s == cache[m]
<1> DEFINE mine == Keep(s, allowed \X Int)
<1>1. /\ s \in Seq(Pools \X Int)
      /\ \A i \in DOMAIN s : s[i][2] = PriorityOf(s[i][1])
      /\ \A i, j \in DOMAIN s : i < j => s[i][2] >= s[j][2]
  BY DEF Route
<1>2. c = [i \in DOMAIN mine |-> mine[i][1]]  BY DEF ModelCandidates
<1> HIDE DEF s
<1>3. /\ mine \in Seq(Pools \X Int) /\ Len(mine) \in Nat /\ DOMAIN mine = 1 .. Len(mine)
      /\ \A a \in DOMAIN mine : mine[a] \in allowed \X Int /\ \E i \in DOMAIN s : mine[a] = s[i]
      /\ \A i \in DOMAIN s : s[i] \in allowed \X Int => \E a \in DOMAIN mine : mine[a] = s[i]
      /\ \A a, b \in DOMAIN mine : a < b =>
           \E i, j \in DOMAIN s : i < j /\ mine[a] = s[i] /\ mine[b] = s[j]
  <2>1. PICK T, S : T = Pools \X Int /\ S = allowed \X Int  OBVIOUS
  <2>2. mine = Keep(s, S) /\ s \in Seq(T)  BY <1>1, <2>1
  <2> HIDE DEF mine
  <2>3. /\ mine \in Seq(T) /\ Len(mine) \in Nat /\ DOMAIN mine = 1 .. Len(mine)
        /\ \A a \in DOMAIN mine : mine[a] \in S /\ \E i \in DOMAIN s : mine[a] = s[i]
        /\ \A i \in DOMAIN s : s[i] \in S => \E a \in DOMAIN mine : mine[a] = s[i]
        /\ \A a, b \in DOMAIN mine : a < b =>
             \E i, j \in DOMAIN s : i < j /\ mine[a] = s[i] /\ mine[b] = s[j]
    BY <2>2, KeepFacts
  <2> QED  BY <2>1, <2>3
<1> HIDE DEF mine
<1>4. \A i \in DOMAIN s : /\ s[i][1] \in Pools /\ s[i][2] \in Int
                          /\ s[i][1] \in allowed => s[i] \in allowed \X Int
  BY <1>1
<1>5. c = <<>> <=> mine = <<>>
  <2>1. DOMAIN c = 1 .. Len(mine)  BY <1>2, <1>3
  <2>2. c = <<>> => Len(mine) = 0
    <3>1. DOMAIN <<>> = {}  OBVIOUS
    <3>2. Len(mine) > 0 => 1 \in 1 .. Len(mine)  BY <1>3
    <3> QED  BY <1>3, <2>1, <3>1, <3>2
  <2>3. Len(mine) = 0 => mine = <<>>  BY <1>3
  <2>4. mine = <<>> => c = <<>>  BY <1>2
  <2> QED  BY <2>2, <2>3, <2>4
<1>6. ASSUME c # <<>> PROVE \E i \in DOMAIN s : s[i][1] \in allowed
  <2>1. 1 \in DOMAIN mine  BY <1>3, <1>5, <1>6
  <2>2. mine[1] \in allowed \X Int /\ \E i \in DOMAIN s : mine[1] = s[i]  BY <1>3, <2>1
  <2> QED  BY <2>2
<1>7. ASSUME NEW i \in DOMAIN s, s[i][1] \in allowed
      PROVE  c # <<>> /\ c[1] \in Pools /\ PriorityOf(c[1]) >= PriorityOf(s[i][1])
  <2>1. PICK a \in DOMAIN mine : mine[a] = s[i]  BY <1>3, <1>4, <1>7
  <2>2. 1 \in DOMAIN mine /\ (a = 1 \/ 1 < a)  BY <1>3
  <2>3. c # <<>> /\ c[1] = mine[1][1]
    <3>1. mine # <<>>  BY <2>2
    <3> QED  BY <1>2, <1>5, <2>2, <3>1
  <2>4. PICK j \in DOMAIN s : mine[1] = s[j] /\ s[j][2] >= s[i][2]
    <3>1. CASE a = 1
      BY <1>4, <2>1, <3>1
    <3>2. CASE 1 < a
      <4>1. PICK x, y \in DOMAIN s : x < y /\ mine[1] = s[x] /\ mine[a] = s[y]
        BY <1>3, <2>2, <3>2
      <4>2. s[x][2] >= s[y][2]  BY <1>1, <4>1
      <4> QED  BY <2>1, <4>1, <4>2
    <3> QED  BY <2>2, <3>1, <3>2
  <2> QED  BY <1>1, <1>4, <2>3, <2>4
<1> QED  BY <1>6, <1>7 DEF s

(* What was found is routed to the pool it was found in or a better one.   *)
THEOREM FoundIsRouted == Spec => []FoundModelsRouted
<1>1. CacheInv => FoundModelsRouted
  <2> SUFFICES ASSUME CacheInv, Synced, NEW p \in Pools, LastOfProvider(p),
                      NEW m \in FoundBy(p), NEW allowed \in SUBSET Pools, p \in allowed
               PROVE  /\ ModelCandidates(m, allowed) # <<>>
                      /\ PriorityOf(ModelCandidates(m, allowed)[1]) >= PriorityOf(p)
    BY DEF FoundModelsRouted
  <2>1. m \in Models  BY FoundFacts DEF CacheInv, PassInv
  <2>2. /\ Fresh(<<ProviderOf(p), m>>) /\ rows[<<ProviderOf(p), m>>].pool = p
    BY DEF CacheInv, PassInv, AllFound, Synced
  <2>6. ProviderOf(p) \in Providers
    BY Reached DEF CacheInv, PassInv, LastOfProvider
  <2>3. <<ProviderOf(p), m>> \in FreshRows(m)
    BY <2>1, <2>2, <2>6, KeyFacts DEF FreshRows, Fresh
  <2>4. Route(m) /\ Matches(m)  BY <2>1 DEF CacheInv
  <2>5. PICK i \in DOMAIN cache[m] : cache[m][i][1] = p
    BY <2>2, <2>3, <2>4 DEF Matches
  <2> QED  BY <2>1, <2>4, <2>5, CandidatesFound
<1> QED  BY <1>1, CacheInvariant, PTL

(* A model is routed only to where the pass found it, or by a row that no  *)
(* pool of the pass had the provider to mark.                              *)
THEOREM RoutedWasFound == Spec => []RoutedModelsWereFound
<1>1. CacheInv => RoutedModelsWereFound
  <2> SUFFICES ASSUME CacheInv, Synced, NEW m \in Models, NEW i \in DOMAIN cache[m]
               PROVE  LET p == cache[m][i][1]
                      IN  \/ m \in FoundBy(p)
                          \/ \E k \in FreshRows(m) :
                               rows[k].pool = p /\ SyncedOf(k[1]) = {}
    BY DEF RoutedModelsWereFound
  <2>1. PICK k \in FreshRows(m) : rows[k].pool = cache[m][i][1]
    BY DEF CacheInv, Matches
  <2>2. k \in Keys /\ Fresh(k) /\ k[2] = m  BY DEF FreshRows, Fresh
  <2>3. m \in FoundBy(rows[k].pool) \/ SyncedOf(k[1]) = {}
    BY <2>2 DEF CacheInv, PassInv, OnlyFound
  <2> QED  BY <2>1, <2>3
<1> QED  BY <1>1, CacheInvariant, PTL

(* The list of models and the routes say the same to every client.         *)
THEOREM ListsWhatRoutes == Spec => []ListedIffRouted
<1>1. CacheInv => ListedIffRouted
  <2> SUFFICES ASSUME CacheInv, Synced, NEW allowed \in SUBSET Pools, NEW m \in Models
               PROVE  m \in Listed(allowed) <=> ModelCandidates(m, allowed) # <<>>
    BY DEF ListedIffRouted, Listed
  <2>1. Route(m) /\ Matches(m)  BY DEF CacheInv
  <2>2. ModelCandidates(m, allowed) # <<>> <=>
          \E i \in DOMAIN cache[m] : cache[m][i][1] \in allowed
    BY <2>1, CandidatesFound
  <2>3. m \in Listed(allowed) <=> \E k \in FreshRows(m) : rows[k].pool \in allowed
    BY DEF Listed
  <2> QED  BY <2>1, <2>2, <2>3 DEF Matches
<1> QED  BY <1>1, CacheInvariant, PTL
=============================================================================
