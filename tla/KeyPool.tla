------------------------------- MODULE KeyPool -------------------------------
(***************************************************************************)
(* The pool of key slots (core.rs, KeyPool): an async_channel bounded      *)
(* queue of ApiKey clones.  run_server (lib.rs) fills it and chooses its   *)
(* capacity; import_key (mcp.rs) adds slots while it runs; requests take   *)
(* the slot at its head and send it back to its tail.  Each clone is a     *)
(* slot with an identity of its own, so that losing or doubling one shows. *)
(***************************************************************************)
EXTENDS Naturals, Sequences, FiniteSets

CONSTANTS
  Requests,            \* the tasks that use the pool
  Slots,               \* every clone that ever exists
  NoSlot,
  InitialQueue,        \* the clones run_server adds, in its order
  ConfiguredCapacity   \* pool_cfg.capacity

(* Mutant: the configured capacity alone, as if it always sufficed. *)
CapacityAsConfigured == ConfiguredCapacity

(* run_server: never less than what the configured secrets need. *)
Capacity ==
  IF ConfiguredCapacity > Len(InitialQueue) THEN ConfiguredCapacity
                                            ELSE Len(InitialQueue)

InitialSlots == {InitialQueue[i] : i \in 1 .. Len(InitialQueue)}

(* Distinct clones, and a channel with room: bounded(0) panics. *)
PoolParameters ==
  /\ IsFiniteSet(Requests)
  /\ NoSlot \notin Slots
  /\ InitialQueue \in Seq(Slots)
  /\ \A i, j \in 1 .. Len(InitialQueue) :
       InitialQueue[i] = InitialQueue[j] => i = j
  /\ ConfiguredCapacity \in Nat
  /\ Capacity > 0

ASSUME PoolAssumption == PoolParameters

VARIABLES
  queue,       \* the channel
  waiting,     \* requests suspended in acquire (recv().await)
  held,        \* the slot a request took out of the channel, or NoSlot
  releasing,   \* requests suspended in release (send().await)
  offered      \* slots add_key was called with

poolVars == <<queue, waiting, held, releasing, offered>>

Queued == {queue[i] : i \in 1 .. Len(queue)}
Holders == {r \in Requests : held[r] # NoSlot}

PoolTypeOK ==
  /\ queue \in Seq(Slots)
  /\ Len(queue) <= Capacity
  /\ waiting \subseteq Requests
  /\ held \in [Requests -> Slots \cup {NoSlot}]
  /\ releasing \subseteq Holders
  /\ waiting \cap Holders = {}
  /\ offered \in SUBSET Slots

Init ==
  /\ queue = InitialQueue
  /\ waiting = {}
  /\ held = [r \in Requests |-> NoSlot]
  /\ releasing = {}
  /\ offered = InitialSlots

Request(r) ==
  /\ r \notin waiting /\ held[r] = NoSlot
  /\ waiting' = waiting \cup {r}
  /\ UNCHANGED <<queue, held, releasing, offered>>

(* Whichever waiting task is polled first gets the head: recv is not FIFO. *)
Acquire(r) ==
  /\ r \in waiting
  /\ queue # <<>>
  /\ held' = [held EXCEPT ![r] = Head(queue)]
  /\ queue' = Tail(queue)
  /\ waiting' = waiting \ {r}
  /\ UNCHANGED <<releasing, offered>>

(* release finds the channel full: send().await suspends. *)
Suspend(r) ==
  /\ held[r] # NoSlot /\ r \notin releasing
  /\ Len(queue) = Capacity
  /\ releasing' = releasing \cup {r}
  /\ UNCHANGED <<queue, waiting, held, offered>>

(* Mutant: a channel that takes what it is sent. *)
ReleaseUnbounded(r) ==
  /\ held[r] # NoSlot
  /\ queue' = Append(queue, held[r])
  /\ held' = [held EXCEPT ![r] = NoSlot]
  /\ releasing' = releasing \ {r}
  /\ UNCHANGED <<waiting, offered>>

(* Mutant: a clone goes back and the task goes on with its own. *)
ReleaseAndKeep(r) ==
  /\ held[r] # NoSlot
  /\ Len(queue) < Capacity
  /\ queue' = Append(queue, held[r])
  /\ releasing' = releasing \ {r}
  /\ UNCHANGED <<waiting, held, offered>>

(* send completes, at once or when a suspended one is woken: there is room. *)
Release(r) ==
  /\ held[r] # NoSlot
  /\ Len(queue) < Capacity
  /\ queue' = Append(queue, held[r])
  /\ held' = [held EXCEPT ![r] = NoSlot]
  /\ releasing' = releasing \ {r}
  /\ UNCHANGED <<waiting, offered>>

(* Mutant: force_send, which displaces the oldest slot of a full channel. *)
AddKeyDisplacing(s) ==
  /\ s \in Slots \ offered
  /\ offered' = offered \cup {s}
  /\ queue' = Append(IF Len(queue) < Capacity THEN queue ELSE Tail(queue), s)
  /\ UNCHANGED <<waiting, held, releasing>>

(* import_key: try_send, whose error "Pool capacity exceeded" is ignored.  *)
AddKey(s) ==
  /\ s \in Slots \ offered
  /\ offered' = offered \cup {s}
  /\ queue' = IF Len(queue) < Capacity THEN Append(queue, s) ELSE queue
  /\ UNCHANGED <<waiting, held, releasing>>

(* The task is dropped at an await: its slot goes with it. *)
Drop(r) ==
  /\ r \in waiting \/ held[r] # NoSlot
  /\ waiting' = waiting \ {r}
  /\ held' = [held EXCEPT ![r] = NoSlot]
  /\ releasing' = releasing \ {r}
  /\ UNCHANGED <<queue, offered>>

Next ==
  \/ \E r \in Requests :
       \/ Request(r)
       \/ Acquire(r)
       \/ Suspend(r)
       \/ Release(r)
       \/ Drop(r)
  \/ \E s \in Slots : AddKey(s)

Spec == Init /\ [][Next]_poolVars

-----------------------------------------------------------------------------
(* Types of the channel and of the tasks around it (core.rs, KeyPool).     *)
TypeOK == PoolTypeOK

(* A slot is in one place: no two positions of the channel, no two         *)
(* requests and no request and the channel have the same clone, however    *)
(* takes, returns, imports and drops interleave.  With two copies of one   *)
(* clone a key would serve more requests at once than its concurrency.     *)
SlotsExclusive ==
  /\ \A i, j \in 1 .. Len(queue) : queue[i] = queue[j] => i = j
  /\ \A r, q \in Holders : held[r] = held[q] => r = q
  /\ \A r \in Holders : held[r] \notin Queued

(* run_server sizes the channel so that a request that is done with a slot *)
(* is never suspended in release: while nothing was imported into the      *)
(* running pool, whoever holds a slot finds room to give it back.          *)
ReleaseFindsRoom ==
  offered = InitialSlots => \A r \in Holders : Len(queue) < Capacity

(* What the requests see of the pool is the slot ledger.                   *)
Ledger == INSTANCE SlotLedger WITH free <- Queued, lent <- held
ImplementsLedger == Ledger!Spec

(* lib.rs: "calculate required capacity to prevent capacity exceeded       *)
(* errors": add_key always finds room for the slot it is given.            *)
AddKeyFindsRoom == [][ offered' # offered => Len(queue) < Capacity ]_poolVars
=============================================================================
