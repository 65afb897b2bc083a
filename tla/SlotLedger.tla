----------------------------- MODULE SlotLedger -----------------------------
(***************************************************************************)
(* What a key pool promises, without its queue: a slot is free or lent to  *)
(* one request, a request holds at most one slot, and a slot leaves the    *)
(* ledger only when the request holding it is dropped.                     *)
(***************************************************************************)
EXTENDS FiniteSets

CONSTANTS Requests, Slots, NoSlot

VARIABLES
  free,      \* slots nobody holds
  lent       \* the slot each request holds, or NoSlot

ledger == <<free, lent>>

LentSlots == {lent[r] : r \in Requests} \ {NoSlot}

Init ==
  /\ free \in SUBSET Slots
  /\ lent = [r \in Requests |-> NoSlot]

Lend(r, s) ==
  /\ s \in free
  /\ lent[r] = NoSlot
  /\ free' = free \ {s}
  /\ lent' = [lent EXCEPT ![r] = s]

Return(r) ==
  /\ lent[r] # NoSlot
  /\ free' = free \cup {lent[r]}
  /\ lent' = [lent EXCEPT ![r] = NoSlot]

(* The request is dropped with its slot. *)
Forfeit(r) ==
  /\ lent[r] # NoSlot
  /\ lent' = [lent EXCEPT ![r] = NoSlot]
  /\ UNCHANGED free

(* A slot that is neither free nor lent is put up. *)
Grow(s) ==
  /\ s \in Slots \ (free \cup LentSlots)
  /\ free' = free \cup {s}
  /\ UNCHANGED lent

Next ==
  \/ \E r \in Requests :
       \/ \E s \in Slots : Lend(r, s)
       \/ Return(r)
       \/ Forfeit(r)
  \/ \E s \in Slots : Grow(s)

Spec == Init /\ [][Next]_ledger
=============================================================================
