---------------------------- MODULE PointerArray ----------------------------
(* ww_pointer_array_t: a table of pointers that grows, in which NULL marks a *)
(* free slot, with the number of free slots and the lowest one kept beside   *)
(* it.  The framework groups and the variables live in such arrays           *)
(* (mca_base_var.c:250).                                                     *)
EXTENDS Integers, FiniteSets
CONSTANTS ArrayInitial,   \* slots that init allocates
          ArrayMax,       \* init's maximum size
          Stored,         \* the pointers stored
          NoPtr           \* NULL
ASSUME ArrayAssumption ==
  ArrayInitial \in Nat \ {0} /\ ArrayMax \in Nat \ {0} /\ NoPtr \notin Stored
VARIABLES pa_addr,        \* the table, a function on 0 .. size - 1
          pa_size, pa_lowest, pa_free,
          pa_done         \* the last call: [index, value, ok]
pa_vars == <<pa_addr, pa_size, pa_lowest, pa_free, pa_done>>

Done(index, value, ok) == [index |-> index, value |-> value, ok |-> ok]

(* Construct and init (a block size of ArrayInitial changes nothing more). *)
ArrayInit ==
  /\ pa_addr = [i \in 0 .. ArrayInitial - 1 |-> NoPtr]
  /\ pa_size = ArrayInitial
  /\ pa_lowest = 0
  /\ pa_free = ArrayInitial
  /\ pa_done = Done(0, NoPtr, TRUE)

(* The size grow_table chooses, 0 when it refuses: the soft one, the hard    *)
(* one when the soft one is past the maximum; never the maximum itself.      *)
GrownSize(soft, hard) ==
  LET wanted == IF soft > ArrayMax THEN hard ELSE soft
  IN IF (soft > ArrayMax /\ hard > ArrayMax) \/ wanted >= ArrayMax THEN 0 ELSE wanted

(* The table after grow_table to size n. *)
Grown(n) == [i \in 0 .. n - 1 |-> IF i < pa_size THEN pa_addr[i] ELSE NoPtr]

(* The first free slot of the table a of n slots from `from` on, n if none. *)
FirstFree(a, n, from) ==
  LET free == {i \in from .. n - 1 : a[i] = NoPtr}
  IN IF free = {} THEN n ELSE CHOOSE i \in free : \A j \in free : i <= j

(* INT_MAX is the hard limit of an add: a soft one past the maximum fails. *)
Add(p) ==
  LET grow == pa_free = 0
      size == IF grow THEN GrownSize(2 * pa_size, ArrayMax + 1) ELSE pa_size
      free == IF grow THEN size - pa_size ELSE pa_free
      addr == [(IF grow THEN Grown(size) ELSE pa_addr) EXCEPT ![pa_lowest] = p]
  IN IF size = 0
     THEN /\ pa_done' = Done(-1, p, FALSE)
          /\ UNCHANGED <<pa_addr, pa_size, pa_lowest, pa_free>>
     ELSE /\ pa_addr' = addr
          /\ pa_size' = size
          /\ pa_free' = free - 1
          /\ pa_lowest' = IF free - 1 > 0 THEN FirstFree(addr, size, pa_lowest + 1) ELSE size
          /\ pa_done' = Done(pa_lowest, p, TRUE)

(* The size set_item and test_and_set_item grow the table to for an index. *)
SizeFor(index) ==
  IF pa_size <= index THEN GrownSize(((index \div 2) + 1) * 2, index) ELSE pa_size

(* An entry written past the end of the table lands outside of it. *)
Write(a, index, value) == [i \in DOMAIN a |-> IF i = index THEN value ELSE a[i]]

SetItem(index, value) ==
  LET size == SizeFor(index)
      addr == IF pa_size <= index THEN Grown(size) ELSE pa_addr
      free == pa_free + (size - pa_size)
      held == index < size /\ addr[index] # NoPtr
  IN IF size = 0
     THEN /\ pa_done' = Done(index, value, FALSE)
          /\ UNCHANGED <<pa_addr, pa_size, pa_lowest, pa_free>>
     ELSE /\ pa_size' = size
          /\ pa_addr' = Write(addr, index, value)
          /\ pa_done' = Done(index, value, TRUE)
          /\ IF value = NoPtr
             THEN /\ pa_lowest' = IF index < pa_lowest THEN index ELSE pa_lowest
                  /\ pa_free' = IF held THEN free + 1 ELSE free
             ELSE /\ pa_free' = IF held THEN free ELSE free - 1
                  /\ pa_lowest' = IF index = pa_lowest
                                  THEN FirstFree(addr, size, index + 1) ELSE pa_lowest

TestAndSetItem(index, value) ==
  LET size == SizeFor(index)
      addr == Write(IF pa_size <= index THEN Grown(size) ELSE pa_addr, index, value)
      used == index < pa_size /\ pa_addr[index] # NoPtr
  IN IF used \/ size = 0
     THEN /\ pa_done' = Done(index, value, FALSE)
          /\ UNCHANGED <<pa_addr, pa_size, pa_lowest, pa_free>>
     ELSE /\ pa_size' = size
          /\ pa_addr' = addr
          /\ pa_free' = pa_free + (size - pa_size) - 1
          /\ pa_lowest' = IF index = pa_lowest THEN FirstFree(addr, size, index) ELSE pa_lowest
          /\ pa_done' = Done(index, value, TRUE)

SetSize(n) ==
  LET size == IF n > pa_size THEN GrownSize(n, n) ELSE pa_size
  IN IF size = 0
     THEN /\ pa_done' = Done(n, NoPtr, FALSE)
          /\ UNCHANGED <<pa_addr, pa_size, pa_lowest, pa_free>>
     ELSE /\ pa_addr' = Grown(size)
          /\ pa_size' = size
          /\ pa_free' = pa_free + (size - pa_size)
          /\ pa_done' = Done(0, pa_addr[0], TRUE)
          /\ UNCHANGED pa_lowest

(* A mutant: the lowest free slot is not reset. *)
RemoveAll_KeepsLowest ==
  /\ pa_free # pa_size
  /\ pa_addr' = [i \in 0 .. pa_size - 1 |-> NoPtr]
  /\ pa_free' = pa_size
  /\ pa_done' = Done(0, NoPtr, TRUE)
  /\ UNCHANGED <<pa_size, pa_lowest>>

RemoveAll ==
  /\ pa_free # pa_size
  /\ pa_addr' = [i \in 0 .. pa_size - 1 |-> NoPtr]
  /\ pa_lowest' = 0
  /\ pa_free' = pa_size
  /\ pa_done' = Done(0, NoPtr, TRUE)
  /\ UNCHANGED pa_size

GetItem(index) == IF pa_size <= index THEN NoPtr ELSE pa_addr[index]

(* The indices callers ask for, up to and past the maximum size. *)
Index == 0 .. ArrayMax
ArrayNext ==
  \/ \E p \in Stored : Add(p)
  \/ \E i \in Index, v \in Stored \cup {NoPtr} : SetItem(i, v)
  \/ \E i \in Index, p \in Stored : TestAndSetItem(i, p)
  \/ \E n \in Index : SetSize(n)
  \/ RemoveAll
ArraySpec == ArrayInit /\ [][ArrayNext]_pa_vars
-----------------------------------------------------------------------------
FreeSlots == {i \in 0 .. pa_size - 1 : pa_addr[i] = NoPtr}

(* The count and the lowest free slot are exact after any mix of adds, sets, *)
(* clears and growth, so an add never overwrites a pointer and never grows a *)
(* table that has room: the asserts of ww_pointer_array.c:126-135 hold.      *)
(* This needs an even maximum, as both users have: with an odd one, the      *)
(* entry before the maximum is written past the table (311-330).             *)
FreeSlotsExact ==
  /\ pa_free = Cardinality(FreeSlots)
  /\ pa_lowest = FirstFree(pa_addr, pa_size, 0)
=============================================================================
