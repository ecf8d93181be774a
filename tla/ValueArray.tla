----------------------------- MODULE ValueArray -----------------------------
(* ww_value_array_t: elements kept by value in memory that grows.  The       *)
(* memory past the size keeps what was there.                                *)
EXTENDS Integers
CONSTANTS Element_,   \* the values stored
          Junk,       \* what memory holds before it is written
          MaxItems    \* bound: the largest index asked for is MaxItems - 1
ASSUME ValueArrayAssumption == Junk \notin Element_ /\ MaxItems \in Nat \ {0}
VARIABLES va_items,   \* the memory, a function on 0 .. va_alloc - 1
          va_size, va_alloc,
          va_did      \* the last call: [op, index, value]
va_vars == <<va_items, va_size, va_alloc, va_did>>

Did(op, index, value) == va_did' = [op |-> op, index |-> index, value |-> value]

(* Construct and init: memory for one element. *)
ValueInit ==
  /\ va_items = [i \in {0} |-> Junk]
  /\ va_size = 0
  /\ va_alloc = 1
  /\ va_did = [op |-> "init", index |-> 0, value |-> Junk]

Resized(n) == [i \in 0 .. n - 1 |-> IF i < va_alloc THEN va_items[i] ELSE Junk]

(* A mutant: it doubles once. *)
Doubled_Once(size) == va_alloc * 2

(* The allocation doubles until it covers the size. *)
Doubled(size) ==
  LET alloc[k \in 0 .. size] == IF k = 0 THEN va_alloc ELSE 2 * alloc[k - 1]
  IN alloc[CHOOSE k \in 0 .. size : /\ alloc[k] >= size
                                    /\ \A j \in 0 .. k - 1 : alloc[j] < size]
AllocFor(size) == IF size > va_alloc THEN Doubled(size) ELSE va_alloc

SetArraySize(size) ==
  /\ va_items' = Resized(AllocFor(size))
  /\ va_alloc' = AllocFor(size)
  /\ va_size' = size
  /\ Did("size", size, Junk)

(* Memory is reserved exactly, not by doubling; the size stays. *)
Reserve(size) ==
  /\ size > va_alloc
  /\ va_items' = Resized(size)
  /\ va_alloc' = size
  /\ Did("reserve", size, Junk)
  /\ UNCHANGED va_size

(* Asking for an element past the size grows the array to hold it. *)
GrowTo(index) == IF index >= va_size THEN index + 1 ELSE va_size
GetElement(index) ==
  /\ va_items' = Resized(AllocFor(GrowTo(index)))
  /\ va_alloc' = AllocFor(GrowTo(index))
  /\ va_size' = GrowTo(index)
  /\ Did("get", index, va_items'[index])
SetElement(index, v) ==
  /\ va_items' = [Resized(AllocFor(GrowTo(index))) EXCEPT ![index] = v]
  /\ va_alloc' = AllocFor(GrowTo(index))
  /\ va_size' = GrowTo(index)
  /\ Did("set", index, v)
AppendElement(v) == va_size < MaxItems /\ SetElement(va_size, v)

(* The elements after the one removed are moved down. *)
RemoveElement(index) ==
  /\ index < va_size
  /\ va_items' = [i \in DOMAIN va_items |->
                    IF i \in index .. va_size - 2 THEN va_items[i + 1] ELSE va_items[i]]
  /\ va_size' = va_size - 1
  /\ Did("remove", index, va_items[index])
  /\ UNCHANGED va_alloc

ValueNext ==
  \/ \E n \in 0 .. MaxItems : SetArraySize(n) \/ Reserve(n)
  \/ \E i \in 0 .. MaxItems - 1 : \/ GetElement(i) \/ RemoveElement(i)
                                  \/ \E v \in Element_ : SetElement(i, v)
  \/ \E v \in Element_ : AppendElement(v)
ValueSpec == ValueInit /\ [][ValueNext]_va_vars
-----------------------------------------------------------------------------
(* No call moves or changes an element but the one it sets, and a removal    *)
(* moves those after it down by one: growth by doubling, growth by reserving *)
(* and shrinking never lose an element, and the memory always covers the     *)
(* size (ww_value_array.h:75-90, 151-254, ww_value_array.c:46-66).           *)
ElementsKept == [][
  /\ va_size' <= va_alloc'
  /\ \A i \in 0 .. va_size - 1 :
       \/ i >= va_size' /\ va_did'.op # "remove"
       \/ i = va_did'.index /\ va_did'.op \in {"set", "remove"}
       \/ va_did'.op = "remove" /\ i > va_did'.index /\ va_items'[i - 1] = va_items[i]
       \/ (va_did'.op = "remove" => i < va_did'.index) /\ va_items'[i] = va_items[i]
  /\ va_did'.op = "set" => va_items'[va_did'.index] = va_did'.value]_va_vars
=============================================================================
