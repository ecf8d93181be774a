----------------------------- MODULE HashTable ------------------------------
(* ww_hash_table_t: open addressing with linear probing.  A key of 32 bits,  *)
(* of 64 bits or of bytes differs in its hash only; one table holds one kind *)
(* of key until everything is removed.                                       *)
EXTENDS Integers, FiniteSets
CONSTANTS KeyOf,          \* [kind -> set of keys], the kinds of keys
          HashOf,         \* [key -> number], what the kind's hash_elt computes
          HashValue,      \* the values stored
          EstimatedSize, DensityNumer, DensityDenom, GrowthNumer, GrowthDenom,
          NoValue         \* NULL
HashKey == UNION {KeyOf[k] : k \in DOMAIN KeyOf}
ASSUME HashAssumption ==
  /\ HashOf \in [HashKey -> Nat] /\ NoValue \notin HashValue
  /\ DOMAIN KeyOf = {"uint32", "uint64", "ptr"}
  /\ \A j, k \in DOMAIN KeyOf : j # k => KeyOf[j] \cap KeyOf[k] = {}
  /\ {EstimatedSize, DensityNumer, DensityDenom, GrowthNumer, GrowthDenom} \subseteq Nat \ {0}
  /\ DensityNumer <= DensityDenom /\ GrowthNumer >= GrowthDenom
VARIABLES ht_table,       \* [slot -> element]; a slot is valid or not
          ht_capacity, ht_size, ht_trigger,
          ht_kind,        \* ht_type_methods: the kind in use, or NoValue
          ht_copies,      \* the byte keys the table has copied and not freed
          ht_out          \* the value the last call found, stored or removed
ht_vars == <<ht_table, ht_capacity, ht_size, ht_trigger, ht_kind, ht_copies, ht_out>>

(* What a slot that is not valid still holds is never read. *)
Vacant == [valid |-> FALSE, key |-> NoValue, value |-> NoValue]
Element(k, v) == [valid |-> TRUE, key |-> k, value |-> v]

RoundCapacityUp(n) == ((n + 29) \div 30) * 30 + 1
Trigger(capacity) == (capacity * DensityNumer) \div DensityDenom

(* Construct and init2. *)
HashInit ==
  /\ ht_capacity = RoundCapacityUp((EstimatedSize * DensityDenom) \div DensityNumer)
  /\ ht_table = [i \in 0 .. ht_capacity - 1 |-> Vacant]
  /\ ht_size = 0
  /\ ht_trigger = Trigger(ht_capacity)
  /\ ht_kind = NoValue
  /\ ht_copies = {}
  /\ ht_out = NoValue

Capacity(table) == Cardinality(DOMAIN table)
(* The slot m steps after slot i of n slots, going round. *)
Probe(n, i, m) == IF i + m < n THEN i + m ELSE i + m - n
(* The first of some slots that a probe from slot i on comes to. *)
FirstSlot(n, i, slots) ==
  Probe(n, i, CHOOSE m \in 0 .. n - 1 : /\ Probe(n, i, m) \in slots
                                       /\ \A l \in 0 .. m - 1 : Probe(n, i, l) \notin slots)
Home(n, key) == HashOf[key] % n
(* Where a search for the key stops: at the key or at a vacant slot. *)
Search(table, key) ==
  FirstSlot(Capacity(table), Home(Capacity(table), key),
            {i \in DOMAIN table : ~table[i].valid \/ table[i].key = key})

(* The table with an element put where a search for its key stops. *)
Placed(table, e) == IF e.valid THEN [table EXCEPT ![Search(table, e.key)] = e] ELSE table
(* Every valid element of the table, in the order of its slots, is put into  *)
(* a new table of n slots.                                                   *)
Rehashed(table, n) ==
  LET new[i \in 0 .. Capacity(table)] ==
        IF i = 0 THEN [j \in 0 .. n - 1 |-> Vacant] ELSE Placed(new[i - 1], table[i - 1])
  IN new[Capacity(table)]

(* A call with a key of another kind than the table holds is refused. *)
Using(kind, key) ==
  /\ key \in KeyOf[kind]
  /\ ht_kind \in {NoValue, kind}
  /\ ht_kind' = kind

Lookup(key) ==
  /\ ht_out' = LET i == Search(ht_table, key)
               IN IF ht_table[i].valid THEN ht_table[i].value ELSE NoValue
  /\ UNCHANGED <<ht_table, ht_capacity, ht_size, ht_trigger>>

(* A new element that makes the size hit the trigger makes the table grow. *)
Store(key, value) ==
  LET i    == Search(ht_table, key)
      new  == ~ht_table[i].valid
      put  == [ht_table EXCEPT ![i] = Element(key, value)]
      capacity == RoundCapacityUp((ht_capacity * GrowthNumer) \div GrowthDenom)
  IN /\ ht_out' = value
     /\ ht_size' = IF new THEN ht_size + 1 ELSE ht_size
     /\ IF new /\ ht_size + 1 >= ht_trigger
        THEN /\ ht_table' = Rehashed(put, capacity)
             /\ ht_capacity' = capacity
             /\ ht_trigger' = Trigger(capacity)
        ELSE ht_table' = put /\ UNCHANGED <<ht_capacity, ht_trigger>>

(* After the gap at slot i the elements up to the next vacant slot are       *)
(* hashed again, and move down when a slot between their home and where they *)
(* are is vacant.                                                            *)
MovedDown(table, j) ==
  LET n  == Capacity(table)
      to == FirstSlot(n, Home(n, table[j].key), {s \in DOMAIN table : s = j \/ ~table[s].valid})
  IN IF to = j THEN table ELSE [table EXCEPT ![to] = table[j], ![j] = Vacant]
(* One step of the scan: the table, and whether the scan has ended. *)
Scanned(was, j) ==
  IF was.ended \/ ~was.table[j].valid THEN [table |-> was.table, ended |-> TRUE]
  ELSE [table |-> MovedDown(was.table, j), ended |-> FALSE]
(* Mutation: the scan ends with the last slot and does not go round. *)
Reinsert_ToTheEnd(table, i) ==
  LET n == Capacity(table)
      after[k \in 0 .. n - 1] ==
        IF k = 0 THEN [table |-> table, ended |-> FALSE]
        ELSE IF i + k >= n THEN after[k - 1] ELSE Scanned(after[k - 1], Probe(n, i, k))
  IN after[n - 1].table
Reinsert(table, i) ==
  LET n == Capacity(table)
      after[k \in 0 .. n - 1] ==
        IF k = 0 THEN [table |-> table, ended |-> FALSE]
        ELSE Scanned(after[k - 1], Probe(n, i, k))
  IN after[n - 1].table

Delete(key) ==
  LET i == Search(ht_table, key)
  IN /\ IF ht_table[i].valid
        THEN /\ ht_table' = Reinsert([ht_table EXCEPT ![i] = Vacant], i)
             /\ ht_size' = ht_size - 1
             /\ ht_out' = ht_table[i].value
        ELSE ht_out' = NoValue /\ UNCHANGED <<ht_table, ht_size>>
     /\ UNCHANGED <<ht_capacity, ht_trigger>>

GetUint32(key)    == Using("uint32", key) /\ Lookup(key) /\ UNCHANGED ht_copies
SetUint32(key, v) == Using("uint32", key) /\ Store(key, v) /\ UNCHANGED ht_copies
RemoveUint32(key) == Using("uint32", key) /\ Delete(key) /\ UNCHANGED ht_copies
GetUint64(key)    == Using("uint64", key) /\ Lookup(key) /\ UNCHANGED ht_copies
SetUint64(key, v) == Using("uint64", key) /\ Store(key, v) /\ UNCHANGED ht_copies
RemoveUint64(key) == Using("uint64", key) /\ Delete(key) /\ UNCHANGED ht_copies
GetPtr(key)       == Using("ptr", key) /\ Lookup(key) /\ UNCHANGED ht_copies
(* Of a new byte key the table keeps a copy, which the element's destructor  *)
(* frees.                                                                    *)
SetPtr(key, v) ==
  /\ Using("ptr", key)
  /\ Store(key, v)
  /\ ht_copies' = IF ht_table[Search(ht_table, key)].valid
                  THEN ht_copies ELSE ht_copies \cup {key}
RemovePtr(key) ==
  /\ Using("ptr", key)
  /\ Delete(key)
  /\ ht_copies' = IF ht_table[Search(ht_table, key)].valid
                  THEN ht_copies \ {key} ELSE ht_copies

(* The kind is forgotten: the table may be used for other keys. *)
RemoveAllValues ==
  /\ ht_table' = [i \in DOMAIN ht_table |-> Vacant]
  /\ ht_size' = 0
  /\ ht_kind' = NoValue
  /\ ht_copies' = {}
  /\ ht_out' = NoValue
  /\ UNCHANGED <<ht_capacity, ht_trigger>>

(* The next element of a traversal after the slot i, from slot 0 for i = -1. *)
NextElement(table, i) ==
  LET later == {j \in DOMAIN table : j > i /\ table[j].valid}
  IN IF later = {} THEN -1 ELSE CHOOSE j \in later : \A k \in later : j <= k

HashNext ==
  \/ \E k \in HashKey : \/ GetUint32(k) \/ RemoveUint32(k)
                        \/ GetUint64(k) \/ RemoveUint64(k)
                        \/ GetPtr(k) \/ RemovePtr(k)
  \/ \E k \in HashKey, v \in HashValue : SetUint32(k, v) \/ SetUint64(k, v) \/ SetPtr(k, v)
  \/ RemoveAllValues
HashSpec == HashInit /\ [][HashNext]_ht_vars
-----------------------------------------------------------------------------
ValidSlots(table) == {i \in DOMAIN table : table[i].valid}
(* The slots that the first n calls of a traversal return. *)
Visited(table, n) ==
  LET at[m \in 0 .. n] ==
        IF m = 0 THEN NextElement(table, -1)
        ELSE IF at[m - 1] = -1 THEN -1 ELSE NextElement(table, at[m - 1])
  IN {at[m] : m \in 0 .. n} \ {-1}
(* The map that the valid elements make. *)
Contents(table) ==
  [k \in {table[i].key : i \in ValidSlots(table)} |->
     table[CHOOSE i \in ValidSlots(table) : table[i].key = k].value]

(* Whatever was set, removed, moved down and rehashed before, the table is   *)
(* the map that its calls describe: to a search, to a traversal, and in the  *)
(* copies it keeps of byte keys (ww_hash_table.c:212-397, 554-796).          *)
Map == INSTANCE KeyedValues WITH Keys <- HashKey, Values <- HashValue,
           Absent <- NoValue, CopiedKeys <- KeyOf["ptr"],
           store <- Contents(ht_table), copies <- ht_copies, found <- ht_out
TableIsMap == Map!Spec /\ [](Visited(ht_table, ht_size) = ValidSlots(ht_table))

=============================================================================
