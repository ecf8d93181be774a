---------------------------- MODULE KeyedValues -----------------------------
(* What a hash table promises: a map from keys to values, with a copy of     *)
(* each key of some kinds while it is in the map.  `found` is what the last  *)
(* call returned.                                                            *)
CONSTANTS Keys, Values, Absent, CopiedKeys
VARIABLES store, copies, found

Init == store = [k \in {} |-> Absent] /\ copies = {} /\ found = Absent
Value(k) == IF k \in DOMAIN store THEN store[k] ELSE Absent

Get(k) == found' = Value(k) /\ UNCHANGED store
Set(k, v) == store' = [j \in DOMAIN store \cup {k} |-> IF j = k THEN v ELSE store[j]] /\ found' = v
Remove(k) ==
  /\ store' = [j \in DOMAIN store \ {k} |-> store[j]]
  /\ found' = Value(k)
Clear == store' = [k \in {} |-> Absent] /\ found' = Absent

Next == /\ \/ Clear
           \/ \E k \in Keys : Get(k) \/ Remove(k) \/ \E v \in Values : Set(k, v)
        /\ copies' = DOMAIN store' \cap CopiedKeys
Spec == Init /\ [][Next]_<<store, copies, found>>
=============================================================================
