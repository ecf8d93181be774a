----------------------------- MODULE ItemLists ------------------------------
(* What the linked lists promise: each list is a sequence of items, an item  *)
(* is on one list at most, and sorting puts the items of a list in order.    *)
EXTENDS Integers, SequencesExt
CONSTANTS Items, Names,
          Order     \* [Items -> Int]
VARIABLES lists

On(n) == {lists[n][k] : k \in DOMAIN lists[n]}
Free == Items \ UNION {On(n) : n \in Names}
Put(n, s) == lists' = [lists EXCEPT ![n] = s]

Init == lists = [n \in Names |-> <<>>]

Insert(n) == \E i \in Free, k \in 1 .. Len(lists[n]) + 1 : Put(n, InsertAt(lists[n], k, i))
Take(n)   == \E k \in DOMAIN lists[n] : Put(n, RemoveAt(lists[n], k))
Clear(n) == Put(n, <<>>)
Sort(n) == \E s \in SetToSeqs(On(n)) :
  /\ \A j, k \in DOMAIN s : j < k => Order[s[j]] <= Order[s[k]]
  /\ Put(n, s)

(* The list s without the entries a .. b, and with t before its entry k + 1. *)
Cut(s, a, b) == SubSeq(s, 1, a - 1) \o SubSeq(s, b + 1, Len(s))
Paste(s, k, t) == SubSeq(s, 1, k) \o t \o SubSeq(s, k + 1, Len(s))

(* The entries a .. b of the list x move, in order, into the list n. *)
Move(n, x) ==
  \E a, b \in DOMAIN lists[x] :
    LET moved == SubSeq(lists[x], a, b)
        rest  == IF n = x THEN Cut(lists[x], a, b) ELSE lists[n]
    IN /\ a <= b
       /\ \E k \in 0 .. Len(rest) :
            lists' = [m \in Names |-> CASE m = n            -> Paste(rest, k, moved)
                                        [] m = x /\ m # n   -> Cut(lists[x], a, b)
                                        [] OTHER            -> lists[m]]

Next == \E n \in Names : \/ Insert(n) \/ Take(n) \/ Clear(n) \/ Sort(n)
                         \/ \E x \in Names : Move(n, x)
Spec == Init /\ [][Next]_lists
=============================================================================
