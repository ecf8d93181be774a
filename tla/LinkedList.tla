----------------------------- MODULE LinkedList -----------------------------
(* ww_list_t: doubly linked lists that share their items, each closed into a *)
(* ring by a sentinel and with a count of its items beside it.  The owner of *)
(* an item is what a debugging build records and asserts.                    *)
EXTENDS Integers, Sequences, FiniteSets
CONSTANTS Item, ListName,   \* the items, and the lists named by their sentinels
          Rank,             \* the order that sort's comparison gives the items
          MaxExcess,        \* bound on the counts' excess over the items
          Nothing           \* NULL
ASSUME ListAssumption ==
  /\ Item \cap ListName = {} /\ Nothing \notin Item \cup ListName
  /\ IsFiniteSet(Item) /\ IsFiniteSet(ListName)
  /\ Rank \in [Item -> Int] /\ MaxExcess \in Nat
VARIABLES li_next, li_prev, \* of every item and of every sentinel
          li_owner,         \* the list an item belongs to
          li_length         \* the count of every list
li_vars == <<li_next, li_prev, li_owner, li_length>>

Node == Item \cup ListName

(* The node k steps along the links from n on. *)
Step(links, n, k) ==
  LET at[j \in 0 .. k] == IF j = 0 THEN n ELSE links[at[j - 1]] IN at[k]
(* The nodes from n on until `last`, which is left out. *)
Chain(links, n, last) ==
  LET before == {k \in 1 .. Cardinality(Node) : \A j \in 0 .. k - 1 : Step(links, n, j) # last}
  IN [k \in 1 .. Cardinality(before) |-> Step(links, n, k - 1)]
Content(l) == Chain(li_next, li_next[l], l)

(* The constructors of items and lists. *)
ListInit ==
  /\ li_next = [n \in Node |-> IF n \in Item THEN Nothing ELSE n]
  /\ li_prev = li_next
  /\ li_owner = [i \in Item |-> Nothing]
  /\ li_length = [l \in ListName |-> 0]

(* The item i linked in between the neighbours before and after it. *)
Link(before, i, after, l) ==
  /\ li_next' = [li_next EXCEPT ![i] = after, ![before] = i]
  /\ li_prev' = [li_prev EXCEPT ![i] = before, ![after] = i]
  /\ li_owner' = [li_owner EXCEPT ![i] = l]

Append_(l, i) ==
  /\ li_owner[i] = Nothing
  /\ Link(li_prev[l], i, l, l)
  /\ li_length' = [li_length EXCEPT ![l] = @ + 1]
(* A mutant: a prepended item is not counted. *)
Prepend_Uncounted(l, i) ==
  /\ li_owner[i] = Nothing
  /\ Link(l, i, li_next[l], l)
  /\ UNCHANGED li_length

Prepend(l, i) ==
  /\ li_owner[i] = Nothing
  /\ Link(l, i, li_next[l], l)
  /\ li_length' = [li_length EXCEPT ![l] = @ + 1]
InsertPos(l, pos, i) ==
  /\ li_owner[i] = Nothing
  /\ pos = l \/ (pos \in Item /\ li_owner[pos] = l)
  /\ Link(li_prev[pos], i, pos, l)
  /\ li_length' = [li_length EXCEPT ![l] = @ + 1]

(* The index counts from 0; at index 0 the prepend has counted the item when *)
(* insert counts it.  When a list whose count is too high has no item left,  *)
(* removing one, and joining it, takes the sentinel for an item, and so do   *)
(* sort and destruction, which remove all: undefined and not modelled.       *)
Insert(l, i, idx) ==
  /\ li_owner[i] = Nothing
  /\ idx < li_length[l]
  /\ idx = 0 => \A m \in ListName : li_length[m] < Len(Content(m)) + MaxExcess
  /\ IF idx = 0
     THEN /\ Link(l, i, li_next[l], l)
          /\ li_length' = [li_length EXCEPT ![l] = @ + 2]
     ELSE LET ptr == Step(li_next, li_next[l], idx - 1)
          IN /\ Link(ptr, i, li_next[ptr], l)
             /\ li_length' = [li_length EXCEPT ![l] = @ + 1]

(* The links around the item i are closed; its own are kept or cleared. *)
Unlink(l, i, cleared) ==
  /\ li_next' = [li_next EXCEPT ![li_prev[i]] = li_next[i],
                                ![i] = IF cleared THEN Nothing ELSE @]
  /\ li_prev' = [li_prev EXCEPT ![li_next[i]] = li_prev[i],
                                ![i] = IF cleared THEN Nothing ELSE @]
  /\ li_owner' = [li_owner EXCEPT ![i] = Nothing]
  /\ li_length' = [li_length EXCEPT ![l] = @ - 1]
RemoveItem(l, i) ==
  /\ \E k \in DOMAIN Content(l) : Content(l)[k] = i
  /\ Unlink(l, i, FALSE)
Removable(l) == li_length[l] # 0 /\ Content(l) # <<>>
ListRemoveFirst(l) == Removable(l) /\ Unlink(l, li_next[l], TRUE)
ListRemoveLast(l)  == Removable(l) /\ Unlink(l, li_prev[l], TRUE)

(* A mutant: the neighbour of pos is linked by its old successor's link. *)
Transfer_Unlinked(pos, first, last, l) ==
  LET moved == Chain(li_next, first, last)
  IN /\ li_next' = [li_next EXCEPT ![li_prev[last]] = pos, ![li_prev[first]] = last]
     /\ li_prev' = [li_prev EXCEPT ![pos] = li_prev[last], ![last] = li_prev[first],
                                   ![first] = li_prev[pos]]
     /\ li_owner' = [i \in Item |-> IF \E k \in DOMAIN moved : moved[k] = i
                                    THEN l ELSE li_owner[i]]

(* [first, last) moves before pos, whose list becomes the owner. *)
Transfer(pos, first, last, l) ==
  LET moved == Chain(li_next, first, last)
  IN /\ li_next' = [li_next EXCEPT ![li_prev[last]] = pos, ![li_prev[first]] = last,
                                   ![li_prev[pos]] = first]
     /\ li_prev' = [li_prev EXCEPT ![pos] = li_prev[last], ![last] = li_prev[first],
                                   ![first] = li_prev[pos]]
     /\ li_owner' = [i \in Item |-> IF \E k \in DOMAIN moved : moved[k] = i
                                    THEN l ELSE li_owner[i]]
Join(l, pos, x) ==
  /\ l # x /\ (pos = l \/ (pos \in Item /\ li_owner[pos] = l))
  /\ Removable(x)
  /\ Transfer(pos, li_next[x], x, l)
  /\ li_length' = [li_length EXCEPT ![l] = @ + li_length[x], ![x] = 0]

(* The header's conditions: [first, last) is a range of x, pos is an element *)
(* or the end of l outside of the range.                                     *)
Splice(l, pos, x, first, last) ==
  LET moved == Chain(li_next, first, last)
      change == Len(moved)
  IN /\ pos = l \/ (pos \in Item /\ li_owner[pos] = l)
     /\ first \in Item /\ li_owner[first] = x
     /\ last = x \/ (last \in Item /\ li_owner[last] = x)
     /\ first # last /\ \A k \in DOMAIN moved : moved[k] \in Item \ {pos}
     /\ IF pos = last THEN UNCHANGED <<li_next, li_prev, li_owner>>
                      ELSE Transfer(pos, first, last, l)
     /\ li_length' = [[li_length EXCEPT ![l] = @ + change] EXCEPT ![x] = @ - change]

(* All items are removed into an array, sorted there, and appended again. *)
Sort(l) ==
  LET n == li_length[l]
      old == Content(l)
      sorted == CHOOSE s \in [1 .. n -> Item] :
                  /\ {s[k] : k \in 1 .. n} = {old[k] : k \in DOMAIN old}
                  /\ \A j, k \in 1 .. n : j < k => Rank[s[j]] <= Rank[s[k]]
      at(k) == IF k \in 1 .. n THEN sorted[k] ELSE l
      where(i) == CHOOSE k \in 1 .. n : sorted[k] = i
  IN /\ n # 0 /\ n = Len(old)
     /\ li_next' = [m \in Node |-> IF m = l THEN at(1) ELSE
                      IF m \in Item /\ li_owner[m] = l THEN at(where(m) + 1) ELSE li_next[m]]
     /\ li_prev' = [m \in Node |-> IF m = l THEN at(n) ELSE
                      IF m \in Item /\ li_owner[m] = l THEN at(where(m) - 1) ELSE li_prev[m]]
     /\ UNCHANGED <<li_owner, li_length>>

(* WW_LIST_DESTRUCT and a new construction: all items are removed first. *)
Empty(l) ==
  /\ li_length[l] = Len(Content(l))
  /\ li_next' = [n \in Node |-> IF n = l THEN l
                   ELSE IF n \in Item /\ li_owner[n] = l THEN Nothing ELSE li_next[n]]
  /\ li_prev' = [n \in Node |-> IF n = l THEN l
                   ELSE IF n \in Item /\ li_owner[n] = l THEN Nothing ELSE li_prev[n]]
  /\ li_owner' = [i \in Item |-> IF li_owner[i] = l THEN Nothing ELSE li_owner[i]]
  /\ li_length' = [li_length EXCEPT ![l] = 0]

ListNext == \E l \in ListName :
  \/ \E i \in Item : Append_(l, i) \/ Prepend(l, i) \/ RemoveItem(l, i)
  \/ \E i \in Item, pos \in Node : InsertPos(l, pos, i)
  \/ \E i \in Item, idx \in 0 .. Cardinality(Item) : Insert(l, i, idx)
  \/ ListRemoveFirst(l) \/ ListRemoveLast(l) \/ Sort(l) \/ Empty(l)
  \/ \E x \in ListName, pos \in Node : Join(l, pos, x)
  \/ \E x \in ListName, pos, first, last \in Node : Splice(l, pos, x, first, last)
ListSpec == ListInit /\ [][ListNext]_li_vars
-----------------------------------------------------------------------------
(* Every operation on links that are shared between lists is the operation   *)
(* on sequences it stands for, the moves of ranges within one list and       *)
(* between two included (ww_list.c:114-260, ww_list.h:477-797).              *)
Sequence == INSTANCE ItemLists WITH Items <- Item, Names <- ListName, Order <- Rank,
              lists <- [l \in ListName |-> Content(l)]
ListsAreSequences == Sequence!Spec

(* Walked backwards a list has the same items, they are the ones it owns,    *)
(* and the count that get_size returns is never less than theirs: no removal *)
(* is refused while an item is left (ww_list.h:411-453, 613-671).            *)
LinksAgree == \A l \in ListName :
  /\ \A n \in {l} \cup {i \in Item : li_owner[i] = l} :
       li_next[n] \in Node /\ li_prev[li_next[n]] = n
  /\ {Content(l)[k] : k \in DOMAIN Content(l)} = {i \in Item : li_owner[i] = l}
  /\ li_length[l] >= Len(Content(l))

(* "Return the number of items in a list" (ww_list.h:411).                   *)
SizeIsItems == \A l \in ListName : li_length[l] = Len(Content(l))
=============================================================================
