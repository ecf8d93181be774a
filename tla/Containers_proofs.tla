------------------------- MODULE Containers_proofs --------------------------
(* The ring buffer is a bounded queue, for every size and every order of     *)
(* calls; the pointer array's free slots stay exact, for every size of the   *)
(* table; the linked lists, sharing their items, are sequences, for every    *)
(* number of items and lists; no element of a value array is lost or moved,  *)
(* for every size asked for; and the hash table is a map, for every set of   *)
(* keys, every hash of them and every size, density and growth that leaves a *)
(* slot vacant.                                                              *)
EXTENDS RingBuffer, PointerArray, LinkedList, ValueArray, HashTable,
        SequenceTheorems, FiniteSetTheorems, WellFoundedInduction, TLAPS
-----------------------------------------------------------------------------
(* The slots in use are those from the tail up to the head, going round; if  *)
(* both are the same slot, all are.                                          *)
Used(s) == IF ring_tail < ring_head THEN ring_tail <= s /\ s < ring_head
                                    ELSE ring_tail <= s \/ s < ring_head
RingInv ==
  /\ ring_head \in Slot /\ ring_tail \in Slot \cup {-1}
  /\ ring_addr \in [Slot -> Pointer \cup {NULL}]
  /\ \A s \in Slot : ring_addr[s] # NULL <=> ring_tail # -1 /\ Used(s)

LEMMA RingInitially == RingInit => RingInv
  BY RingAssumption DEF RingInit, RingInv, Slot

LEMMA RingStep == RingInv /\ [RingNext]_ring_vars => RingInv'
<1> SUFFICES ASSUME RingInv, [RingNext]_ring_vars PROVE RingInv'
  OBVIOUS
<1> USE RingAssumption DEF RingInv, Slot, Used
<1>1. CASE UNCHANGED ring_vars
  BY <1>1 DEF ring_vars
<1>2. CASE RingPop
  BY <1>2 DEF RingPop, After
<1>3. ASSUME NEW p \in Pointer, RingPush(p) PROVE RingInv'
  <2>1. CASE ring_addr[ring_head] = NULL
    BY <1>3, <2>1 DEF RingPush, After
  <2>2. CASE ring_addr[ring_head] # NULL
    <3>1. ring_tail = ring_head
      BY <2>2
    <3> QED
      BY <1>3, <2>2, <3>1 DEF RingPush, After
  <2> QED
    BY <2>1, <2>2
<1>4. ASSUME NEW i \in -1 .. RingSize, RingPoke(i) PROVE RingInv'
  BY <1>4 DEF RingPoke
<1> QED
  BY <1>1, <1>2, <1>3, <1>4 DEF RingNext
-----------------------------------------------------------------------------
(* The queue of the ring's entries: none is NULL, and there are as many as   *)
(* slots in use.  Place has the slots in the queue's order, used or not.     *)
Place == [k \in 0 .. RingSize - 1 |-> RingAt(k)]
QueueFacts ==
  /\ RingCount \in 0 .. RingSize
  /\ RingCount = 0 <=> ring_tail = -1
  /\ RingCount = RingSize <=> ring_tail = ring_head
  /\ RingQueue \in Seq(Pointer) /\ Len(RingQueue) = RingCount
  /\ \A k \in 1 .. RingCount : RingQueue[k] = ring_addr[Place[k - 1]]

LEMMA QueueOfRing == RingInv => QueueFacts
<1> SUFFICES ASSUME RingInv PROVE QueueFacts
  OBVIOUS
<1>1. /\ RingCount \in 0 .. RingSize
      /\ RingCount = 0 <=> ring_tail = -1
      /\ RingCount = RingSize <=> ring_tail = ring_head
  BY RingAssumption DEF RingInv, Slot, RingCount
<1>2. \A k \in 1 .. RingCount : ring_addr[RingAt(k - 1)] \in Pointer
  BY RingAssumption DEF RingInv, Slot, Used, RingCount, RingAt
<1>3. /\ RingQueue \in Seq(Pointer) /\ Len(RingQueue) = RingCount
      /\ \A k \in 1 .. RingCount : RingQueue[k] = ring_addr[RingAt(k - 1)]
  BY <1>1, <1>2 DEF RingQueue
<1>4. \A k \in 1 .. RingCount : Place[k - 1] = RingAt(k - 1)
  BY <1>1, RingAssumption DEF Place
<1> QED
  BY <1>1, <1>3, <1>4 DEF QueueFacts

LEMMA RingInitIsQueueInit == RingInit => Queue!Init
  BY DEF RingInit, RingQueue, RingCount, Queue!Init

LEMMA RingPushIsPush ==
  ASSUME RingInv, QueueFacts, QueueFacts', NEW p \in Pointer, RingPush(p)
  PROVE  Queue!Push(p)
<1> USE RingAssumption DEF RingInv, Slot, Used
<1>1. CASE ring_addr[ring_head] = NULL
  <2>1. RingCount < RingSize /\ RingCount \in Nat
    BY <1>1 DEF QueueFacts
  <2>2. RingCount' = RingCount + 1
    <3>1. CASE ring_tail = -1
      <4>1. ring_tail' = ring_head /\ ring_head' = After(ring_head) /\ RingCount = 0
        BY <1>1, <3>1 DEF RingPush, RingCount
      <4> QED
        BY <4>1 DEF RingCount, After
    <3>2. CASE ring_tail # -1
      <4>1. ring_tail' = ring_tail /\ ring_head' = After(ring_head)
        BY <1>1, <3>2 DEF RingPush
      <4>2. ring_tail # ring_head
        BY <1>1, <3>2
      <4> QED
        BY <3>2, <4>1, <4>2 DEF RingCount, After
    <3> QED
      BY <3>1, <3>2
  <2>3. /\ \A k \in 1 .. RingCount : Place'[k - 1] \in Slot \ {ring_head} /\ Place'[k - 1] = Place[k - 1]
        /\ Place'[RingCount] = ring_head
    <3>1. CASE ring_tail = -1
      <4>1. RingCount = 0 /\ ring_tail' = ring_head
        BY <1>1, <3>1 DEF RingPush, RingCount
      <4> QED
        BY <4>1 DEF Place, RingAt
    <3>2. CASE ring_tail # -1
      <4>1. ring_tail' = ring_tail
        BY <1>1, <3>2 DEF RingPush
      <4>2. Place' = Place
        BY <4>1 DEF Place, RingAt
      <4>3. /\ \A k \in 1 .. RingCount : Place[k - 1] \in Slot \ {ring_head}
            /\ Place[RingCount] = ring_head
        BY <1>1, <2>1, <3>2 DEF RingCount, Place, RingAt
      <4> QED
        BY <4>2, <4>3
    <3> QED
      BY <3>1, <3>2
  <2>4. /\ \A k \in 1 .. RingCount : RingQueue'[k] = RingQueue[k]
        /\ RingQueue'[RingCount + 1] = p
    <3>1. ring_addr' = [ring_addr EXCEPT ![ring_head] = p]
      BY DEF RingPush
    <3>2. \A k \in 1 .. RingCount + 1 : RingQueue'[k] = ring_addr'[Place'[k - 1]]
      BY <2>2 DEF QueueFacts
    <3>3. \A k \in 1 .. RingCount : RingQueue[k] = ring_addr[Place[k - 1]]
      BY DEF QueueFacts
    <3>4. ASSUME NEW k \in 1 .. RingCount PROVE RingQueue'[k] = RingQueue[k]
      BY <2>1, <2>3, <3>1, <3>2, <3>3
    <3>5. RingQueue'[RingCount + 1] = p
      BY <2>1, <2>3, <3>1, <3>2
    <3> QED
      BY <3>4, <3>5
  <2>5. /\ Append(RingQueue, p) \in Seq(Pointer) /\ Len(Append(RingQueue, p)) = RingCount + 1
        /\ \A k \in 1 .. RingCount + 1 :
             Append(RingQueue, p)[k] = IF k = RingCount + 1 THEN p ELSE RingQueue[k]
    BY AppendProperties DEF QueueFacts
  <2>6. RingQueue' = Append(RingQueue, p)
    <3>1. \A k \in 1 .. RingCount + 1 : RingQueue'[k] = Append(RingQueue, p)[k]
      BY <2>1, <2>4, <2>5
    <3> QED
      BY <3>1, <2>2, <2>5, SeqEqual DEF QueueFacts
  <2> QED
    BY <1>1, <2>1, <2>6 DEF RingPush, Queue!Push, QueueFacts
<1>2. CASE ring_addr[ring_head] # NULL
  <2>1. /\ ring_tail = ring_head /\ RingCount = RingSize /\ RingQueue # <<>>
        /\ RingCount \in Nat \ {0}
    BY <1>2, EmptySeq DEF QueueFacts
  <2>2. /\ ring_tail' = After(ring_tail) /\ ring_head' = After(ring_head)
        /\ ring_addr' = [ring_addr EXCEPT ![ring_head] = p]
    BY <1>2, <2>1 DEF RingPush, After
  <2>3. RingCount' = RingCount
    BY <2>1, <2>2 DEF After, RingCount
  <2>4. /\ \A k \in 1 .. RingCount - 1 : Place'[k - 1] = Place[k] /\ Place[k] \in Slot \ {ring_head}
        /\ Place'[RingCount - 1] = ring_head
    BY <2>1, <2>2 DEF After, Place, RingAt
  <2>5. /\ \A k \in 1 .. RingCount - 1 : RingQueue'[k] = RingQueue[k + 1]
        /\ RingQueue'[RingCount] = p
    <3>1. \A k \in 1 .. RingCount : RingQueue'[k] = ring_addr'[Place'[k - 1]]
      BY <2>3 DEF QueueFacts
    <3>2. ASSUME NEW k \in 1 .. RingCount - 1 PROVE RingQueue'[k] = RingQueue[k + 1]
      <4>1. k \in 1 .. RingCount /\ k + 1 \in 1 .. RingCount /\ (k + 1) - 1 = k
        BY <2>1
      <4>2. RingQueue[k + 1] = ring_addr[Place[k]]
        BY <4>1 DEF QueueFacts
      <4> QED
        BY <2>2, <2>4, <3>1, <4>1, <4>2
    <3>3. RingQueue'[RingCount] = p
      BY <2>1, <2>2, <2>4, <3>1
    <3> QED
      BY <3>2, <3>3
  <2> DEFINE rest == Tail(RingQueue)
  <2>6. /\ rest \in Seq(Pointer) /\ Len(rest) = RingCount - 1
        /\ \A k \in 1 .. RingCount - 1 : rest[k] = RingQueue[k + 1]
    BY <2>1, HeadTailProperties DEF QueueFacts
  <2>7. ring_ret' = Head(RingQueue)
    <3>1. Head(RingQueue) = RingQueue[1] /\ RingQueue[1] = ring_addr[Place[0]]
      BY <2>1 DEF QueueFacts
    <3> QED
      BY <2>1, <3>1 DEF RingPush, Place, RingAt
  <2> HIDE DEF rest
  <2>8. /\ Append(rest, p) \in Seq(Pointer) /\ Len(Append(rest, p)) = RingCount
        /\ \A k \in 1 .. RingCount :
             Append(rest, p)[k] = IF k = RingCount THEN p ELSE rest[k]
    BY <2>1, <2>6, AppendProperties
  <2>9. RingQueue' = Append(rest, p)
    <3>1. \A k \in 1 .. RingCount : RingQueue'[k] = Append(rest, p)[k]
      BY <2>1, <2>5, <2>6, <2>8
    <3> QED
      BY <3>1, <2>3, <2>8, SeqEqual DEF QueueFacts
  <2> QED
    BY <2>1, <2>7, <2>9 DEF Queue!Push, QueueFacts, rest
<1> QED
  BY <1>1, <1>2

LEMMA RingPopIsPop ==
  ASSUME RingInv, QueueFacts, QueueFacts', RingPop
  PROVE  Queue!Pop
<1> USE RingAssumption DEF RingInv, Slot, Used
<1>1. CASE ring_tail = -1
  <2>1. RingQueue = <<>> /\ RingQueue' = RingQueue
    BY <1>1, EmptySeq DEF QueueFacts, RingPop, RingQueue, RingCount
  <2> QED
    BY <1>1, <2>1 DEF RingPop, Queue!Pop
<1>2. CASE ring_tail # -1
  <2>1. RingCount \in Nat \ {0} /\ RingCount <= RingSize /\ RingQueue # <<>>
    BY <1>2, EmptySeq DEF QueueFacts
  <2>2. /\ ring_tail' = IF After(ring_tail) = ring_head THEN -1 ELSE After(ring_tail)
        /\ ring_head' = ring_head /\ ring_ret' = ring_addr[ring_tail]
        /\ ring_addr' = [ring_addr EXCEPT ![ring_tail] = NULL]
    BY <1>2 DEF RingPop
  <2>3. RingCount' = RingCount - 1
    BY <1>2, <2>2 DEF After, RingCount
  <2>4. \A k \in 1 .. RingCount - 1 : Place'[k - 1] = Place[k] /\ Place[k] \in Slot \ {ring_tail}
    <3>1. CASE RingCount = 1
      BY <3>1
    <3>2. CASE RingCount # 1
      <4>1. ring_tail' = After(ring_tail)
        BY <1>2, <2>2, <3>2 DEF RingCount, After
      <4> QED
        BY <1>2, <2>1, <4>1 DEF After, Place, RingAt
    <3> QED
      BY <3>1, <3>2
  <2>5. ASSUME NEW k \in 1 .. RingCount - 1 PROVE RingQueue'[k] = RingQueue[k + 1]
    <3>1. k \in 1 .. RingCount' /\ k + 1 \in 1 .. RingCount /\ (k + 1) - 1 = k
      BY <2>1, <2>3
    <3>2. RingQueue[k + 1] = ring_addr[Place[k]] /\ RingQueue'[k] = ring_addr'[Place'[k - 1]]
      BY <3>1 DEF QueueFacts
    <3> QED
      BY <2>2, <2>4, <3>2
  <2>6. /\ Tail(RingQueue) \in Seq(Pointer) /\ Len(Tail(RingQueue)) = RingCount - 1
        /\ \A k \in 1 .. RingCount - 1 : Tail(RingQueue)[k] = RingQueue[k + 1]
    BY <2>1, HeadTailProperties DEF QueueFacts
  <2>7. RingQueue' = Tail(RingQueue)
    BY <2>3, <2>5, <2>6, SeqEqual DEF QueueFacts
  <2>8. ring_ret' = Head(RingQueue)
    <3>1. Head(RingQueue) = RingQueue[1] /\ RingQueue[1] = ring_addr[Place[0]]
      BY <2>1 DEF QueueFacts
    <3> QED
      BY <1>2, <2>2, <3>1 DEF Place, RingAt
  <2> QED
    BY <2>1, <2>7, <2>8 DEF Queue!Pop
<1> QED
  BY <1>1, <1>2

LEMMA RingPokeIsPeek ==
  ASSUME RingInv, QueueFacts, NEW i \in -1 .. RingSize, RingPoke(i)
  PROVE  Queue!Peek(i)
<1> USE RingAssumption DEF RingInv, Slot, Used
<1>1. RingQueue' = RingQueue
  BY DEF RingPoke, RingQueue, RingCount, RingAt
<1>2. RingQueue # <<>> <=> RingCount # 0
  BY EmptySeq DEF QueueFacts
<1>3. CASE i = -1 /\ RingCount # 0
  <2>1. ring_ret' = RingQueue[RingCount]
    <3>1. RingCount - 1 \in 0 .. RingSize - 1 /\ ring_tail # -1 /\ RingCount \in 1 .. RingCount
      BY <1>3 DEF QueueFacts
    <3>2. Place[RingCount - 1] = RingAt(RingCount - 1)
      BY <3>1 DEF Place
    <3>3. RingAt(RingCount - 1) = IF ring_head = 0 THEN RingSize - 1 ELSE ring_head - 1
      BY <3>1 DEF RingCount, RingAt
    <3>4. RingQueue[RingCount] = ring_addr[Place[RingCount - 1]]
      BY <3>1 DEF QueueFacts
    <3> QED
      BY <1>3, <3>1, <3>2, <3>3, <3>4 DEF RingPoke
  <2> QED
    BY <1>1, <1>2, <1>3, <2>1 DEF Queue!Peek, QueueFacts
<1>4. CASE i \in 0 .. RingCount - 1
  <2>1. ring_ret' = RingQueue[i + 1]
    <3>0. RingCount \in 0 .. RingSize
      BY DEF QueueFacts
    <3>1. i \in 0 .. RingSize - 1 /\ Place[i] = RingAt(i)
      <4>1. i \in 0 .. RingSize - 1
        BY <1>4, <3>0
      <4> QED
        BY <4>1 DEF Place
    <3>2. ring_ret' = ring_addr[Place[i]]
      BY <1>4, <3>1 DEF RingPoke, QueueFacts, RingAt
    <3> QED
      BY <1>4, <3>2 DEF QueueFacts
  <2> QED
    BY <1>1, <1>2, <1>4, <2>1 DEF Queue!Peek, QueueFacts
<1>5. CASE ~(i = -1 /\ RingCount # 0) /\ i \notin 0 .. RingCount - 1
  <2>1. ring_ret' = NULL
    BY <1>5 DEF RingPoke, RingCount
  <2> QED
    BY <1>1, <1>2, <1>5, <2>1 DEF Queue!Peek, QueueFacts
<1> QED
  BY <1>3, <1>4, <1>5

(* The ring of slots and two indices is the bounded queue                    *)
(* (ww_ring_buffer.c:83-154).                                                *)
THEOREM RingImplementsQueue == RingSpec => RingIsQueue
<1>1. RingInv /\ QueueFacts /\ QueueFacts' /\ [RingNext]_ring_vars
        => [Queue!Next]_<<RingQueue, ring_ret>>
  <2> SUFFICES ASSUME RingInv, QueueFacts, QueueFacts', [RingNext]_ring_vars
               PROVE  [Queue!Next]_<<RingQueue, ring_ret>>
    OBVIOUS
  <2>1. CASE UNCHANGED ring_vars
    BY <2>1 DEF ring_vars, RingQueue, RingCount, RingAt
  <2>2. CASE RingPop
    BY <2>2, RingPopIsPop DEF Queue!Next
  <2>3. ASSUME NEW p \in Pointer, RingPush(p) PROVE Queue!Next
    BY <2>3, RingPushIsPush DEF Queue!Next
  <2>4. ASSUME NEW i \in -1 .. RingSize, RingPoke(i) PROVE Queue!Next
    BY <2>4, RingPokeIsPeek DEF Queue!Next
  <2> QED
    BY <2>1, <2>2, <2>3, <2>4 DEF RingNext
<1> QED
  BY <1>1, RingInitially, RingStep, QueueOfRing, RingInitIsQueueInit, PTL
  DEF RingSpec, RingIsQueue, Queue!Spec
-----------------------------------------------------------------------------
LEMMA LeastExists ==
  ASSUME NEW S \in SUBSET Nat, S # {}
  PROVE  \E i \in S : \A j \in S : i <= j
<1>1. PICK i \in S : \A j \in S : <<j, i>> \notin OpToRel(<, Nat)
  BY NatLessThanWellFounded, WFMin
<1>2. \A j \in S : ~(j < i)
  BY <1>1 DEF OpToRel
<1> QED
  BY <1>2

FreeIn(a, n) == {i \in 0 .. n - 1 : a[i] = NoPtr}

(* The first free slot from some place on.                                   *)
LEMMA FirstFreeIs ==
  ASSUME NEW a, NEW n \in Nat, NEW from \in Nat, NEW i, i = FirstFree(a, n, from)
  PROVE  \/ i = n /\ \A j \in from .. n - 1 : a[j] # NoPtr
         \/ /\ i \in from .. n - 1 /\ a[i] = NoPtr
            /\ \A j \in from .. i - 1 : a[j] # NoPtr
<1> DEFINE free == {j \in from .. n - 1 : a[j] = NoPtr}
<1>1. CASE free = {}
  BY <1>1 DEF FirstFree
<1>2. CASE free # {}
  <2>1. \E k \in free : \A j \in free : k <= j
    <3>1. free \in SUBSET Nat
      OBVIOUS
    <3> HIDE DEF free
    <3> QED
      BY <1>2, <3>1, LeastExists
  <2>2. i \in free /\ \A j \in free : i <= j
    BY <1>2, <2>1 DEF FirstFree
  <2> QED
    BY <2>2
<1> QED
  BY <1>1, <1>2

LEMMA FreeFinite ==
  ASSUME NEW a, NEW n \in Nat
  PROVE  /\ IsFiniteSet(FreeIn(a, n)) /\ Cardinality(FreeIn(a, n)) \in 0 .. n
         /\ Cardinality(FreeIn(a, n)) = 0 <=> FreeIn(a, n) = {}
<1>1. IsFiniteSet(0 .. n - 1) /\ Cardinality(0 .. n - 1) = n
  BY FS_Interval
<1>2. IsFiniteSet(FreeIn(a, n)) /\ Cardinality(FreeIn(a, n)) <= n
  BY <1>1, FS_Subset DEF FreeIn
<1> QED
  BY <1>2, FS_CardinalityType, FS_EmptySet

(* A growing table gains free slots; a write takes one or gives one back.    *)
LEMMA GrownFree ==
  ASSUME NEW n \in Nat, pa_size \in Nat, n >= pa_size
  PROVE  Cardinality(FreeIn(Grown(n), n)) = Cardinality(FreeIn(pa_addr, pa_size)) + (n - pa_size)
<1>1. FreeIn(Grown(n), n) = FreeIn(pa_addr, pa_size) \cup (pa_size .. n - 1)
  BY DEF FreeIn, Grown
<1>2. FreeIn(pa_addr, pa_size) \cap (pa_size .. n - 1) = {}
  BY DEF FreeIn
<1>3. IsFiniteSet(pa_size .. n - 1) /\ Cardinality(pa_size .. n - 1) = n - pa_size
  <2>1. n - 1 \in Int /\ pa_size \in Int
    OBVIOUS
  <2>2. Cardinality(pa_size .. n - 1) = IF pa_size > n - 1 THEN 0 ELSE (n - 1) - pa_size + 1
    BY <2>1, FS_Interval
  <2>3. IsFiniteSet(pa_size .. n - 1)
    BY <2>1, FS_Interval
  <2> QED
    BY <2>2, <2>3
<1>4. IsFiniteSet(FreeIn(pa_addr, pa_size)) /\ Cardinality(FreeIn(pa_addr, pa_size)) \in Nat
  BY FreeFinite
<1>5. Cardinality(FreeIn(Grown(n), n)) =
        Cardinality(FreeIn(pa_addr, pa_size)) + Cardinality(pa_size .. n - 1) - Cardinality({})
  BY <1>1, <1>2, <1>3, <1>4, FS_Union
<1> QED
  BY <1>3, <1>4, <1>5, FS_EmptySet

LEMMA WriteFree ==
  ASSUME NEW a, NEW n \in Nat, NEW b, NEW i \in 0 .. n - 1,
         \A j \in 0 .. n - 1 : j # i => b[j] = a[j]
  PROVE  Cardinality(FreeIn(b, n)) =
           IF a[i] = NoPtr
           THEN IF b[i] = NoPtr THEN Cardinality(FreeIn(a, n)) ELSE Cardinality(FreeIn(a, n)) - 1
           ELSE IF b[i] = NoPtr THEN Cardinality(FreeIn(a, n)) + 1 ELSE Cardinality(FreeIn(a, n))
<1>1. CASE a[i] = NoPtr /\ b[i] # NoPtr
  <2>1. FreeIn(b, n) = FreeIn(a, n) \ {i} /\ i \in FreeIn(a, n)
    BY <1>1 DEF FreeIn
  <2> QED
    BY <1>1, <2>1, FreeFinite, FS_RemoveElement
<1>2. CASE a[i] # NoPtr /\ b[i] = NoPtr
  <2>1. FreeIn(b, n) = FreeIn(a, n) \cup {i} /\ i \notin FreeIn(a, n)
    BY <1>2 DEF FreeIn
  <2> QED
    BY <1>2, <2>1, FreeFinite, FS_AddElement
<1>3. CASE a[i] = NoPtr <=> b[i] = NoPtr
  <2>1. FreeIn(b, n) = FreeIn(a, n)
    BY <1>3 DEF FreeIn
  <2> QED
    BY <1>3, <2>1
<1> QED
  BY <1>1, <1>2, <1>3
-----------------------------------------------------------------------------
(* What FreeSlotsExact says, of any table, with the lowest free slot by what *)
(* it is rather than by a search.                                            *)
Exact(a, n, free, lowest) ==
  /\ n \in Nat \ {0} /\ DOMAIN a = 0 .. n - 1
  /\ free = Cardinality(FreeIn(a, n))
  /\ lowest \in 0 .. n /\ (\A j \in 0 .. lowest - 1 : a[j] # NoPtr)
  /\ lowest < n => a[lowest] = NoPtr
ArrayInv == Exact(pa_addr, pa_size, pa_free, pa_lowest)

LEMMA ExactIsEnough == ArrayInv => FreeSlotsExact
<1> SUFFICES ASSUME ArrayInv PROVE FreeSlotsExact
  OBVIOUS
<1>1. pa_free = Cardinality(FreeSlots)
  BY DEF ArrayInv, Exact, FreeIn, FreeSlots
<1>2. pa_lowest = FirstFree(pa_addr, pa_size, 0)
  BY FirstFreeIs DEF ArrayInv, Exact
<1> QED
  BY <1>1, <1>2 DEF FreeSlotsExact

LEMMA AllFree ==
  ASSUME NEW n \in Nat \ {0}
  PROVE  Exact([i \in 0 .. n - 1 |-> NoPtr], n, n, 0)
<1>1. FreeIn([i \in 0 .. n - 1 |-> NoPtr], n) = 0 .. n - 1
  BY DEF FreeIn
<1>2. Cardinality(0 .. n - 1) = n
  BY FS_Interval
<1> QED
  BY <1>1, <1>2 DEF Exact

LEMMA ExactGrown ==
  ASSUME ArrayInv, NEW n \in Nat, n >= pa_size
  PROVE  Exact(Grown(n), n, pa_free + (n - pa_size), pa_lowest)
<1>1. Cardinality(FreeIn(Grown(n), n)) = pa_free + (n - pa_size)
  BY GrownFree DEF ArrayInv, Exact
<1> QED
  BY <1>1 DEF ArrayInv, Exact, Grown

(* Whether there is a free slot shows in the count and in the lowest one.    *)
LEMMA LowestIsFree ==
  ASSUME NEW a, NEW n, NEW free, NEW lowest, Exact(a, n, free, lowest)
  PROVE  free \in 0 .. n /\ (free = 0 <=> lowest = n)
<1>1. free \in 0 .. n /\ (free = 0 <=> FreeIn(a, n) = {})
  BY FreeFinite DEF Exact
<1> QED
  BY <1>1 DEF Exact, FreeIn

(* A free slot is taken; a later search finds the lowest one that is left.   *)
Takes(a, n, i, b) ==
  /\ i \in 0 .. n - 1 /\ a[i] = NoPtr
  /\ DOMAIN b = 0 .. n - 1 /\ b[i] # NoPtr
  /\ \A j \in 0 .. n - 1 : j # i => b[j] = a[j]

LEMMA TakenElsewhere ==
  ASSUME NEW a, NEW n, NEW free, NEW lowest, Exact(a, n, free, lowest),
         NEW i, NEW b, Takes(a, n, i, b)
  PROVE  Cardinality(FreeIn(b, n)) = free - 1 /\ (i # lowest => Exact(b, n, free - 1, lowest))
<1>1. Cardinality(FreeIn(b, n)) = free - 1
  BY WriteFree DEF Exact, Takes
<1> QED
  BY <1>1 DEF Exact, Takes

LEMMA TakenLowest ==
  ASSUME NEW a, NEW n, NEW free, NEW i, Exact(a, n, free, i), NEW b, Takes(a, n, i, b)
  PROVE  /\ Exact(b, n, free - 1, FirstFree(b, n, i))
         /\ Exact(b, n, free - 1, FirstFree(b, n, i + 1))
         /\ Exact(b, n, free - 1, FirstFree(a, n, i + 1))
<1>1. ASSUME NEW c, NEW from \in {i, i + 1}, \A j \in from .. n - 1 : c[j] = b[j],
             NEW next, next = FirstFree(c, n, from)
      PROVE  Exact(b, n, free - 1, next)
  <2>1. n \in Nat /\ from \in Nat /\ \A j \in 0 .. from - 1 : b[j] # NoPtr
    BY <1>1 DEF Exact, Takes
  <2>2. \/ next = n /\ \A j \in from .. n - 1 : c[j] # NoPtr
        \/ /\ next \in from .. n - 1 /\ c[next] = NoPtr
           /\ \A j \in from .. next - 1 : c[j] # NoPtr
    <3>1. n \in Nat /\ from \in Nat /\ next = FirstFree(c, n, from)
      BY <1>1, <2>1
    <3> QED
      BY <3>1, FirstFreeIs
  <2>3. next \in from .. n \/ next = n
    BY <2>1, <2>2 DEF Exact
  <2>4. next \in 0 .. n /\ (next < n => b[next] = NoPtr)
    BY <1>1, <2>1, <2>2, <2>3 DEF Exact
  <2>5. \A j \in 0 .. next - 1 : b[j] # NoPtr
    <3> TAKE j \in 0 .. next - 1
    <3>1. CASE j < from
      BY <2>1, <3>1
    <3>2. CASE j >= from
      <4>1. j \in from .. n - 1 /\ j \in from .. next - 1
        BY <2>1, <2>4, <3>2
      <4> QED
        BY <1>1, <2>2, <4>1
    <3> QED
      BY <2>1, <3>1, <3>2
  <2>6. Cardinality(FreeIn(b, n)) = free - 1
    BY TakenElsewhere
  <2> QED
    BY <2>4, <2>5, <2>6 DEF Exact, Takes
<1>2. i \in Nat /\ (\A j \in i + 1 .. n - 1 : a[j] = b[j])
  BY DEF Exact, Takes
<1> QED
  BY <1>1, <1>2
-----------------------------------------------------------------------------
(* The table grown for an index has it, if the maximum is even: the sizes    *)
(* asked for first are even, so none of them is just past the maximum.       *)
EvenMax == \E h \in Nat : ArrayMax = 2 * h

LEMMA SizeForFits ==
  ASSUME EvenMax, ArrayInv, NEW index \in Nat, SizeFor(index) # 0
  PROVE  SizeFor(index) \in Nat /\ SizeFor(index) >= pa_size /\ index < SizeFor(index)
<1> USE DEF ArrayInv, Exact
<1>1. CASE pa_size > index
  BY <1>1 DEF SizeFor
<1>2. CASE pa_size <= index
  <2> DEFINE soft == ((index \div 2) + 1) * 2
  <2>1. PICK h \in Nat : ArrayMax = 2 * h
    BY DEF EvenMax
  <2>2. soft \in Nat /\ soft > index /\ soft = 2 * ((index \div 2) + 1) /\ soft <= index + 2
    OBVIOUS
  <2>3. SizeFor(index) = GrownSize(soft, index)
    BY <1>2 DEF SizeFor
  <2>4. CASE soft > ArrayMax
    <3>1. index >= ArrayMax
      BY <2>1, <2>2, <2>4
    <3> QED
      BY <2>3, <2>4, <3>1, ArrayAssumption DEF GrownSize
  <2>5. CASE soft <= ArrayMax
    <3>1. SizeFor(index) = soft
      BY <2>2, <2>3, <2>5, ArrayAssumption DEF GrownSize
    <3> QED
      BY <1>2, <2>2, <3>1
  <2> QED
    BY <2>2, <2>4, <2>5, ArrayAssumption
<1> QED
  BY <1>1, <1>2

(* The table before the write of an index.                                   *)
TableFor(index) == IF pa_size <= index THEN Grown(SizeFor(index)) ELSE pa_addr
LEMMA TableForExact ==
  ASSUME EvenMax, ArrayInv, NEW index \in Nat, SizeFor(index) # 0
  PROVE  Exact(TableFor(index), SizeFor(index), pa_free + (SizeFor(index) - pa_size), pa_lowest)
<1>1. CASE pa_size <= index
  BY <1>1, SizeForFits, ExactGrown DEF TableFor
<1>2. CASE ~(pa_size <= index)
  <2>1. pa_free + (SizeFor(index) - pa_size) = pa_free /\ SizeFor(index) = pa_size
    BY <1>2, FreeFinite DEF SizeFor, ArrayInv, Exact
  <2> QED
    BY <1>2, <2>1 DEF TableFor, ArrayInv
<1> QED
  BY <1>1, <1>2

LEMMA AddExact ==
  ASSUME ArrayInv, NEW p \in Stored, Add(p)
  PROVE  ArrayInv'
<1> DEFINE grow == pa_free = 0
           size == IF grow THEN GrownSize(2 * pa_size, ArrayMax + 1) ELSE pa_size
           free == IF grow THEN size - pa_size ELSE pa_free
           table == IF grow THEN Grown(size) ELSE pa_addr
           addr == [table EXCEPT ![pa_lowest] = p]
           next == IF free - 1 > 0 THEN FirstFree(addr, size, pa_lowest + 1) ELSE size
<1>1. CASE size = 0
  BY <1>1 DEF Add, ArrayInv
<1>2. CASE size # 0
  <2>1. pa_free \in 0 .. pa_size /\ (grow <=> pa_lowest = pa_size) /\ pa_size \in Nat \ {0}
    <3>1. pa_size \in Nat \ {0}
      BY DEF ArrayInv, Exact
    <3> HIDE DEF size, free, table, addr, next
    <3> QED
      BY <3>1, LowestIsFree DEF ArrayInv
  <2>2. size \in Nat /\ size >= pa_size /\ (grow => size > pa_size)
    BY <1>2, <2>1, ArrayAssumption DEF GrownSize
  <2>3. Exact(table, size, free, pa_lowest)
    <3>1. CASE grow
      <4>1. free = pa_free + (size - pa_size)
        BY <2>1, <2>2, <3>1
      <4> HIDE DEF size
      <4> QED
        BY <2>2, <3>1, <4>1, ExactGrown
    <3>2. CASE ~grow
      BY <3>2 DEF ArrayInv
    <3> QED
      BY <3>1, <3>2
  <2>4. pa_lowest \in 0 .. size - 1
    BY <2>1, <2>2 DEF ArrayInv, Exact
  <2>5. /\ pa_addr' = addr /\ pa_size' = size /\ pa_free' = free - 1 /\ pa_lowest' = next
    BY <1>2 DEF Add
  <2>6. Takes(table, size, pa_lowest, addr)
    BY <2>3, <2>4, ArrayAssumption DEF Exact, Takes
  <2> HIDE DEF size, free, table, addr
  <2>7. Exact(addr, size, free - 1, FirstFree(addr, size, pa_lowest + 1))
    BY <2>3, <2>6, TakenLowest
  <2>8. CASE free - 1 > 0
    BY <2>5, <2>7, <2>8 DEF ArrayInv
  <2>9. CASE ~(free - 1 > 0)
    <3>1. FirstFree(addr, size, pa_lowest + 1) = size
      BY <2>3, <2>7, <2>9, LowestIsFree
    <3> QED
      BY <2>5, <2>7, <2>9, <3>1 DEF ArrayInv
  <2> QED
    BY <2>8, <2>9
<1> QED
  BY <1>1, <1>2

LEMMA SetItemExact ==
  ASSUME EvenMax, ArrayInv, NEW index \in Nat, NEW v \in Stored \cup {NoPtr}, SetItem(index, v)
  PROVE  ArrayInv'
<1> DEFINE size == SizeFor(index)
           addr == TableFor(index)
           free == pa_free + (size - pa_size)
           held == index < size /\ addr[index] # NoPtr
<1>1. CASE size = 0
  BY <1>1 DEF SetItem, ArrayInv
<1>2. CASE size # 0
  <2>1. Exact(addr, size, free, pa_lowest) /\ size \in Nat /\ index \in 0 .. size - 1
    BY <1>2, TableForExact, SizeForFits
  <2>2. /\ pa_size' = size /\ pa_addr' = Write(addr, index, v)
        /\ v = NoPtr => /\ pa_lowest' = IF index < pa_lowest THEN index ELSE pa_lowest
                        /\ pa_free' = IF held THEN free + 1 ELSE free
        /\ v # NoPtr => /\ pa_free' = IF held THEN free ELSE free - 1
                        /\ pa_lowest' = IF index = pa_lowest
                                        THEN FirstFree(addr, size, index + 1) ELSE pa_lowest
    BY <1>2 DEF SetItem, TableFor
  <2> HIDE DEF size, addr, free
  <2>3. /\ DOMAIN pa_addr' = 0 .. size - 1 /\ pa_addr'[index] = v
        /\ \A j \in 0 .. size - 1 : j # index => pa_addr'[j] = addr[j]
    BY <2>1, <2>2 DEF Write, Exact
  <2>4. CASE v = NoPtr
    <3>1. Cardinality(FreeIn(pa_addr', size)) = IF held THEN free + 1 ELSE free
      BY <2>1, <2>3, <2>4, WriteFree DEF Exact
    <3> QED
      BY <2>1, <2>2, <2>3, <2>4, <3>1 DEF ArrayInv, Exact
  <2>5. CASE v # NoPtr /\ held
    <3>1. Cardinality(FreeIn(pa_addr', size)) = free
      BY <2>1, <2>3, <2>5, WriteFree DEF Exact
    <3> QED
      BY <2>1, <2>2, <2>3, <2>5, <3>1 DEF ArrayInv, Exact
  <2>6. CASE v # NoPtr /\ ~held
    <3>1. Takes(addr, size, index, pa_addr')
      BY <2>1, <2>3, <2>6 DEF Takes
    <3>2. CASE index = pa_lowest
      BY <2>1, <2>2, <2>6, <3>1, <3>2, TakenLowest DEF ArrayInv
    <3>3. CASE index # pa_lowest
      BY <2>1, <2>2, <2>6, <3>1, <3>3, TakenElsewhere DEF ArrayInv
    <3> QED
      BY <3>2, <3>3
  <2> QED
    BY <2>4, <2>5, <2>6
<1> QED
  BY <1>1, <1>2

LEMMA TestAndSetExact ==
  ASSUME EvenMax, ArrayInv, NEW index \in Nat, NEW p \in Stored, TestAndSetItem(index, p)
  PROVE  ArrayInv'
<1> DEFINE size == SizeFor(index)
           addr == Write(TableFor(index), index, p)
           free == pa_free + (size - pa_size)
           used == index < pa_size /\ pa_addr[index] # NoPtr
<1>1. CASE used \/ size = 0
  BY <1>1 DEF TestAndSetItem, ArrayInv
<1>2. CASE ~used /\ size # 0
  <2>1. /\ Exact(TableFor(index), size, free, pa_lowest)
        /\ size \in Nat /\ index \in 0 .. size - 1
    BY <1>2, TableForExact, SizeForFits
  <2>2. TableFor(index)[index] = NoPtr
    BY <1>2, <2>1 DEF TableFor, Grown, ArrayInv, Exact
  <2>3. /\ pa_size' = size /\ pa_addr' = addr /\ pa_free' = free - 1
        /\ pa_lowest' = IF index = pa_lowest THEN FirstFree(addr, size, index) ELSE pa_lowest
    <3>1. pa_free \in Int /\ pa_size \in Int /\ size \in Int
      <4>1. pa_size \in Int /\ size \in Int
        BY <2>1 DEF ArrayInv, Exact
      <4>2. pa_free \in 0 .. pa_size
        BY LowestIsFree DEF ArrayInv
      <4> QED
        BY <4>1, <4>2
    <3> HIDE DEF size
    <3>2. pa_free + ((size - pa_size) - 1) = free - 1
      BY <3>1
    <3> QED
      BY <1>2, <3>2 DEF TestAndSetItem, TableFor, size
  <2>4. Takes(TableFor(index), size, index, addr)
    BY <2>1, <2>2, ArrayAssumption DEF Write, Exact, Takes
  <2> HIDE DEF size, addr, free
  <2>5. CASE index = pa_lowest
    BY <2>1, <2>3, <2>4, <2>5, TakenLowest DEF ArrayInv
  <2>6. CASE index # pa_lowest
    BY <2>1, <2>3, <2>4, <2>6, TakenElsewhere DEF ArrayInv
  <2> QED
    BY <2>5, <2>6
<1> QED
  BY <1>1, <1>2

LEMMA SetSizeExact ==
  ASSUME ArrayInv, NEW n \in Nat, SetSize(n)
  PROVE  ArrayInv'
<1> DEFINE size == IF n > pa_size THEN GrownSize(n, n) ELSE pa_size
<1>1. CASE size = 0
  BY <1>1 DEF SetSize, ArrayInv
<1>2. CASE size # 0
  <2>1. size \in Nat /\ size >= pa_size
    BY <1>2, ArrayAssumption DEF GrownSize, ArrayInv, Exact
  <2>2. /\ pa_addr' = Grown(size) /\ pa_size' = size
        /\ pa_free' = pa_free + (size - pa_size) /\ pa_lowest' = pa_lowest
    BY <1>2 DEF SetSize
  <2> HIDE DEF size
  <2> QED
    BY <2>1, <2>2, ExactGrown DEF ArrayInv
<1> QED
  BY <1>1, <1>2

LEMMA ArrayStep == EvenMax /\ ArrayInv /\ [ArrayNext]_pa_vars => ArrayInv'
<1> SUFFICES ASSUME EvenMax, ArrayInv, [ArrayNext]_pa_vars PROVE ArrayInv'
  OBVIOUS
<1>0. Index \subseteq Nat
  BY ArrayAssumption DEF Index
<1>1. CASE UNCHANGED pa_vars
  BY <1>1 DEF pa_vars, ArrayInv
<1>2. ASSUME NEW p \in Stored, Add(p) PROVE ArrayInv'
  BY <1>2, AddExact
<1>3. ASSUME NEW i \in Index, NEW v \in Stored \cup {NoPtr}, SetItem(i, v) PROVE ArrayInv'
  BY <1>0, <1>3, SetItemExact
<1>4. ASSUME NEW i \in Index, NEW p \in Stored, TestAndSetItem(i, p) PROVE ArrayInv'
  BY <1>0, <1>4, TestAndSetExact
<1>5. ASSUME NEW n \in Index, SetSize(n) PROVE ArrayInv'
  BY <1>0, <1>5, SetSizeExact
<1>6. CASE RemoveAll
  <2>1. pa_size \in Nat \ {0}
    BY DEF ArrayInv, Exact
  <2> QED
    BY <1>6, <2>1, AllFree DEF RemoveAll, ArrayInv
<1> QED
  BY <1>1, <1>2, <1>3, <1>4, <1>5, <1>6 DEF ArrayNext

(* With an even maximum, as both users of the array have it                  *)
(* (mca_base_var.c:250, mca_base_var_group.c:65), the count of free slots    *)
(* and the lowest one are exact after any calls                              *)
(* (ww_pointer_array.c:112-345).                                             *)
THEOREM ArrayStaysExact ==
  ASSUME EvenMax
  PROVE  ArraySpec => []FreeSlotsExact
<1>1. ArrayInit => ArrayInv
  BY AllFree, ArrayAssumption DEF ArrayInit, ArrayInv
<1>2. ArrayInv /\ [ArrayNext]_pa_vars => ArrayInv'
  BY ArrayStep
<1> QED
  BY <1>1, <1>2, ExactIsEnough, PTL DEF ArraySpec
-----------------------------------------------------------------------------
(* The nodes of the ring of list l with the items s, the sentinel being both *)
(* the node 0 and the one after the last.                                    *)
NodeAt(l, s, k) == IF k \in 1 .. Len(s) THEN s[k] ELSE l
ItemSeqs == [ListName -> Seq(Item)]
RingOf(l, s, next, prev) ==
  \A k \in 0 .. Len(s) : next[NodeAt(l, s, k)] = NodeAt(l, s, k + 1)
                      /\ prev[NodeAt(l, s, k + 1)] = NodeAt(l, s, k)
OwnedBy(l, s, owner) == \A i \in Item : owner[i] = l <=> \E k \in 1 .. Len(s) : s[k] = i
(* The links are those of the lists S. *)
Linked(S, next, prev, owner) ==
  /\ S \in ItemSeqs
  /\ next \in [Node -> Node \cup {Nothing}] /\ prev \in [Node -> Node \cup {Nothing}]
  /\ owner \in [Item -> ListName \cup {Nothing}]
  /\ \A l \in ListName : RingOf(l, S[l], next, prev) /\ OwnedBy(l, S[l], owner)

LEMMA NodeTypes ==
  ASSUME NEW l \in ListName, NEW s \in Seq(Item), NEW k \in Int
  PROVE  /\ NodeAt(l, s, k) \in Node
         /\ k \in 1 .. Len(s) => NodeAt(l, s, k) = s[k] /\ s[k] \in Item
         /\ k \notin 1 .. Len(s) => NodeAt(l, s, k) = l
         /\ Len(s) \in Nat /\ l \notin Item
  BY ListAssumption DEF NodeAt, Node

(* No item is twice in a ring: the way on from both would be the same, and   *)
(* come to the sentinel in one place only.                                   *)
LEMMA RingInjective ==
  ASSUME NEW l \in ListName, NEW s \in Seq(Item), NEW next, NEW prev, RingOf(l, s, next, prev)
  PROVE  \A j, k \in 1 .. Len(s) : s[j] = s[k] => j = k
<1> SUFFICES ASSUME NEW j \in 1 .. Len(s), NEW k \in 1 .. Len(s), s[j] = s[k], j < k
             PROVE  FALSE
  BY LenProperties
<1> DEFINE n == Len(s)
           bad == {d \in Nat : k + d <= n + 1 /\ NodeAt(l, s, j + d) # NodeAt(l, s, k + d)}
<1>1. n \in Nat
  BY LenProperties
<1>2. n + 1 - k \in bad
  BY <1>1, NodeTypes
<1>3. PICK d \in bad : \A e \in bad : d <= e
  <2>1. bad \in SUBSET Nat
    OBVIOUS
  <2> HIDE DEF bad
  <2> QED
    BY <1>2, <2>1, LeastExists
<1>4. d # 0
  BY <1>1, <1>3, NodeTypes
<1>5. d - 1 \in Nat /\ d - 1 \notin bad
  <2>1. d \in Nat /\ d - 1 \in Nat /\ ~(d <= d - 1)
    BY <1>3, <1>4
  <2> HIDE DEF bad
  <2> QED
    BY <1>3, <2>1
<1>6. NodeAt(l, s, j + (d - 1)) = NodeAt(l, s, k + (d - 1))
  BY <1>1, <1>3, <1>5
<1>7. /\ next[NodeAt(l, s, j + (d - 1))] = NodeAt(l, s, (j + (d - 1)) + 1)
      /\ next[NodeAt(l, s, k + (d - 1))] = NodeAt(l, s, (k + (d - 1)) + 1)
  BY <1>1, <1>3, <1>5 DEF RingOf
<1>8. (j + (d - 1)) + 1 = j + d /\ (k + (d - 1)) + 1 = k + d
  BY <1>1, <1>3
<1> QED
  BY <1>3, <1>6, <1>7, <1>8

(* Where a node is, in which list and at which place.  The sentinel counts   *)
(* as the node 0, or as the one after the last.                              *)
LEMMA PlacesUnique ==
  ASSUME NEW S, NEW next, NEW prev, NEW owner, Linked(S, next, prev, owner),
         NEW l \in ListName, NEW m \in ListName, NEW j \in Int, NEW k \in Int,
         NodeAt(l, S[l], j) = NodeAt(m, S[m], k),
         \/ j \in 0 .. Len(S[l]) /\ k \in 0 .. Len(S[m])
         \/ j \in 1 .. Len(S[l]) + 1 /\ k \in 1 .. Len(S[m]) + 1
  PROVE  l = m /\ j = k
<1>1. S[l] \in Seq(Item) /\ S[m] \in Seq(Item)
  BY DEF Linked, ItemSeqs
<1>0. /\ k \in 1 .. Len(S[m]) => NodeAt(m, S[m], k) = S[m][k] /\ S[m][k] \in Item
      /\ k \notin 1 .. Len(S[m]) => NodeAt(m, S[m], k) = m
      /\ m \notin Item
  BY <1>1, NodeTypes
<1>2. CASE j \in 1 .. Len(S[l])
  <2>1. NodeAt(l, S[l], j) = S[l][j] /\ S[l][j] \in Item
    BY <1>1, <1>2, NodeTypes
  <2>2. k \in 1 .. Len(S[m]) /\ S[m][k] = S[l][j]
    BY <2>1, <1>0
  <2>3. owner[S[l][j]] = l /\ owner[S[l][j]] = m
    BY <1>2, <2>1, <2>2 DEF Linked, OwnedBy
  <2>4. RingOf(l, S[l], next, prev)
    BY DEF Linked
  <2> QED
    BY <1>1, <1>2, <2>2, <2>3, <2>4, RingInjective
<1>3. CASE j \notin 1 .. Len(S[l])
  <2>1. NodeAt(l, S[l], j) = l /\ l \notin Item
    BY <1>1, <1>3, NodeTypes
  <2>2. k \notin 1 .. Len(S[m]) /\ l = m
    BY <2>1, <1>0
  <2> QED
    BY <1>1, <1>3, <2>2, LenProperties
<1> QED
  BY <1>2, <1>3
-----------------------------------------------------------------------------
(* What Step computes, and along which nodes it goes on a ring.              *)
Walks(w, links, n, k) == w = [j \in 0 .. k |-> IF j = 0 THEN n ELSE links[w[j - 1]]]

LEMMA WalkExists ==
  ASSUME NEW links, NEW n, NEW k \in Nat
  PROVE  \E w : Walks(w, links, n, k)
<1> DEFINE bad == {m \in Nat : ~\E w : Walks(w, links, n, m)}
<1> SUFFICES ASSUME k \in bad PROVE FALSE
  OBVIOUS
<1>1. PICK m \in bad : \A e \in bad : m <= e
  <2>1. bad \in SUBSET Nat
    OBVIOUS
  <2> HIDE DEF bad
  <2> QED
    BY <2>1, LeastExists
<1>2. m \in Nat /\ ~\E w : Walks(w, links, n, m)
  BY <1>1
<1>3. CASE m = 0
  <2> DEFINE w == [j \in 0 .. 0 |-> n]
  <2>1. Walks(w, links, n, m)
    BY <1>3 DEF Walks
  <2> QED
    BY <1>2, <2>1
<1>4. CASE m # 0
  <2>1. m - 1 \in Nat /\ ~(m <= m - 1)
    BY <1>2, <1>4
  <2>2. m - 1 \notin bad
    <3> HIDE DEF bad
    <3> QED
      BY <1>1, <2>1
  <2>3. PICK v : Walks(v, links, n, m - 1)
    BY <2>1, <2>2
  <2> DEFINE w == [j \in 0 .. m |-> IF j = m THEN links[v[m - 1]] ELSE v[j]]
  <2>4. \A j \in 0 .. m - 1 : v[j] = IF j = 0 THEN n ELSE links[v[j - 1]]
    BY <2>3 DEF Walks
  <2>5. \A j \in 0 .. m : w[j] = IF j = 0 THEN n ELSE links[w[j - 1]]
    BY <1>2, <1>4, <2>4
  <2>6. Walks(w, links, n, m)
    BY <2>5 DEF Walks
  <2> QED
    BY <1>2, <2>6
<1> QED
  BY <1>3, <1>4

LEMMA WalksAgree ==
  ASSUME NEW links, NEW n, NEW k \in Nat, NEW m \in 0 .. k, NEW v, NEW w,
         Walks(v, links, n, m), Walks(w, links, n, k)
  PROVE  v[m] = w[m]
<1> DEFINE bad == {j \in Nat : j <= m /\ v[j] # w[j]}
<1> SUFFICES ASSUME m \in bad PROVE FALSE
  OBVIOUS
<1>1. PICK j \in bad : \A e \in bad : j <= e
  <2>1. bad \in SUBSET Nat
    OBVIOUS
  <2> HIDE DEF bad
  <2> QED
    BY <2>1, LeastExists
<1>2. j \in 0 .. m /\ v[j] # w[j]
  BY <1>1
<1>3. /\ v[j] = IF j = 0 THEN n ELSE links[v[j - 1]]
      /\ w[j] = IF j = 0 THEN n ELSE links[w[j - 1]]
  BY <1>2 DEF Walks
<1>4. j # 0
  BY <1>2, <1>3
<1>5. j - 1 \in Nat /\ ~(j <= j - 1) /\ j - 1 <= m
  BY <1>2, <1>4
<1>6. j - 1 \notin bad
  <2> HIDE DEF bad
  <2> QED
    BY <1>1, <1>5
<1> QED
  BY <1>2, <1>3, <1>4, <1>5, <1>6

LEMMA StepsOnce ==
  ASSUME NEW links, NEW n, NEW k \in Nat
  PROVE  Step(links, n, 0) = n /\ Step(links, n, k + 1) = links[Step(links, n, k)]
<1> DEFINE At(m) == CHOOSE w : Walks(w, links, n, m)
<1>1. \A m \in Nat : Walks(At(m), links, n, m)
  BY WalkExists
<1>2. \A m \in Nat : Step(links, n, m) = At(m)[m]
  BY DEF Step, Walks
<1> HIDE DEF At
<1>3. At(0)[0] = n
  <2> DEFINE w == At(0)
  <2>1. w = [j \in 0 .. 0 |-> IF j = 0 THEN n ELSE links[w[j - 1]]]
    BY <1>1 DEF Walks
  <2> HIDE DEF w
  <2>2. w[0] = n
    BY <2>1
  <2> QED
    BY <2>2 DEF w
<1>4. At(k + 1)[k + 1] = links[At(k + 1)[k]]
  <2> DEFINE w == At(k + 1)
  <2>1. w = [j \in 0 .. k + 1 |-> IF j = 0 THEN n ELSE links[w[j - 1]]]
    BY <1>1 DEF Walks
  <2> HIDE DEF w
  <2>2. k + 1 \in 0 .. k + 1 /\ k + 1 # 0 /\ (k + 1) - 1 = k
    OBVIOUS
  <2>3. w[k + 1] = links[w[k]]
    BY <2>1, <2>2
  <2> QED
    BY <2>3 DEF w
<1>5. At(k + 1)[k] = At(k)[k]
  BY <1>1, WalksAgree
<1> QED
  BY <1>2, <1>3, <1>4, <1>5

LEMMA StepsForward ==
  ASSUME NEW l \in ListName, NEW s \in Seq(Item), NEW next, NEW prev, RingOf(l, s, next, prev),
         NEW a \in 0 .. Len(s) + 1, NEW k \in Nat, a + k <= Len(s) + 1
  PROVE  Step(next, NodeAt(l, s, a), k) = NodeAt(l, s, a + k)
<1> DEFINE n == NodeAt(l, s, a)
           bad == {m \in Nat : m <= k /\ Step(next, n, m) # NodeAt(l, s, a + m)}
<1> SUFFICES ASSUME k \in bad PROVE FALSE
  OBVIOUS
<1>1. PICK m \in bad : \A e \in bad : m <= e
  <2>1. bad \in SUBSET Nat
    OBVIOUS
  <2> HIDE DEF bad
  <2> QED
    BY <2>1, LeastExists
<1>2. m \in 0 .. k /\ Step(next, n, m) # NodeAt(l, s, a + m)
  BY <1>1
<1>3. m # 0
  <2>1. Step(next, n, 0) = NodeAt(l, s, a + 0)
    BY StepsOnce
  <2> QED
    BY <1>2, <2>1
<1>4. m - 1 \in Nat /\ ~(m <= m - 1) /\ m - 1 <= k
  BY <1>2, <1>3
<1>5. m - 1 \notin bad
  <2> HIDE DEF bad
  <2> QED
    BY <1>1, <1>4
<1>6. Step(next, n, m - 1) = NodeAt(l, s, a + (m - 1))
  BY <1>4, <1>5
<1>7. Step(next, n, (m - 1) + 1) = next[Step(next, n, m - 1)]
  BY <1>4, StepsOnce
<1>8. next[NodeAt(l, s, a + (m - 1))] = NodeAt(l, s, (a + (m - 1)) + 1)
  <2>1. Len(s) \in Nat
    BY LenProperties
  <2>2. a + (m - 1) \in 0 .. Len(s)
    BY <1>2, <1>4, <2>1
  <2> QED
    BY <2>2 DEF RingOf
<1>9. (m - 1) + 1 = m /\ (a + (m - 1)) + 1 = a + m
  BY <1>2, <1>4
<1> QED
  BY <1>2, <1>6, <1>7, <1>8, <1>9

(* However far a walk goes, it stays on the ring. *)
LEMMA StepsStay ==
  ASSUME NEW l \in ListName, NEW s \in Seq(Item), NEW next, NEW prev, RingOf(l, s, next, prev),
         NEW a \in 0 .. Len(s) + 1, NEW k \in Nat
  PROVE  \E j \in 0 .. Len(s) : Step(next, NodeAt(l, s, a), k) = NodeAt(l, s, j)
<1> DEFINE n == NodeAt(l, s, a)
           Stays(m) == \E j \in 0 .. Len(s) : Step(next, n, m) = NodeAt(l, s, j)
           bad == {m \in Nat : ~Stays(m)}
<1> SUFFICES ASSUME k \in bad PROVE FALSE
  OBVIOUS
<1>0. Len(s) \in Nat /\ NodeAt(l, s, Len(s) + 1) = NodeAt(l, s, 0)
  BY LenProperties DEF NodeAt
<1>1. PICK m \in bad : \A e \in bad : m <= e
  <2>1. bad \in SUBSET Nat
    OBVIOUS
  <2> HIDE DEF bad
  <2> QED
    BY <2>1, LeastExists
<1>2. m \in Nat /\ ~Stays(m)
  BY <1>1
<1>3. m # 0
  <2>1. Step(next, n, 0) = n
    BY StepsOnce
  <2> QED
    BY <1>0, <1>2, <2>1
<1>4. m - 1 \in Nat /\ ~(m <= m - 1)
  BY <1>2, <1>3
<1>5. m - 1 \notin bad
  <2> HIDE DEF bad
  <2> QED
    BY <1>1, <1>4
<1>6. PICK j \in 0 .. Len(s) : Step(next, n, m - 1) = NodeAt(l, s, j)
  BY <1>4, <1>5
<1>7. Step(next, n, (m - 1) + 1) = next[Step(next, n, m - 1)]
  BY <1>4, StepsOnce
<1>8. (m - 1) + 1 = m
  BY <1>2
<1>9. Step(next, n, m) = NodeAt(l, s, j + 1)
  BY <1>6, <1>7, <1>8 DEF RingOf
<1>10. CASE j = Len(s)
  BY <1>0, <1>2, <1>9, <1>10
<1>11. CASE j # Len(s)
  <2>1. j + 1 \in 0 .. Len(s)
    BY <1>0, <1>11
  <2> QED
    BY <1>2, <1>9, <2>1
<1> QED
  BY <1>10, <1>11
-----------------------------------------------------------------------------
LEMMA NodesFinite == IsFiniteSet(Node) /\ Cardinality(Node) \in Nat
<1>1. IsFiniteSet(Node)
  BY ListAssumption, FS_Union DEF Node
<1> QED
  BY <1>1, FS_CardinalityType

LEMMA RingFits ==
  ASSUME NEW S, NEW next, NEW prev, NEW owner, Linked(S, next, prev, owner), NEW l \in ListName
  PROVE  Len(S[l]) + 1 <= Cardinality(Node)
<1> DEFINE n == Len(S[l])
           f == [k \in 0 .. n |-> NodeAt(l, S[l], k)]
<1>1. S[l] \in Seq(Item) /\ n \in Nat
  BY LenProperties DEF Linked, ItemSeqs
<1>2. \A k \in 0 .. n : NodeAt(l, S[l], k) \in Node
  BY <1>1, NodeTypes
<1>3. \A j, k \in 0 .. n : NodeAt(l, S[l], j) = NodeAt(l, S[l], k) => j = k
  BY <1>1, PlacesUnique
<1>4. f \in Injection(0 .. n, Node)
  BY <1>2, <1>3 DEF Injection, IsInjective
<1>5. Cardinality(0 .. n) <= Cardinality(Node)
  BY <1>4, NodesFinite, FS_Injection
<1>6. Cardinality(0 .. n) = n + 1
  BY <1>1, FS_Interval
<1> QED
  BY <1>5, <1>6

LEMMA ChainIsRange ==
  ASSUME NEW S, NEW next, NEW prev, NEW owner, Linked(S, next, prev, owner), NEW l \in ListName,
         NEW a \in 1 .. Len(S[l]) + 1, NEW c \in a .. Len(S[l]) + 1
  PROVE  LET range == Chain(next, NodeAt(l, S[l], a), NodeAt(l, S[l], c))
         IN  /\ range = SubSeq(S[l], a, c - 1)
             /\ range \in Seq(Item) /\ Len(range) = c - a /\ DOMAIN range = 1 .. c - a
             /\ \A k \in 1 .. c - a : range[k] = S[l][a + k - 1]
<1> DEFINE s == S[l]
           first == NodeAt(l, s, a)
           last == NodeAt(l, s, c)
           before == {k \in 1 .. Cardinality(Node) : \A j \in 0 .. k - 1 : Step(next, first, j) # last}
           range == Chain(next, first, last)
<1>1. s \in Seq(Item) /\ Len(s) \in Nat /\ RingOf(l, s, next, prev)
  BY LenProperties DEF Linked, ItemSeqs
<1>2. c - a \in Nat /\ c - a <= Cardinality(Node) /\ Cardinality(Node) \in Nat
  BY <1>1, RingFits, NodesFinite
<1>3. \A j \in 0 .. c - a : Step(next, first, j) = NodeAt(l, s, a + j)
  BY <1>1, StepsForward
<1>4. \A j \in 0 .. c - a - 1 : Step(next, first, j) # last
  <2> SUFFICES ASSUME NEW j \in 0 .. c - a - 1, NodeAt(l, s, a + j) = last PROVE FALSE
    BY <1>2, <1>3
  <2>1. a + j \in 1 .. Len(s) + 1 /\ c \in 1 .. Len(s) + 1 /\ a + j # c /\ a + j \in Int /\ c \in Int
    BY <1>1
  <2> QED
    BY <2>1, PlacesUnique
<1>5. before = 1 .. c - a
  <2>1. Step(next, first, c - a) = last
    BY <1>2, <1>3
  <2>2. ASSUME NEW k \in before PROVE k \in 1 .. c - a
    BY <1>2, <2>1
  <2>3. ASSUME NEW k \in 1 .. c - a PROVE k \in before
    BY <1>2, <1>4
  <2> QED
    BY <2>2, <2>3
<1>6. Cardinality(before) = c - a
  <2>1. Cardinality(1 .. c - a) = c - a
    BY <1>2, FS_Interval
  <2> HIDE DEF before
  <2> QED
    BY <1>5, <2>1
<1>7. range = [k \in 1 .. c - a |-> Step(next, first, k - 1)]
  BY <1>6 DEF Chain
<1>8. \A k \in 1 .. c - a : Step(next, first, k - 1) = s[a + k - 1] /\ s[a + k - 1] \in Item
  <2> TAKE k \in 1 .. c - a
  <2>1. k - 1 \in 0 .. c - a /\ a + (k - 1) = a + k - 1 /\ a + k - 1 \in 1 .. Len(s)
    BY <1>1
  <2> QED
    BY <1>1, <1>3, <2>1, NodeTypes
<1> HIDE DEF range
<1>9. /\ DOMAIN range = 1 .. c - a /\ range \in Seq(Item) /\ Len(range) = c - a
      /\ \A k \in 1 .. c - a : range[k] = s[a + k - 1]
  BY <1>2, <1>7, <1>8
<1>10. range = SubSeq(s, a, c - 1)
  <2> DEFINE t == SubSeq(s, a, c - 1)
  <2>1. \A i \in a .. c - 1 : s[i] \in Item
    BY <1>1
  <2>2. /\ t \in Seq(Item) /\ Len(t) = c - a
        /\ \A i \in 1 .. c - a : t[i] = s[a + i - 1]
    BY <1>2, <2>1, SubSeqProperties
  <2> HIDE DEF t
  <2>3. range = t
    BY <1>2, <1>9, <2>2, SeqEqual
  <2> QED
    BY <2>3 DEF t
<1> QED
  BY <1>9, <1>10 DEF range

(* A range whose last node lies before its first goes over the sentinel. *)
LEMMA ChainWraps ==
  ASSUME NEW S, NEW next, NEW prev, NEW owner, Linked(S, next, prev, owner), NEW l \in ListName,
         NEW a \in 1 .. Len(S[l]), NEW c \in 1 .. a - 1
  PROVE  LET range == Chain(next, NodeAt(l, S[l], a), NodeAt(l, S[l], c))
         IN  \E k \in DOMAIN range : range[k] = l
<1> DEFINE s == S[l]
           first == NodeAt(l, s, a)
           last == NodeAt(l, s, c)
           w == Len(s) + 1 - a
           before == {k \in 1 .. Cardinality(Node) : \A j \in 0 .. k - 1 : Step(next, first, j) # last}
           range == Chain(next, first, last)
<1>1. s \in Seq(Item) /\ Len(s) \in Nat /\ RingOf(l, s, next, prev)
  BY LenProperties DEF Linked, ItemSeqs
<1>2. w \in Nat /\ w + 1 <= Cardinality(Node) /\ Cardinality(Node) \in Nat
  BY <1>1, RingFits, NodesFinite
<1>3. \A j \in 0 .. w : Step(next, first, j) = NodeAt(l, s, a + j)
  BY <1>1, StepsForward
<1>4. \A j \in 0 .. w : Step(next, first, j) # last
  <2> SUFFICES ASSUME NEW j \in 0 .. w, NodeAt(l, s, a + j) = last PROVE FALSE
    BY <1>3
  <2>1. a + j \in 1 .. Len(s) + 1 /\ c \in 1 .. Len(s) + 1 /\ a + j # c /\ a + j \in Int /\ c \in Int
    BY <1>1
  <2> QED
    BY <2>1, PlacesUnique
<1>5. 1 .. w + 1 \subseteq before
  BY <1>2, <1>4
<1>6. IsFiniteSet(before) /\ Cardinality(before) \in Nat /\ w + 1 <= Cardinality(before)
  <2>1. IsFiniteSet(before)
    <3>1. before \in SUBSET (1 .. Cardinality(Node))
      OBVIOUS
    <3>2. IsFiniteSet(1 .. Cardinality(Node))
      BY <1>2, FS_Interval
    <3> HIDE DEF before
    <3> QED
      BY <3>1, <3>2, FS_Subset
  <2>2. Cardinality(1 .. w + 1) <= Cardinality(before)
    <3> HIDE DEF before
    <3> QED
      BY <1>5, <2>1, FS_Subset
  <2>3. Cardinality(1 .. w + 1) = w + 1
    BY <1>2, FS_Interval
  <2> QED
    BY <2>1, <2>2, <2>3, FS_CardinalityType
<1>7. range = [k \in 1 .. Cardinality(before) |-> Step(next, first, k - 1)]
  BY DEF Chain
<1>8. w + 1 \in DOMAIN range /\ range[w + 1] = Step(next, first, (w + 1) - 1)
  <2> HIDE DEF before, range
  <2> QED
    BY <1>2, <1>6, <1>7
<1>9. Step(next, first, (w + 1) - 1) = NodeAt(l, s, Len(s) + 1)
  BY <1>1, <1>2, <1>3
<1>10. NodeAt(l, s, Len(s) + 1) = l
  BY <1>1, NodeTypes
<1> QED
  BY <1>8, <1>9, <1>10

(* The links of the lists S give the lists S back. *)
LEMMA ContentIsList ==
  ASSUME NEW S, NEW next, NEW prev, NEW owner, Linked(S, next, prev, owner), NEW l \in ListName
  PROVE  Chain(next, next[l], l) = S[l]
<1>1. S[l] \in Seq(Item) /\ Len(S[l]) \in Nat
  BY LenProperties DEF Linked, ItemSeqs
<1>2. /\ NodeAt(l, S[l], 0) = l /\ NodeAt(l, S[l], Len(S[l]) + 1) = l
      /\ next[NodeAt(l, S[l], 0)] = NodeAt(l, S[l], 0 + 1)
  BY <1>1 DEF NodeAt, Linked, RingOf
<1>3. Chain(next, NodeAt(l, S[l], 1), NodeAt(l, S[l], Len(S[l]) + 1)) = SubSeq(S[l], 1, (Len(S[l]) + 1) - 1)
  <2>1. 1 \in 1 .. Len(S[l]) + 1 /\ Len(S[l]) + 1 \in 1 .. Len(S[l]) + 1
    BY <1>1
  <2>2. ASSUME NEW a \in 1 .. Len(S[l]) + 1, NEW c \in a .. Len(S[l]) + 1
        PROVE  Chain(next, NodeAt(l, S[l], a), NodeAt(l, S[l], c)) = SubSeq(S[l], a, c - 1)
    BY ChainIsRange
  <2> QED
    BY <2>1, <2>2
<1>4. SubSeq(S[l], 1, Len(S[l])) = S[l]
  BY <1>1, SubSeqFull
<1> QED
  BY <1>1, <1>2, <1>3, <1>4
-----------------------------------------------------------------------------
Inserted(s, k, i, t) ==
  /\ t \in Seq(Item) /\ Len(t) = Len(s) + 1
  /\ \A j \in 1 .. Len(s) + 1 : t[j] = IF j < k THEN s[j] ELSE IF j = k THEN i ELSE s[j - 1]

LEMMA InsertAtInserts ==
  ASSUME NEW s \in Seq(Item), NEW k \in 1 .. Len(s) + 1, NEW i \in Item
  PROVE  Inserted(s, k, i, Sequence!InsertAt(s, k, i))
<1> DEFINE left == SubSeq(s, 1, k - 1)
           right == SubSeq(s, k, Len(s))
           mid == <<i>>
           a == left \o mid
           t == a \o right
<1>0. Len(s) \in Nat /\ \A j \in 1 .. Len(s) : s[j] \in Item
  BY LenProperties
<1>1. left \in Seq(Item) /\ Len(left) = k - 1 /\ \A j \in 1 .. k - 1 : left[j] = s[j]
  <2>1. \A j \in 1 .. k - 1 : s[j] \in Item
    BY <1>0
  <2> QED
    BY <1>0, <2>1, SubSeqProperties
<1>2. right \in Seq(Item) /\ Len(right) = Len(s) - k + 1 /\ \A j \in 1 .. Len(s) - k + 1 : right[j] = s[k + j - 1]
  <2>1. \A j \in k .. Len(s) : s[j] \in Item
    BY <1>0
  <2> QED
    BY <1>0, <2>1, SubSeqProperties
<1>3. mid \in Seq(Item) /\ Len(mid) = 1 /\ mid[1] = i
  OBVIOUS
<1> HIDE DEF left, right, mid
<1>4. a \in Seq(Item) /\ Len(a) = k /\ \A j \in 1 .. k : a[j] = IF j < k THEN s[j] ELSE i
  <2>1. /\ a \in Seq(Item) /\ Len(a) = Len(left) + Len(mid)
        /\ \A j \in 1 .. Len(left) + Len(mid) : a[j] = IF j <= Len(left) THEN left[j] ELSE mid[j - Len(left)]
    BY <1>1, <1>3, ConcatProperties
  <2> HIDE DEF a
  <2> QED
    BY <1>0, <1>1, <1>3, <2>1
<1> HIDE DEF a
<1>5. /\ t \in Seq(Item) /\ Len(t) = Len(s) + 1
      /\ \A j \in 1 .. Len(s) + 1 : t[j] = IF j <= k THEN a[j] ELSE right[j - k]
  <2>1. /\ t \in Seq(Item) /\ Len(t) = Len(a) + Len(right)
        /\ \A j \in 1 .. Len(a) + Len(right) : t[j] = IF j <= Len(a) THEN a[j] ELSE right[j - Len(a)]
    BY <1>2, <1>4, ConcatProperties
  <2> HIDE DEF t
  <2> QED
    BY <1>0, <1>2, <1>4, <2>1
<1>6. t = Sequence!InsertAt(s, k, i)
  BY DEF Sequence!InsertAt, a, left, right, mid
<1> HIDE DEF t
<1>7. \A j \in 1 .. Len(s) + 1 : t[j] = IF j < k THEN s[j] ELSE IF j = k THEN i ELSE s[j - 1]
  <2> TAKE j \in 1 .. Len(s) + 1
  <2>1. CASE j <= k
    BY <1>0, <1>4, <1>5, <2>1
  <2>2. CASE j > k
    <3>1. j - k \in 1 .. Len(s) - k + 1 /\ k + (j - k) - 1 = j - 1
      BY <1>0, <2>2
    <3>2. right[j - k] = s[k + (j - k) - 1]
      BY <1>2, <3>1
    <3> QED
      BY <1>0, <1>5, <2>2, <3>1, <3>2
  <2> QED
    BY <1>0, <2>1, <2>2
<1> QED
  BY <1>5, <1>6, <1>7 DEF Inserted

(* An item that no list owns is on no ring. *)
LEMMA FreeIsOff ==
  ASSUME NEW S, NEW next, NEW prev, NEW owner, Linked(S, next, prev, owner),
         NEW i \in Item, owner[i] = Nothing, NEW l \in ListName, NEW k \in Int
  PROVE  i # NodeAt(l, S[l], k)
<1>1. S[l] \in Seq(Item)
  BY DEF Linked, ItemSeqs
<1>2. Nothing \notin ListName
  BY ListAssumption DEF Node
<1>3. \A j \in 1 .. Len(S[l]) : S[l][j] # i
  BY <1>2 DEF Linked, OwnedBy
<1> QED
  BY <1>1, <1>3, NodeTypes

LEMMA LinkInserts ==
  ASSUME NEW S, NEW next, NEW prev, NEW owner, Linked(S, next, prev, owner), NEW l \in ListName,
         NEW k \in 0 .. Len(S[l]), NEW i \in Item, owner[i] = Nothing
  PROVE  LET before == NodeAt(l, S[l], k)
             after  == NodeAt(l, S[l], k + 1)
         IN  Linked([S EXCEPT ![l] = Sequence!InsertAt(S[l], k + 1, i)],
                    [next EXCEPT ![i] = after, ![before] = i],
                    [prev EXCEPT ![i] = before, ![after] = i],
                    [owner EXCEPT ![i] = l])
<1> DEFINE before == NodeAt(l, S[l], k)
           after == NodeAt(l, S[l], k + 1)
           t == Sequence!InsertAt(S[l], k + 1, i)
           T == [S EXCEPT ![l] = t]
           next2 == [next EXCEPT ![i] = after, ![before] = i]
           prev2 == [prev EXCEPT ![i] = before, ![after] = i]
           owner2 == [owner EXCEPT ![i] = l]
           n == Len(S[l])
<1>1. S \in ItemSeqs /\ S[l] \in Seq(Item) /\ n \in Nat
  BY LenProperties DEF Linked, ItemSeqs
<1>2. /\ t \in Seq(Item) /\ Len(t) = n + 1
      /\ \A j \in 1 .. n + 1 : t[j] = IF j < k + 1 THEN S[l][j] ELSE IF j = k + 1 THEN i ELSE S[l][j - 1]
  <2>1. k + 1 \in 1 .. n + 1
    BY <1>1
  <2>2. Inserted(S[l], k + 1, i, t)
    BY <1>1, <2>1, InsertAtInserts
  <2> QED
    BY <2>2 DEF Inserted
<1> HIDE DEF t
<1>3. T \in ItemSeqs /\ T[l] = t /\ \A m \in ListName : m # l => T[m] = S[m]
  BY <1>1, <1>2 DEF ItemSeqs
<1>4. before \in Node /\ after \in Node /\ i \in Node
  BY <1>1, NodeTypes DEF Node
<1>5. /\ next2 \in [Node -> Node \cup {Nothing}]
      /\ next2[i] = after /\ next2[before] = i
      /\ \A m \in Node : m # i /\ m # before => next2[m] = next[m]
  <2>1. before # i
    BY <1>1, FreeIsOff
  <2> QED
    BY <1>4, <2>1 DEF Linked
<1>6. /\ prev2 \in [Node -> Node \cup {Nothing}]
      /\ prev2[i] = before /\ prev2[after] = i
      /\ \A m \in Node : m # i /\ m # after => prev2[m] = prev[m]
  <2>1. after # i
    BY <1>1, FreeIsOff
  <2> QED
    BY <1>4, <2>1 DEF Linked
<1>7. /\ owner2 \in [Item -> ListName \cup {Nothing}] /\ owner2[i] = l
      /\ \A j \in Item : j # i => owner2[j] = owner[j]
  BY DEF Linked
<1> HIDE DEF T, next2, prev2, owner2
<1>8. ASSUME NEW m \in ListName, m # l
      PROVE  RingOf(m, T[m], next2, prev2) /\ OwnedBy(m, T[m], owner2)
  <2>0. T[m] = S[m] /\ S[m] \in Seq(Item) /\ Len(S[m]) \in Nat
    BY <1>1, <1>3, <1>8, LenProperties DEF ItemSeqs
  <2>1. ASSUME NEW j \in 0 .. Len(S[m])
        PROVE  /\ next2[NodeAt(m, S[m], j)] = NodeAt(m, S[m], j + 1)
               /\ prev2[NodeAt(m, S[m], j + 1)] = NodeAt(m, S[m], j)
    <3>1. NodeAt(m, S[m], j) # i /\ NodeAt(m, S[m], j + 1) # i
      BY FreeIsOff
    <3>2. NodeAt(m, S[m], j) # before /\ NodeAt(m, S[m], j + 1) # after
      <4>1. NodeAt(m, S[m], j) # before
        BY <1>1, <1>8, <2>0, PlacesUnique
      <4>2. j + 1 \in 1 .. Len(S[m]) + 1 /\ k + 1 \in 1 .. Len(S[l]) + 1 /\ j + 1 \in Int /\ k + 1 \in Int
        BY <1>1, <2>0
      <4>3. NodeAt(m, S[m], j + 1) # after
        BY <1>8, <4>2, PlacesUnique
      <4> QED
        BY <4>1, <4>3
    <3>3. NodeAt(m, S[m], j) \in Node /\ NodeAt(m, S[m], j + 1) \in Node
      BY <2>0, NodeTypes
    <3>4. next[NodeAt(m, S[m], j)] = NodeAt(m, S[m], j + 1) /\ prev[NodeAt(m, S[m], j + 1)] = NodeAt(m, S[m], j)
      BY DEF Linked, RingOf
    <3> QED
      BY <1>5, <1>6, <3>1, <3>2, <3>3, <3>4
  <2>2. RingOf(m, S[m], next2, prev2)
    BY <2>1 DEF RingOf
  <2>3. OwnedBy(m, S[m], owner2)
    <3>1. OwnedBy(m, S[m], owner)
      BY DEF Linked
    <3>2. Nothing # m
      BY ListAssumption
    <3> QED
      BY <1>7, <1>8, <3>1, <3>2 DEF OwnedBy
  <2> QED
    BY <2>0, <2>2, <2>3
<1>9. RingOf(l, t, next2, prev2)
  <2> SUFFICES ASSUME NEW j \in 0 .. n + 1
               PROVE  next2[NodeAt(l, t, j)] = NodeAt(l, t, j + 1) /\ prev2[NodeAt(l, t, j + 1)] = NodeAt(l, t, j)
    BY <1>2 DEF RingOf
  <2>1. /\ \A h \in 0 .. k : NodeAt(l, t, h) = NodeAt(l, S[l], h)
        /\ NodeAt(l, t, k + 1) = i
        /\ \A h \in k + 2 .. n + 2 : NodeAt(l, t, h) = NodeAt(l, S[l], h - 1)
    BY <1>1, <1>2 DEF NodeAt
  <2>2. /\ \A h \in 0 .. n : next[NodeAt(l, S[l], h)] = NodeAt(l, S[l], h + 1)
        /\ \A h \in 0 .. n : prev[NodeAt(l, S[l], h + 1)] = NodeAt(l, S[l], h)
    BY DEF Linked, RingOf
  <2>3. \A h \in 0 .. n : h # k => next2[NodeAt(l, S[l], h)] = NodeAt(l, S[l], h + 1)
    <3> SUFFICES ASSUME NEW h \in 0 .. n, h # k PROVE next2[NodeAt(l, S[l], h)] = NodeAt(l, S[l], h + 1)
      OBVIOUS
    <3>1. NodeAt(l, S[l], h) # i /\ NodeAt(l, S[l], h) \in Node
      BY <1>1, FreeIsOff, NodeTypes
    <3>2. NodeAt(l, S[l], h) # before
      BY <1>1, PlacesUnique
    <3> QED
      BY <1>5, <2>2, <3>1, <3>2
  <2>4. \A h \in 0 .. n : h # k => prev2[NodeAt(l, S[l], h + 1)] = NodeAt(l, S[l], h)
    <3> SUFFICES ASSUME NEW h \in 0 .. n, h # k PROVE prev2[NodeAt(l, S[l], h + 1)] = NodeAt(l, S[l], h)
      OBVIOUS
    <3>1. NodeAt(l, S[l], h + 1) # i /\ NodeAt(l, S[l], h + 1) \in Node
      BY <1>1, FreeIsOff, NodeTypes
    <3>2. NodeAt(l, S[l], h + 1) # after
      <4>1. h + 1 \in 1 .. n + 1 /\ k + 1 \in 1 .. n + 1 /\ h + 1 # k + 1 /\ h + 1 \in Int /\ k + 1 \in Int
        BY <1>1
      <4> QED
        BY <4>1, PlacesUnique
    <3> QED
      BY <1>6, <2>2, <3>1, <3>2
  <2>5. CASE j < k
    <3>1. j \in 0 .. k /\ j + 1 \in 0 .. k /\ j # k /\ j \in 0 .. n
      BY <1>1, <2>5
    <3> QED
      BY <2>1, <2>3, <2>4, <3>1
  <2>6. CASE j = k
    BY <1>5, <1>6, <2>1, <2>6
  <2>7. CASE j = k + 1
    <3>1. k + 2 \in k + 2 .. n + 2 /\ (k + 2) - 1 = k + 1 /\ (k + 1) + 1 = k + 2
      BY <1>1
    <3>2. NodeAt(l, t, k + 2) = after
      BY <2>1, <3>1
    <3> QED
      BY <1>5, <1>6, <2>1, <2>7, <3>1, <3>2
  <2>8. CASE j > k + 1
    <3>1. /\ j \in k + 2 .. n + 2 /\ j + 1 \in k + 2 .. n + 2
          /\ (j + 1) - 1 = (j - 1) + 1 /\ j - 1 # k /\ j - 1 \in 0 .. n
      BY <1>1, <2>8
    <3> QED
      BY <2>1, <2>3, <2>4, <3>1
  <2> QED
    BY <2>5, <2>6, <2>7, <2>8
<1>10. OwnedBy(l, t, owner2)
  <2> SUFFICES ASSUME NEW h \in Item PROVE owner2[h] = l <=> \E j \in 1 .. n + 1 : t[j] = h
    BY <1>2 DEF OwnedBy
  <2>1. owner[h] = l <=> \E j \in 1 .. n : S[l][j] = h
    BY DEF Linked, OwnedBy
  <2>2. CASE h = i
    <3>1. k + 1 \in 1 .. n + 1 /\ t[k + 1] = i
      BY <1>1, <1>2
    <3> QED
      BY <1>7, <2>2, <3>1
  <2>3. CASE h # i
    <3>1. ASSUME NEW j \in 1 .. n, S[l][j] = h PROVE \E e \in 1 .. n + 1 : t[e] = h
      <4>1. CASE j < k + 1
        <5>1. j \in 1 .. n + 1 /\ t[j] = h
          BY <1>1, <1>2, <3>1, <4>1
        <5> QED
          BY <5>1
      <4>2. CASE j >= k + 1
        <5>1. j + 1 \in 1 .. n + 1 /\ (j + 1) - 1 = j /\ ~(j + 1 < k + 1) /\ j + 1 # k + 1
          BY <1>1, <4>2
        <5>2. t[j + 1] = h
          BY <1>2, <3>1, <5>1
        <5> QED
          BY <5>1, <5>2
      <4> QED
        BY <4>1, <4>2
    <3>2. ASSUME NEW j \in 1 .. n + 1, t[j] = h PROVE \E e \in 1 .. n : S[l][e] = h
      <4>1. CASE j < k + 1
        BY <1>1, <1>2, <3>2, <4>1
      <4>2. CASE j > k + 1
        <5>1. j - 1 \in 1 .. n /\ S[l][j - 1] = h
          BY <1>1, <1>2, <3>2, <4>2
        <5> QED
          BY <5>1
      <4>3. j # k + 1
        BY <1>2, <2>3, <3>2
      <4> QED
        BY <4>1, <4>2, <4>3
    <3> QED
      BY <1>7, <2>1, <2>3, <3>1, <3>2
  <2> QED
    BY <2>2, <2>3
<1>11. \A m \in ListName : RingOf(m, T[m], next2, prev2) /\ OwnedBy(m, T[m], owner2)
  BY <1>3, <1>8, <1>9, <1>10
<1>12. Linked(T, next2, prev2, owner2)
  BY <1>3, <1>5, <1>6, <1>7, <1>11 DEF Linked
<1> QED
  BY <1>12 DEF T, t, next2, prev2, owner2
-----------------------------------------------------------------------------
Removed(s, k, t) ==
  /\ t \in Seq(Item) /\ Len(t) = Len(s) - 1
  /\ \A j \in 1 .. Len(s) - 1 : t[j] = IF j < k THEN s[j] ELSE s[j + 1]

LEMMA RemoveAtRemoves ==
  ASSUME NEW s \in Seq(Item), NEW k \in 1 .. Len(s)
  PROVE  Removed(s, k, Sequence!RemoveAt(s, k))
<1> DEFINE left == SubSeq(s, 1, k - 1)
           right == SubSeq(s, k + 1, Len(s))
           t == left \o right
<1>0. Len(s) \in Nat /\ \A j \in 1 .. Len(s) : s[j] \in Item
  BY LenProperties
<1>1. left \in Seq(Item) /\ Len(left) = k - 1 /\ \A j \in 1 .. k - 1 : left[j] = s[j]
  <2>1. \A j \in 1 .. k - 1 : s[j] \in Item
    BY <1>0
  <2> QED
    BY <1>0, <2>1, SubSeqProperties
<1>2. right \in Seq(Item) /\ Len(right) = Len(s) - k /\ \A j \in 1 .. Len(s) - k : right[j] = s[k + j]
  <2>1. \A j \in k + 1 .. Len(s) : s[j] \in Item
    BY <1>0
  <2> QED
    BY <1>0, <2>1, SubSeqProperties
<1> HIDE DEF left, right
<1>3. /\ t \in Seq(Item) /\ Len(t) = Len(s) - 1
      /\ \A j \in 1 .. Len(s) - 1 : t[j] = IF j <= k - 1 THEN left[j] ELSE right[j - (k - 1)]
  <2>1. /\ t \in Seq(Item) /\ Len(t) = Len(left) + Len(right)
        /\ \A j \in 1 .. Len(left) + Len(right) : t[j] = IF j <= Len(left) THEN left[j] ELSE right[j - Len(left)]
    BY <1>1, <1>2, ConcatProperties
  <2> HIDE DEF t
  <2> QED
    BY <1>0, <1>1, <1>2, <2>1
<1>4. t = Sequence!RemoveAt(s, k)
  BY DEF Sequence!RemoveAt, left, right
<1> HIDE DEF t
<1>5. \A j \in 1 .. Len(s) - 1 : t[j] = IF j < k THEN s[j] ELSE s[j + 1]
  <2> TAKE j \in 1 .. Len(s) - 1
  <2>1. CASE j < k
    BY <1>0, <1>1, <1>3, <2>1
  <2>2. CASE j >= k
    <3>1. j - (k - 1) \in 1 .. Len(s) - k /\ k + (j - (k - 1)) = j + 1
      BY <1>0, <2>2
    <3>2. right[j - (k - 1)] = s[k + (j - (k - 1))]
      BY <1>2, <3>1
    <3> QED
      BY <1>0, <1>3, <2>2, <3>1, <3>2
  <2> QED
    BY <1>0, <2>1, <2>2
<1> QED
  BY <1>3, <1>4, <1>5 DEF Removed

LEMMA RingsDisjoint ==
  ASSUME NEW S, NEW next, NEW prev, NEW owner, Linked(S, next, prev, owner),
         NEW l \in ListName, NEW m \in ListName, NEW j \in 0 .. Len(S[l]), NEW k \in 0 .. Len(S[m]),
         l # m \/ j # k
  PROVE  /\ NodeAt(l, S[l], j) # NodeAt(m, S[m], k)
         /\ NodeAt(l, S[l], j + 1) # NodeAt(m, S[m], k + 1)
<1>1. S[l] \in Seq(Item) /\ Len(S[l]) \in Nat /\ S[m] \in Seq(Item) /\ Len(S[m]) \in Nat
  BY LenProperties DEF Linked, ItemSeqs
<1>2. NodeAt(l, S[l], j) # NodeAt(m, S[m], k)
  BY <1>1, PlacesUnique
<1>3. /\ j + 1 \in 1 .. Len(S[l]) + 1 /\ k + 1 \in 1 .. Len(S[m]) + 1
      /\ j + 1 \in Int /\ k + 1 \in Int /\ (l # m \/ j + 1 # k + 1)
  BY <1>1
<1>4. NodeAt(l, S[l], j + 1) # NodeAt(m, S[m], k + 1)
  BY <1>3, PlacesUnique
<1> QED
  BY <1>2, <1>4

(* A ring none of whose links changes, and whose owner neither, stays. *)
LEMMA RingStays ==
  ASSUME NEW S, NEW next, NEW prev, NEW owner, Linked(S, next, prev, owner), NEW m \in ListName,
         NEW next2, NEW prev2, NEW owner2,
         \A j \in 0 .. Len(S[m]) : /\ next2[NodeAt(m, S[m], j)] = next[NodeAt(m, S[m], j)]
                                   /\ prev2[NodeAt(m, S[m], j + 1)] = prev[NodeAt(m, S[m], j + 1)],
         \A i \in Item : owner2[i] = m <=> owner[i] = m
  PROVE  RingOf(m, S[m], next2, prev2) /\ OwnedBy(m, S[m], owner2)
<1>1. RingOf(m, S[m], next, prev) /\ OwnedBy(m, S[m], owner)
  BY DEF Linked
<1>2. RingOf(m, S[m], next2, prev2)
  BY <1>1 DEF RingOf
<1>3. OwnedBy(m, S[m], owner2)
  BY <1>1 DEF OwnedBy
<1> QED
  BY <1>2, <1>3

LEMMA UnlinkRemoves ==
  ASSUME NEW S, NEW next, NEW prev, NEW owner, Linked(S, next, prev, owner), NEW l \in ListName,
         NEW k \in 1 .. Len(S[l]), NEW i \in Item, i = S[l][k],
         NEW next2 \in [Node -> Node \cup {Nothing}], NEW prev2 \in [Node -> Node \cup {Nothing}],
         next2[NodeAt(l, S[l], k - 1)] = NodeAt(l, S[l], k + 1),
         prev2[NodeAt(l, S[l], k + 1)] = NodeAt(l, S[l], k - 1),
         \A m \in Node : m # i /\ m # NodeAt(l, S[l], k - 1) => next2[m] = next[m],
         \A m \in Node : m # i /\ m # NodeAt(l, S[l], k + 1) => prev2[m] = prev[m]
  PROVE  Linked([S EXCEPT ![l] = Sequence!RemoveAt(S[l], k)], next2, prev2, [owner EXCEPT ![i] = Nothing])
<1> DEFINE before == NodeAt(l, S[l], k - 1)
           after == NodeAt(l, S[l], k + 1)
           t == Sequence!RemoveAt(S[l], k)
           T == [S EXCEPT ![l] = t]
           owner2 == [owner EXCEPT ![i] = Nothing]
           n == Len(S[l])
<1>1. S \in ItemSeqs /\ S[l] \in Seq(Item) /\ n \in Nat /\ RingOf(l, S[l], next, prev) /\ OwnedBy(l, S[l], owner)
  BY LenProperties DEF Linked, ItemSeqs
<1>2. /\ t \in Seq(Item) /\ Len(t) = n - 1
      /\ \A j \in 1 .. n - 1 : t[j] = IF j < k THEN S[l][j] ELSE S[l][j + 1]
  <2>1. Removed(S[l], k, t)
    BY <1>1, RemoveAtRemoves
  <2> QED
    BY <2>1 DEF Removed
<1> HIDE DEF t
<1>3. T \in ItemSeqs /\ T[l] = t /\ \A m \in ListName : m # l => T[m] = S[m]
  BY <1>1, <1>2 DEF ItemSeqs
<1>4. i = NodeAt(l, S[l], k) /\ owner[i] = l
  BY <1>1 DEF NodeAt, OwnedBy
<1>5. /\ owner2 \in [Item -> ListName \cup {Nothing}] /\ owner2[i] = Nothing
      /\ \A j \in Item : j # i => owner2[j] = owner[j]
  BY DEF Linked
<1>6. Nothing \notin ListName
  BY ListAssumption
<1> HIDE DEF T, owner2
<1>7. k - 1 \in 0 .. n /\ (k - 1) + 1 = k /\ k \in 0 .. n
  BY <1>1
<1>8. ASSUME NEW m \in ListName, NEW j \in 0 .. Len(S[m]), m # l \/ (j # k - 1 /\ j # k)
      PROVE  /\ next2[NodeAt(m, S[m], j)] = NodeAt(m, S[m], j + 1)
             /\ prev2[NodeAt(m, S[m], j + 1)] = NodeAt(m, S[m], j)
  <2>1. NodeAt(m, S[m], j) # i /\ NodeAt(m, S[m], j + 1) # after
    BY <1>4, <1>7, <1>8, RingsDisjoint
  <2>2. NodeAt(m, S[m], j) # before /\ NodeAt(m, S[m], j + 1) # NodeAt(l, S[l], (k - 1) + 1)
    BY <1>7, <1>8, RingsDisjoint
  <2>3. NodeAt(m, S[m], j + 1) # i
    BY <2>2, <1>4, <1>7
  <2>4. NodeAt(m, S[m], j) \in Node /\ NodeAt(m, S[m], j + 1) \in Node
    BY <1>1, NodeTypes DEF ItemSeqs
  <2>5. next[NodeAt(m, S[m], j)] = NodeAt(m, S[m], j + 1) /\ prev[NodeAt(m, S[m], j + 1)] = NodeAt(m, S[m], j)
    BY DEF Linked, RingOf
  <2> QED
    BY <2>1, <2>2, <2>3, <2>4, <2>5
<1>9. ASSUME NEW m \in ListName, m # l
      PROVE  RingOf(m, T[m], next2, prev2) /\ OwnedBy(m, T[m], owner2)
  <2>1. RingOf(m, S[m], next2, prev2)
    BY <1>8, <1>9 DEF RingOf
  <2>2. OwnedBy(m, S[m], owner2)
    <3>1. OwnedBy(m, S[m], owner)
      BY DEF Linked
    <3> QED
      BY <1>4, <1>5, <1>6, <1>9, <3>1 DEF OwnedBy
  <2> QED
    BY <1>3, <1>9, <2>1, <2>2
<1>10. RingOf(l, t, next2, prev2)
  <2> SUFFICES ASSUME NEW j \in 0 .. n - 1
               PROVE  next2[NodeAt(l, t, j)] = NodeAt(l, t, j + 1) /\ prev2[NodeAt(l, t, j + 1)] = NodeAt(l, t, j)
    BY <1>2 DEF RingOf
  <2>1. /\ \A h \in 0 .. k - 1 : NodeAt(l, t, h) = NodeAt(l, S[l], h)
        /\ \A h \in k .. n : NodeAt(l, t, h) = NodeAt(l, S[l], h + 1)
    BY <1>1, <1>2 DEF NodeAt
  <2>2. CASE j < k - 1
    <3>1. j \in 0 .. n /\ j \in 0 .. k - 1 /\ j + 1 \in 0 .. k - 1 /\ j # k - 1 /\ j # k
      BY <1>1, <2>2
    <3> QED
      BY <1>8, <2>1, <3>1
  <2>3. CASE j = k - 1
    <3>1. j \in 0 .. k - 1 /\ j + 1 \in k .. n /\ (j + 1) + 1 = k + 1
      BY <1>1, <2>3
    <3> QED
      BY <2>1, <2>3, <3>1
  <2>4. CASE j > k - 1
    <3>1. j \in k .. n /\ j + 1 \in k .. n /\ j + 1 \in 0 .. n /\ j + 1 # k - 1 /\ j + 1 # k
      BY <1>1, <2>4
    <3> QED
      BY <1>8, <2>1, <3>1
  <2> QED
    BY <2>2, <2>3, <2>4
<1>11. OwnedBy(l, t, owner2)
  <2> SUFFICES ASSUME NEW h \in Item PROVE owner2[h] = l <=> \E j \in 1 .. n - 1 : t[j] = h
    BY <1>2 DEF OwnedBy
  <2>1. owner[h] = l <=> \E j \in 1 .. n : S[l][j] = h
    BY <1>1 DEF OwnedBy
  <2>2. \A j \in 1 .. n : S[l][j] = i => j = k
    BY <1>1, RingInjective
  <2>3. ASSUME NEW j \in 1 .. n - 1, t[j] = h PROVE h # i /\ \E e \in 1 .. n : S[l][e] = h
    <3>1. CASE j < k
      <4>1. j \in 1 .. n /\ S[l][j] = h /\ j # k
        BY <1>1, <1>2, <2>3, <3>1
      <4> QED
        BY <2>2, <4>1
    <3>2. CASE j >= k
      <4>1. j + 1 \in 1 .. n /\ S[l][j + 1] = h /\ j + 1 # k
        BY <1>1, <1>2, <2>3, <3>2
      <4> QED
        BY <2>2, <4>1
    <3> QED
      BY <1>1, <3>1, <3>2
  <2>4. ASSUME h # i, NEW j \in 1 .. n, S[l][j] = h PROVE \E e \in 1 .. n - 1 : t[e] = h
    <3>0. j # k
      BY <2>4
    <3>1. CASE j < k
      <4>1. j \in 1 .. n - 1 /\ t[j] = h
        BY <1>1, <1>2, <2>4, <3>1
      <4> QED
        BY <4>1
    <3>2. CASE j > k
      <4>1. j - 1 \in 1 .. n - 1 /\ (j - 1) + 1 = j /\ ~(j - 1 < k)
        BY <1>1, <3>2
      <4> QED
        BY <1>2, <2>4, <4>1
    <3> QED
      BY <1>1, <3>0, <3>1, <3>2
  <2> QED
    BY <1>5, <1>6, <2>1, <2>3, <2>4
<1>12. \A m \in ListName : RingOf(m, T[m], next2, prev2) /\ OwnedBy(m, T[m], owner2)
  BY <1>3, <1>9, <1>10, <1>11
<1>13. Linked(T, next2, prev2, owner2)
  BY <1>3, <1>5, <1>12 DEF Linked
<1> QED
  BY <1>13 DEF T, t, owner2
-----------------------------------------------------------------------------
CutOut(s, a, b, t) ==
  /\ t \in Seq(Item) /\ Len(t) = Len(s) - (b - a + 1)
  /\ \A j \in 1 .. Len(t) : t[j] = IF j < a THEN s[j] ELSE s[j + (b - a + 1)]
Pasted(s, p, mid, t) ==
  /\ t \in Seq(Item) /\ Len(t) = Len(s) + Len(mid)
  /\ \A j \in 1 .. Len(t) : t[j] = IF j <= p THEN s[j]
                                   ELSE IF j <= p + Len(mid) THEN mid[j - p] ELSE s[j - Len(mid)]

LEMMA CutCutsOut ==
  ASSUME NEW s \in Seq(Item), NEW a \in 1 .. Len(s), NEW b \in a .. Len(s)
  PROVE  CutOut(s, a, b, Sequence!Cut(s, a, b))
<1> DEFINE left == SubSeq(s, 1, a - 1)
           right == SubSeq(s, b + 1, Len(s))
           t == left \o right
<1>0. Len(s) \in Nat /\ \A j \in 1 .. Len(s) : s[j] \in Item
  BY LenProperties
<1>1. left \in Seq(Item) /\ Len(left) = a - 1 /\ \A j \in 1 .. a - 1 : left[j] = s[j]
  <2>1. \A j \in 1 .. a - 1 : s[j] \in Item
    BY <1>0
  <2> QED
    BY <1>0, <2>1, SubSeqProperties
<1>2. right \in Seq(Item) /\ Len(right) = Len(s) - b /\ \A j \in 1 .. Len(s) - b : right[j] = s[b + j]
  <2>1. \A j \in b + 1 .. Len(s) : s[j] \in Item
    BY <1>0
  <2> QED
    BY <1>0, <2>1, SubSeqProperties
<1> HIDE DEF left, right
<1>3. /\ t \in Seq(Item) /\ Len(t) = Len(s) - (b - a + 1)
      /\ \A j \in 1 .. Len(t) : t[j] = IF j <= a - 1 THEN left[j] ELSE right[j - (a - 1)]
  <2>1. /\ t \in Seq(Item) /\ Len(t) = Len(left) + Len(right)
        /\ \A j \in 1 .. Len(left) + Len(right) : t[j] = IF j <= Len(left) THEN left[j] ELSE right[j - Len(left)]
    BY <1>1, <1>2, ConcatProperties
  <2>2. Len(left) = a - 1 /\ Len(left) + Len(right) = Len(s) - (b - a + 1)
    BY <1>0, <1>1, <1>2
  <2> HIDE DEF t
  <2> QED
    BY <2>1, <2>2
<1>4. t = Sequence!Cut(s, a, b)
  BY DEF Sequence!Cut, left, right
<1> HIDE DEF t
<1>5. \A j \in 1 .. Len(t) : t[j] = IF j < a THEN s[j] ELSE s[j + (b - a + 1)]
  <2> TAKE j \in 1 .. Len(t)
  <2>1. CASE j < a
    <3>1. j <= a - 1 /\ j \in 1 .. a - 1
      BY <1>0, <2>1
    <3> QED
      BY <1>1, <1>3, <2>1, <3>1
  <2>2. CASE j >= a
    <3>1. j - (a - 1) \in 1 .. Len(s) - b /\ b + (j - (a - 1)) = j + (b - a + 1)
      BY <1>0, <1>3, <2>2
    <3>2. right[j - (a - 1)] = s[b + (j - (a - 1))]
      BY <1>2, <3>1
    <3> QED
      BY <1>0, <1>3, <2>2, <3>1, <3>2
  <2> QED
    BY <1>0, <1>3, <2>1, <2>2
<1> QED
  BY <1>3, <1>4, <1>5 DEF CutOut

LEMMA PastePastes ==
  ASSUME NEW s \in Seq(Item), NEW p \in 0 .. Len(s), NEW mid \in Seq(Item)
  PROVE  Pasted(s, p, mid, Sequence!Paste(s, p, mid))
<1> DEFINE left == SubSeq(s, 1, p)
           right == SubSeq(s, p + 1, Len(s))
           c == left \o mid
           t == c \o right
<1>0. Len(s) \in Nat /\ Len(mid) \in Nat /\ \A j \in 1 .. Len(s) : s[j] \in Item
  BY LenProperties
<1>1. left \in Seq(Item) /\ Len(left) = p /\ \A j \in 1 .. p : left[j] = s[j]
  <2>1. \A j \in 1 .. p : s[j] \in Item
    BY <1>0
  <2> QED
    BY <1>0, <2>1, SubSeqProperties
<1>2. right \in Seq(Item) /\ Len(right) = Len(s) - p /\ \A j \in 1 .. Len(s) - p : right[j] = s[p + j]
  <2>1. \A j \in p + 1 .. Len(s) : s[j] \in Item
    BY <1>0
  <2> QED
    BY <1>0, <2>1, SubSeqProperties
<1> HIDE DEF left, right
<1>3. c \in Seq(Item) /\ Len(c) = p + Len(mid) /\ \A j \in 1 .. Len(c) : c[j] = IF j <= p THEN s[j] ELSE mid[j - p]
  <2>1. /\ c \in Seq(Item) /\ Len(c) = Len(left) + Len(mid)
        /\ \A j \in 1 .. Len(left) + Len(mid) : c[j] = IF j <= Len(left) THEN left[j] ELSE mid[j - Len(left)]
    BY <1>1, ConcatProperties
  <2> HIDE DEF c
  <2> QED
    BY <1>0, <1>1, <2>1
<1> HIDE DEF c
<1>4. /\ t \in Seq(Item) /\ Len(t) = Len(s) + Len(mid)
      /\ \A j \in 1 .. Len(t) : t[j] = IF j <= Len(c) THEN c[j] ELSE right[j - Len(c)]
  <2>1. /\ t \in Seq(Item) /\ Len(t) = Len(c) + Len(right)
        /\ \A j \in 1 .. Len(c) + Len(right) : t[j] = IF j <= Len(c) THEN c[j] ELSE right[j - Len(c)]
    BY <1>2, <1>3, ConcatProperties
  <2>2. Len(c) + Len(right) = Len(s) + Len(mid)
    BY <1>0, <1>2, <1>3
  <2> HIDE DEF t
  <2> QED
    BY <2>1, <2>2
<1>5. t = Sequence!Paste(s, p, mid)
  BY DEF Sequence!Paste, c, left, right
<1> HIDE DEF t
<1>6. \A j \in 1 .. Len(t) : t[j] = IF j <= p THEN s[j]
                                    ELSE IF j <= p + Len(mid) THEN mid[j - p] ELSE s[j - Len(mid)]
  <2> TAKE j \in 1 .. Len(t)
  <2>1. CASE j <= p + Len(mid)
    BY <1>0, <1>3, <1>4, <2>1
  <2>2. CASE j > p + Len(mid)
    <3>1. j - Len(c) \in 1 .. Len(s) - p /\ p + (j - Len(c)) = j - Len(mid)
      BY <1>0, <1>3, <1>4, <2>2
    <3>2. right[j - Len(c)] = s[p + (j - Len(c))]
      BY <1>2, <3>1
    <3> QED
      BY <1>0, <1>3, <1>4, <2>2, <3>1, <3>2
  <2> QED
    BY <1>0, <1>4, <2>1, <2>2
<1> QED
  BY <1>4, <1>5, <1>6 DEF Pasted

(* The three links that a transfer changes: the nodes a .. b of the list x   *)
(* come to lie after the node p of the list l.                               *)
NextOf(S, l, p, x, a, b, m, j) ==
  CASE m = x /\ j = b     -> NodeAt(l, S[l], p + 1)
    [] m = x /\ j = a - 1 -> NodeAt(x, S[x], b + 1)
    [] m = l /\ j = p     -> NodeAt(x, S[x], a)
    [] OTHER              -> NodeAt(m, S[m], j + 1)
PrevOf(S, l, p, x, a, b, m, j) ==
  CASE m = x /\ j = b     -> NodeAt(x, S[x], a - 1)
    [] m = x /\ j = a - 1 -> NodeAt(l, S[l], p)
    [] m = l /\ j = p     -> NodeAt(x, S[x], b)
    [] OTHER              -> NodeAt(m, S[m], j)
Relinked(S, l, p, x, a, b, next2, prev2) ==
  \A m \in ListName : \A j \in 0 .. Len(S[m]) :
    /\ next2[NodeAt(m, S[m], j)] = NextOf(S, l, p, x, a, b, m, j)
    /\ prev2[NodeAt(m, S[m], j + 1)] = PrevOf(S, l, p, x, a, b, m, j)

(* The transfer of the nodes a .. b of the list x, which are mid, to after   *)
(* the node p of the list l.                                                 *)
Transferred(S, prev, owner, l, p, x, a, b, mid, next, next2, prev2, owner2) ==
  LET first == NodeAt(x, S[x], a)
      last  == NodeAt(x, S[x], b + 1)
      pos   == NodeAt(l, S[l], p + 1)
  IN /\ next2 = [next EXCEPT ![prev[last]] = pos, ![prev[first]] = last, ![prev[pos]] = first]
     /\ prev2 = [prev EXCEPT ![pos] = prev[last], ![last] = prev[first], ![first] = prev[pos]]
     /\ owner2 = [i \in Item |-> IF \E k \in DOMAIN mid : mid[k] = i THEN l ELSE owner[i]]

LEMMA TransferRelinks ==
  ASSUME NEW S, NEW next, NEW prev, NEW owner, Linked(S, next, prev, owner),
         NEW l \in ListName, NEW p \in 0 .. Len(S[l]), NEW x \in ListName,
         NEW a \in 1 .. Len(S[x]), NEW b \in a .. Len(S[x]), l # x \/ p < a - 1 \/ p > b,
         NEW mid, NEW next2, NEW prev2, NEW owner2,
         Transferred(S, prev, owner, l, p, x, a, b, mid, next, next2, prev2, owner2)
  PROVE  /\ next2 \in [Node -> Node \cup {Nothing}] /\ prev2 \in [Node -> Node \cup {Nothing}]
         /\ Relinked(S, l, p, x, a, b, next2, prev2)
<1> DEFINE first == NodeAt(x, S[x], a)
           last == NodeAt(x, S[x], b + 1)
           pos == NodeAt(l, S[l], p + 1)
<1>0. /\ next2 = [next EXCEPT ![prev[last]] = pos, ![prev[first]] = last, ![prev[pos]] = first]
      /\ prev2 = [prev EXCEPT ![pos] = prev[last], ![last] = prev[first], ![first] = prev[pos]]
  BY DEF Transferred
<1>1. /\ S[l] \in Seq(Item) /\ Len(S[l]) \in Nat /\ S[x] \in Seq(Item) /\ Len(S[x]) \in Nat
      /\ next \in [Node -> Node \cup {Nothing}] /\ prev \in [Node -> Node \cup {Nothing}]
  BY LenProperties DEF Linked, ItemSeqs
<1>2. (a - 1) + 1 = a /\ a - 1 \in 0 .. Len(S[x]) /\ b \in 0 .. Len(S[x]) /\ a - 1 # b
  BY <1>1
<1>3. prev[last] = NodeAt(x, S[x], b) /\ prev[first] = NodeAt(x, S[x], a - 1) /\ prev[pos] = NodeAt(l, S[l], p)
  BY <1>2 DEF Linked, RingOf
<1>4. first \in Node /\ last \in Node /\ pos \in Node
  BY <1>1, NodeTypes
<1>5. prev[last] \in Node /\ prev[first] \in Node /\ prev[pos] \in Node
  BY <1>1, <1>3, NodeTypes
<1> HIDE DEF first, last, pos
<1>6. next2 \in [Node -> Node \cup {Nothing}] /\ prev2 \in [Node -> Node \cup {Nothing}]
  BY <1>0, <1>1, <1>4, <1>5
<1>7. /\ \A n \in Node : next2[n] = IF n = prev[pos] THEN first ELSE IF n = prev[first] THEN last
                                    ELSE IF n = prev[last] THEN pos ELSE next[n]
      /\ \A n \in Node : prev2[n] = IF n = first THEN prev[pos] ELSE IF n = last THEN prev[first]
                                    ELSE IF n = pos THEN prev[last] ELSE prev[n]
  BY <1>0, <1>1, <1>4, <1>5
<1>8. ASSUME NEW m \in ListName, NEW j \in 0 .. Len(S[m])
      PROVE  /\ next2[NodeAt(m, S[m], j)] = NextOf(S, l, p, x, a, b, m, j)
             /\ prev2[NodeAt(m, S[m], j + 1)] = PrevOf(S, l, p, x, a, b, m, j)
  <2>1. NodeAt(m, S[m], j) \in Node /\ NodeAt(m, S[m], j + 1) \in Node
    BY NodeTypes DEF Linked, ItemSeqs
  <2>2. next[NodeAt(m, S[m], j)] = NodeAt(m, S[m], j + 1) /\ prev[NodeAt(m, S[m], j + 1)] = NodeAt(m, S[m], j)
    BY DEF Linked, RingOf
  <2>3. /\ NodeAt(m, S[m], j) = prev[last] <=> m = x /\ j = b
        /\ NodeAt(m, S[m], j + 1) = last <=> m = x /\ j = b
    <3>1. m # x \/ j # b => /\ NodeAt(m, S[m], j) # NodeAt(x, S[x], b)
                            /\ NodeAt(m, S[m], j + 1) # NodeAt(x, S[x], b + 1)
      BY <1>2, RingsDisjoint
    <3> QED
      BY <1>3, <3>1 DEF last
  <2>4. /\ NodeAt(m, S[m], j) = prev[first] <=> m = x /\ j = a - 1
        /\ NodeAt(m, S[m], j + 1) = first <=> m = x /\ j = a - 1
    <3>1. m # x \/ j # a - 1 => /\ NodeAt(m, S[m], j) # NodeAt(x, S[x], a - 1)
                                /\ NodeAt(m, S[m], j + 1) # NodeAt(x, S[x], (a - 1) + 1)
      BY <1>2, RingsDisjoint
    <3> QED
      BY <1>2, <1>3, <3>1 DEF first
  <2>5. /\ NodeAt(m, S[m], j) = prev[pos] <=> m = l /\ j = p
        /\ NodeAt(m, S[m], j + 1) = pos <=> m = l /\ j = p
    BY <1>3, RingsDisjoint DEF pos
  <2>6. ~(m = l /\ j = p /\ m = x /\ (j = b \/ j = a - 1)) /\ ~(j = b /\ j = a - 1)
    BY <1>1, <1>2
  <2> HIDE DEF Relinked
  <2>7. CASE m = x /\ j = b
    BY <1>3, <1>7, <2>1, <2>3, <2>4, <2>5, <2>6, <2>7 DEF NextOf, PrevOf, first, last, pos
  <2>8. CASE m = x /\ j = a - 1
    BY <1>3, <1>7, <2>1, <2>3, <2>4, <2>5, <2>6, <2>8 DEF NextOf, PrevOf, first, last, pos
  <2>9. CASE m = l /\ j = p
    BY <1>3, <1>7, <2>1, <2>3, <2>4, <2>5, <2>6, <2>9 DEF NextOf, PrevOf, first, last, pos
  <2>10. CASE ~(m = x /\ j = b) /\ ~(m = x /\ j = a - 1) /\ ~(m = l /\ j = p)
    BY <1>7, <2>1, <2>2, <2>3, <2>4, <2>5, <2>10 DEF NextOf, PrevOf
  <2> QED
    BY <2>7, <2>8, <2>9, <2>10
<1> QED
  BY <1>6, <1>8 DEF Relinked
-----------------------------------------------------------------------------
(* The rings that a transfer leaves.                                         *)
IsRange(S, x, a, b, mid) ==
  mid \in Seq(Item) /\ Len(mid) = b - a + 1 /\ \A k \in 1 .. b - a + 1 : mid[k] = S[x][a + k - 1]

LEMMA RingWithoutRange ==
  ASSUME NEW S \in ItemSeqs, NEW l \in ListName, NEW p \in 0 .. Len(S[l]), NEW x \in ListName, l # x,
         NEW a \in 1 .. Len(S[x]), NEW b \in a .. Len(S[x]), NEW next2, NEW prev2,
         Relinked(S, l, p, x, a, b, next2, prev2), NEW t, CutOut(S[x], a, b, t)
  PROVE  RingOf(x, t, next2, prev2)
<1> DEFINE w == b - a + 1
           N(k) == NodeAt(x, S[x], k)
<1>1. S[x] \in Seq(Item) /\ Len(S[x]) \in Nat /\ w \in Nat /\ Len(t) = Len(S[x]) - w
  BY LenProperties DEF ItemSeqs, CutOut
<1>2. /\ \A k \in 0 .. a - 1 : NodeAt(x, t, k) = N(k)
      /\ \A k \in a .. Len(t) + 1 : NodeAt(x, t, k) = N(k + w)
  <2>1. \A k \in 1 .. Len(t) : t[k] = IF k < a THEN S[x][k] ELSE S[x][k + w]
    BY DEF CutOut
  <2>2. ASSUME NEW k \in 0 .. a - 1 PROVE NodeAt(x, t, k) = N(k)
    <3> HIDE DEF w
    <3>1. k \in 1 .. Len(t) <=> k # 0
      <4>1. a - 1 <= Len(t)
        BY <1>1 DEF w
      <4> QED
        BY <1>1, <4>1
    <3>2. k \in 1 .. Len(S[x]) <=> k # 0
      BY <1>1
    <3> QED
      BY <2>1, <3>1, <3>2 DEF NodeAt
  <2>3. ASSUME NEW k \in a .. Len(t) + 1 PROVE NodeAt(x, t, k) = N(k + w)
    <3> HIDE DEF w
    <3>1. k \in 1 .. Len(t) <=> k + w \in 1 .. Len(S[x])
      BY <1>1
    <3>2. ~(k < a)
      BY <1>1
    <3> QED
      BY <2>1, <3>1, <3>2 DEF NodeAt
  <2> QED
    BY <2>2, <2>3
<1>3. \A k \in 0 .. Len(S[x]) : k # b /\ k # a - 1 => next2[N(k)] = N(k + 1) /\ prev2[N(k + 1)] = N(k)
  BY DEF Relinked, NextOf, PrevOf
<1>4. next2[N(a - 1)] = N(b + 1) /\ prev2[N(b + 1)] = N(a - 1)
  <2>1. a - 1 \in 0 .. Len(S[x]) /\ b \in 0 .. Len(S[x]) /\ a - 1 # b
    BY <1>1
  <2> QED
    BY <2>1 DEF Relinked, NextOf, PrevOf
<1> HIDE DEF N
<1> SUFFICES ASSUME NEW k \in 0 .. Len(t)
             PROVE  next2[NodeAt(x, t, k)] = NodeAt(x, t, k + 1) /\ prev2[NodeAt(x, t, k + 1)] = NodeAt(x, t, k)
  BY DEF RingOf
<1>5. CASE k < a - 1
  <2>1. k \in 0 .. a - 1 /\ k + 1 \in 0 .. a - 1 /\ k \in 0 .. Len(S[x]) /\ k # b /\ k # a - 1
    BY <1>1, <1>5
  <2> QED
    BY <1>2, <1>3, <2>1
<1>6. CASE k = a - 1
  <2>1. k \in 0 .. a - 1 /\ k + 1 \in a .. Len(t) + 1 /\ (k + 1) + w = b + 1
    BY <1>1, <1>6
  <2> QED
    BY <1>2, <1>4, <1>6, <2>1
<1>7. CASE k > a - 1
  <2>1. /\ k \in a .. Len(t) + 1 /\ k + 1 \in a .. Len(t) + 1 /\ (k + 1) + w = (k + w) + 1
        /\ k + w \in 0 .. Len(S[x]) /\ k + w # b /\ k + w # a - 1
    BY <1>1, <1>7
  <2> QED
    BY <1>2, <1>3, <2>1
<1> QED
  BY <1>1, <1>5, <1>6, <1>7

LEMMA RingWithRange ==
  ASSUME NEW S \in ItemSeqs, NEW l \in ListName, NEW p \in 0 .. Len(S[l]), NEW x \in ListName, l # x,
         NEW a \in 1 .. Len(S[x]), NEW b \in a .. Len(S[x]), NEW next2, NEW prev2,
         Relinked(S, l, p, x, a, b, next2, prev2),
         NEW mid, IsRange(S, x, a, b, mid), NEW t, Pasted(S[l], p, mid, t)
  PROVE  RingOf(l, t, next2, prev2)
<1> DEFINE w == b - a + 1
           N(k) == NodeAt(l, S[l], k)
           X(k) == NodeAt(x, S[x], k)
<1>1. /\ S[l] \in Seq(Item) /\ Len(S[l]) \in Nat /\ S[x] \in Seq(Item) /\ Len(S[x]) \in Nat
      /\ w \in Nat /\ w > 0 /\ b = a + w - 1 /\ Len(mid) = w /\ Len(t) = Len(S[l]) + w
  BY LenProperties DEF ItemSeqs, Pasted, IsRange
<1>0. IsRange(S, x, a, b, mid) /\ \A k \in 1 .. w : mid[k] = S[x][a + k - 1]
  BY DEF IsRange
<1> HIDE DEF w
<1>2. /\ \A k \in 0 .. p : NodeAt(l, t, k) = N(k)
      /\ \A k \in p + w + 1 .. Len(t) + 1 : NodeAt(l, t, k) = N(k - w)
  BY <1>1 DEF NodeAt, Pasted
<1>3. \A k \in p + 1 .. p + w : NodeAt(l, t, k) = X(a + k - p - 1)
  <2> TAKE k \in p + 1 .. p + w
  <2>1. k - p \in 1 .. w /\ a + (k - p) - 1 = a + k - p - 1 /\ a + k - p - 1 \in 1 .. Len(S[x])
    BY <1>1
  <2>2. k \in 1 .. Len(t) /\ ~(k <= p) /\ k <= p + Len(mid)
    BY <1>1
  <2>3. t[k] = mid[k - p] /\ mid[k - p] = S[x][a + k - p - 1]
    BY <1>0, <2>1, <2>2 DEF Pasted
  <2> QED
    BY <2>1, <2>2, <2>3 DEF NodeAt
<1>4. /\ \A k \in 0 .. Len(S[l]) : k # p => next2[N(k)] = N(k + 1) /\ prev2[N(k + 1)] = N(k)
      /\ \A k \in 0 .. Len(S[x]) : k # b /\ k # a - 1 => next2[X(k)] = X(k + 1) /\ prev2[X(k + 1)] = X(k)
      /\ next2[N(p)] = X(a) /\ prev2[N(p + 1)] = X(b)
  BY DEF Relinked, NextOf, PrevOf
<1>5. next2[X(b)] = N(p + 1) /\ prev2[X(a)] = N(p)
  <2>1. a - 1 \in 0 .. Len(S[x]) /\ b \in 0 .. Len(S[x]) /\ a - 1 # b /\ (a - 1) + 1 = a
    BY <1>1
  <2>2. prev2[X((a - 1) + 1)] = N(p)
    BY <2>1 DEF Relinked, NextOf, PrevOf
  <2> QED
    BY <2>1, <2>2 DEF Relinked, NextOf, PrevOf
<1> HIDE DEF N, X
<1> SUFFICES ASSUME NEW k \in 0 .. Len(t)
             PROVE  next2[NodeAt(l, t, k)] = NodeAt(l, t, k + 1) /\ prev2[NodeAt(l, t, k + 1)] = NodeAt(l, t, k)
  BY DEF RingOf
<1>6. CASE k < p
  <2>1. k \in 0 .. p /\ k + 1 \in 0 .. p /\ k \in 0 .. Len(S[l]) /\ k # p
    BY <1>1, <1>6
  <2> QED
    BY <1>2, <1>4, <2>1
<1>7. CASE k = p
  <2>1. k \in 0 .. p /\ k + 1 \in p + 1 .. p + w /\ a + (k + 1) - p - 1 = a
    BY <1>1, <1>7
  <2> QED
    BY <1>2, <1>3, <1>4, <1>5, <1>7, <2>1
<1>8. CASE p < k /\ k < p + w
  <2>1. /\ k \in p + 1 .. p + w /\ k + 1 \in p + 1 .. p + w
        /\ a + (k + 1) - p - 1 = (a + k - p - 1) + 1
        /\ a + k - p - 1 \in 0 .. Len(S[x]) /\ a + k - p - 1 # b /\ a + k - p - 1 # a - 1
    BY <1>1, <1>8
  <2> QED
    BY <1>3, <1>4, <2>1
<1>9. CASE k = p + w
  <2>1. /\ k \in p + 1 .. p + w /\ k + 1 \in p + w + 1 .. Len(t) + 1
        /\ a + k - p - 1 = b /\ (k + 1) - w = p + 1
    BY <1>1, <1>9
  <2> QED
    BY <1>2, <1>3, <1>4, <1>5, <2>1
<1>10. CASE k > p + w
  <2>1. /\ k \in p + w + 1 .. Len(t) + 1 /\ k + 1 \in p + w + 1 .. Len(t) + 1
        /\ (k + 1) - w = (k - w) + 1 /\ k - w \in 0 .. Len(S[l]) /\ k - w # p
    BY <1>1, <1>10
  <2> QED
    BY <1>2, <1>4, <2>1
<1> QED
  BY <1>1, <1>6, <1>7, <1>8, <1>9, <1>10

(* Within one list: the range goes to a place before it ... *)
LEMMA RingMovedUp ==
  ASSUME NEW S \in ItemSeqs, NEW l \in ListName, NEW p \in 0 .. Len(S[l]),
         NEW a \in 1 .. Len(S[l]), NEW b \in a .. Len(S[l]), p < a - 1, NEW next2, NEW prev2,
         Relinked(S, l, p, l, a, b, next2, prev2),
         NEW mid, IsRange(S, l, a, b, mid), NEW r, CutOut(S[l], a, b, r), NEW t, Pasted(r, p, mid, t)
  PROVE  RingOf(l, t, next2, prev2)
<1> DEFINE w == b - a + 1
           n == Len(S[l])
           N(k) == NodeAt(l, S[l], k)
<1>s. /\ S[l] \in Seq(Item) /\ n \in Nat /\ w \in Nat /\ w > 0 /\ Len(mid) = w
      /\ Len(r) = n - w /\ Len(t) = n /\ b = a + w - 1
      /\ \A k \in 1 .. w : mid[k] = S[l][a + k - 1]
      /\ \A k \in 1 .. Len(r) : r[k] = IF k < a THEN S[l][k] ELSE S[l][k + w]
  <2>1. /\ Len(r) = n - w /\ Len(mid) = w /\ Len(t) = Len(r) + Len(mid)
        /\ \A k \in 1 .. w : mid[k] = S[l][a + k - 1]
        /\ \A k \in 1 .. Len(r) : r[k] = IF k < a THEN S[l][k] ELSE S[l][k + w]
    BY DEF Pasted, IsRange, CutOut
  <2>2. S[l] \in Seq(Item) /\ n \in Nat
    BY LenProperties DEF ItemSeqs
  <2>3. w \in Nat /\ w > 0 /\ b = a + w - 1
    BY <2>2
  <2> HIDE DEF w, n
  <2>4. (n - w) + w = n
    BY <2>2, <2>3
  <2> QED
    BY <2>1, <2>2, <2>3, <2>4
<1> HIDE DEF w
<1>1. /\ n \in Nat /\ w \in Nat /\ w > 0 /\ Len(mid) = w /\ Len(r) = n - w /\ Len(t) = n
      /\ a \in 1 .. n /\ b \in a .. n /\ b = a + w - 1 /\ p \in 0 .. n /\ p + w < b
  <2>1. p + w < b
    BY <1>s
  <2> QED
    BY <1>s, <2>1
<1>2. /\ \A k \in 0 .. p : NodeAt(l, t, k) = N(k)
      /\ \A k \in p + w + 1 .. b : NodeAt(l, t, k) = N(k - w)
      /\ \A k \in b + 1 .. n + 1 : NodeAt(l, t, k) = N(k)
  <2>0. p < n - w
    BY <1>1
  <2>1. ASSUME NEW k \in 0 .. p PROVE NodeAt(l, t, k) = N(k)
    <3>1. CASE k = 0
      BY <3>1 DEF NodeAt
    <3>2. CASE k # 0
      <4>1. k \in 1 .. n /\ k \in 1 .. Len(r) /\ k \in 1 .. Len(t) /\ k < a
        BY <1>1, <2>0, <3>2
      <4>2. t[k] = r[k] /\ r[k] = S[l][k]
        BY <1>s, <4>1 DEF Pasted
      <4> QED
        BY <4>1, <4>2 DEF NodeAt
    <3> QED
      BY <3>1, <3>2
  <2>2. ASSUME NEW k \in p + w + 1 .. n PROVE k \in 1 .. Len(t) /\ k - w \in 1 .. Len(r) /\ t[k] = r[k - w]
    <3>1. k \in 1 .. Len(t) /\ k - w \in 1 .. Len(r) /\ ~(k <= p) /\ ~(k <= p + w)
      BY <1>1
    <3> QED
      BY <1>s, <3>1 DEF Pasted
  <2>3. ASSUME NEW k \in p + w + 1 .. b PROVE NodeAt(l, t, k) = N(k - w)
    <3>1. k \in p + w + 1 .. n /\ k - w < a /\ k - w \in 1 .. n
      BY <1>1
    <3>2. k \in 1 .. Len(t) /\ k - w \in 1 .. Len(r) /\ t[k] = r[k - w]
      BY <2>2, <3>1
    <3>3. r[k - w] = S[l][k - w]
      BY <1>s, <3>1, <3>2
    <3> QED
      BY <3>1, <3>2, <3>3 DEF NodeAt
  <2>4. ASSUME NEW k \in b + 1 .. n + 1 PROVE NodeAt(l, t, k) = N(k)
    <3>1. CASE k = n + 1
      BY <1>1, <3>1 DEF NodeAt
    <3>2. CASE k # n + 1
      <4>1. k \in p + w + 1 .. n /\ ~(k - w < a) /\ (k - w) + w = k /\ k \in 1 .. n
        BY <1>1, <3>2
      <4>2. k \in 1 .. Len(t) /\ k - w \in 1 .. Len(r) /\ t[k] = r[k - w]
        BY <2>2, <4>1
      <4>3. r[k - w] = S[l][k]
        BY <1>s, <4>1, <4>2
      <4> QED
        BY <4>1, <4>2, <4>3 DEF NodeAt
    <3> QED
      BY <3>1, <3>2
  <2> QED
    BY <2>1, <2>3, <2>4
<1>3. \A k \in p + 1 .. p + w : NodeAt(l, t, k) = N(a + k - p - 1)
  <2> TAKE k \in p + 1 .. p + w
  <2>1. k - p \in 1 .. w /\ a + (k - p) - 1 = a + k - p - 1 /\ a + k - p - 1 \in 1 .. n
    BY <1>1
  <2>2. k \in 1 .. Len(t) /\ ~(k <= p) /\ k <= p + Len(mid)
    BY <1>1
  <2>3. t[k] = mid[k - p] /\ mid[k - p] = S[l][a + k - p - 1]
    BY <1>s, <2>1, <2>2 DEF Pasted
  <2> QED
    BY <2>1, <2>2, <2>3 DEF NodeAt
<1>4. /\ \A k \in 0 .. n : k # b /\ k # a - 1 /\ k # p => next2[N(k)] = N(k + 1) /\ prev2[N(k + 1)] = N(k)
      /\ next2[N(p)] = N(a) /\ prev2[N(p + 1)] = N(b)
      /\ next2[N(b)] = N(p + 1) /\ prev2[N(b + 1)] = N(a - 1)
      /\ next2[N(a - 1)] = N(b + 1) /\ prev2[N(a)] = N(p)
  <2>1. a - 1 \in 0 .. n /\ b \in 0 .. n /\ a - 1 # b /\ (a - 1) + 1 = a /\ p # b /\ p # a - 1
    BY <1>1
  <2>2. prev2[N((a - 1) + 1)] = N(p)
    BY <2>1 DEF Relinked, NextOf, PrevOf
  <2> QED
    BY <2>1, <2>2 DEF Relinked, NextOf, PrevOf
<1> HIDE DEF N
<1> SUFFICES ASSUME NEW k \in 0 .. n
             PROVE  next2[NodeAt(l, t, k)] = NodeAt(l, t, k + 1) /\ prev2[NodeAt(l, t, k + 1)] = NodeAt(l, t, k)
  BY <1>1 DEF RingOf
<1> HIDE DEF n
<1>5. CASE k < p
  <2>1. k \in 0 .. p /\ k + 1 \in 0 .. p /\ k \in 0 .. n /\ k # p /\ k # b /\ k # a - 1
    BY <1>1, <1>5
  <2> QED
    BY <1>2, <1>4, <2>1
<1>6. CASE k = p
  <2>1. k \in 0 .. p /\ k + 1 \in p + 1 .. p + w /\ a + (k + 1) - p - 1 = a
    BY <1>1, <1>6
  <2> QED
    BY <1>2, <1>3, <1>4, <1>6, <2>1
<1>7. CASE p < k /\ k < p + w
  <2>1. /\ k \in p + 1 .. p + w /\ k + 1 \in p + 1 .. p + w
        /\ a + (k + 1) - p - 1 = (a + k - p - 1) + 1 /\ a + k - p - 1 \in 0 .. n
        /\ a + k - p - 1 # b /\ a + k - p - 1 # a - 1 /\ a + k - p - 1 # p
    BY <1>1, <1>7
  <2> QED
    BY <1>3, <1>4, <2>1
<1>8. CASE k = p + w
  <2>1. /\ k \in p + 1 .. p + w /\ k + 1 \in p + w + 1 .. b
        /\ a + k - p - 1 = b /\ (k + 1) - w = p + 1
    BY <1>1, <1>8
  <2> QED
    BY <1>2, <1>3, <1>4, <2>1
<1>9. CASE p + w < k /\ k < b
  <2>1. /\ k \in p + w + 1 .. b /\ k + 1 \in p + w + 1 .. b /\ (k + 1) - w = (k - w) + 1
        /\ k - w \in 0 .. n /\ k - w # p /\ k - w # b /\ k - w # a - 1
    BY <1>1, <1>9
  <2> QED
    BY <1>2, <1>4, <2>1
<1>10. CASE k = b
  <2>1. k \in p + w + 1 .. b /\ k + 1 \in b + 1 .. n + 1 /\ k - w = a - 1
    BY <1>1, <1>10
  <2> QED
    BY <1>2, <1>4, <1>10, <2>1
<1>11. CASE k > b
  <2>1. k \in b + 1 .. n + 1 /\ k + 1 \in b + 1 .. n + 1 /\ k \in 0 .. n /\ k # p /\ k # b /\ k # a - 1
    BY <1>1, <1>11
  <2> QED
    BY <1>2, <1>4, <2>1
<1> QED
  BY <1>1, <1>5, <1>6, <1>7, <1>8, <1>9, <1>10, <1>11

(* ... or to one after it. *)
LEMMA RingMovedDown ==
  ASSUME NEW S \in ItemSeqs, NEW l \in ListName, NEW p \in 0 .. Len(S[l]),
         NEW a \in 1 .. Len(S[l]), NEW b \in a .. Len(S[l]), p > b, NEW next2, NEW prev2,
         Relinked(S, l, p, l, a, b, next2, prev2),
         NEW mid, IsRange(S, l, a, b, mid), NEW r, CutOut(S[l], a, b, r),
         NEW t, Pasted(r, p - (b - a + 1), mid, t)
  PROVE  RingOf(l, t, next2, prev2)
<1> DEFINE w == b - a + 1
           n == Len(S[l])
           q == p - w
           N(k) == NodeAt(l, S[l], k)
<1>s. /\ S[l] \in Seq(Item) /\ n \in Nat /\ w \in Nat /\ w > 0 /\ Len(mid) = w
      /\ Len(r) = n - w /\ Len(t) = n /\ b = a + w - 1
      /\ \A k \in 1 .. w : mid[k] = S[l][a + k - 1]
      /\ \A k \in 1 .. Len(r) : r[k] = IF k < a THEN S[l][k] ELSE S[l][k + w]
  <2>1. /\ Len(r) = n - w /\ Len(mid) = w /\ Len(t) = Len(r) + Len(mid)
        /\ \A k \in 1 .. w : mid[k] = S[l][a + k - 1]
        /\ \A k \in 1 .. Len(r) : r[k] = IF k < a THEN S[l][k] ELSE S[l][k + w]
    BY DEF Pasted, IsRange, CutOut
  <2>2. S[l] \in Seq(Item) /\ n \in Nat
    BY LenProperties DEF ItemSeqs
  <2>3. w \in Nat /\ w > 0 /\ b = a + w - 1
    BY <2>2
  <2> HIDE DEF w, n
  <2>4. (n - w) + w = n
    BY <2>2, <2>3
  <2> QED
    BY <2>1, <2>2, <2>3, <2>4
<1>0. Pasted(r, q, mid, t)
  BY DEF w
<1>1. /\ n \in Nat /\ w \in Nat /\ w > 0 /\ Len(mid) = w /\ Len(r) = n - w /\ Len(t) = n
      /\ a \in 1 .. n /\ b \in a .. n /\ b = a + w - 1 /\ p \in 0 .. n
      /\ q \in Nat /\ p = q + w /\ q >= a
  <2> HIDE DEF w
  <2>1. q \in Nat /\ p = q + w /\ q >= a
    BY <1>s
  <2> QED
    BY <1>s, <2>1
<1> HIDE DEF w, q
<1>2. /\ \A k \in 0 .. a - 1 : NodeAt(l, t, k) = N(k)
      /\ \A k \in a .. q : NodeAt(l, t, k) = N(k + w)
      /\ \A k \in p + 1 .. n + 1 : NodeAt(l, t, k) = N(k)
  <2>1. ASSUME NEW k \in 0 .. a - 1 PROVE NodeAt(l, t, k) = N(k)
    <3>1. CASE k = 0
      BY <3>1 DEF NodeAt
    <3>2. CASE k # 0
      <4>1. k \in 1 .. n /\ k \in 1 .. Len(r) /\ k \in 1 .. Len(t) /\ k < a /\ k <= q
        BY <1>1, <3>2
      <4>2. t[k] = r[k] /\ r[k] = S[l][k]
        BY <1>0, <1>s, <4>1 DEF Pasted
      <4> QED
        BY <4>1, <4>2 DEF NodeAt
    <3> QED
      BY <3>1, <3>2
  <2>2. ASSUME NEW k \in a .. q PROVE NodeAt(l, t, k) = N(k + w)
    <3>1. k \in 1 .. Len(t) /\ k \in 1 .. Len(r) /\ k + w \in 1 .. n /\ k <= q /\ ~(k < a)
      BY <1>1
    <3>2. t[k] = r[k] /\ r[k] = S[l][k + w]
      BY <1>0, <1>s, <3>1 DEF Pasted
    <3> QED
      BY <3>1, <3>2 DEF NodeAt
  <2>3. ASSUME NEW k \in p + 1 .. n + 1 PROVE NodeAt(l, t, k) = N(k)
    <3>1. CASE k = n + 1
      <4>1. k \notin 1 .. Len(t) /\ k \notin 1 .. n
        BY <1>1, <3>1
      <4> QED
        BY <4>1 DEF NodeAt
    <3>2. CASE k # n + 1
      <4>1. /\ k \in 1 .. Len(t) /\ k \in 1 .. n /\ k - w \in 1 .. Len(r)
            /\ ~(k <= q) /\ ~(k <= q + w)
            /\ ~(k - w < a) /\ (k - w) + w = k
        BY <1>1, <3>2
      <4>2. t[k] = r[k - w] /\ r[k - w] = S[l][k]
        BY <1>0, <1>s, <4>1 DEF Pasted
      <4> QED
        BY <4>1, <4>2 DEF NodeAt
    <3> QED
      BY <3>1, <3>2
  <2> QED
    BY <2>1, <2>2, <2>3
<1>3. \A k \in q + 1 .. p : NodeAt(l, t, k) = N(a + k - q - 1)
  <2> TAKE k \in q + 1 .. p
  <2>1. k - q \in 1 .. w /\ a + (k - q) - 1 = a + k - q - 1 /\ a + k - q - 1 \in 1 .. n
    BY <1>1
  <2>2. k \in 1 .. Len(t) /\ ~(k <= q) /\ k <= q + Len(mid)
    BY <1>1
  <2>3. t[k] = mid[k - q] /\ mid[k - q] = S[l][a + k - q - 1]
    BY <1>0, <1>s, <2>1, <2>2 DEF Pasted
  <2> QED
    BY <2>1, <2>2, <2>3 DEF NodeAt
<1>4. /\ \A k \in 0 .. n : k # b /\ k # a - 1 /\ k # p => next2[N(k)] = N(k + 1) /\ prev2[N(k + 1)] = N(k)
      /\ next2[N(p)] = N(a) /\ prev2[N(p + 1)] = N(b)
      /\ next2[N(b)] = N(p + 1) /\ prev2[N(b + 1)] = N(a - 1)
      /\ next2[N(a - 1)] = N(b + 1) /\ prev2[N(a)] = N(p)
  <2>1. a - 1 \in 0 .. n /\ b \in 0 .. n /\ a - 1 # b /\ (a - 1) + 1 = a /\ p # b /\ p # a - 1
    BY <1>1
  <2>2. prev2[N((a - 1) + 1)] = N(p)
    BY <2>1 DEF Relinked, NextOf, PrevOf
  <2> QED
    BY <2>1, <2>2 DEF Relinked, NextOf, PrevOf
<1> HIDE DEF N
<1> SUFFICES ASSUME NEW k \in 0 .. n
             PROVE  next2[NodeAt(l, t, k)] = NodeAt(l, t, k + 1) /\ prev2[NodeAt(l, t, k + 1)] = NodeAt(l, t, k)
  BY <1>1 DEF RingOf
<1> HIDE DEF n
<1>5. CASE k < a - 1
  <2>1. k \in 0 .. a - 1 /\ k + 1 \in 0 .. a - 1 /\ k \in 0 .. n /\ k # p /\ k # b /\ k # a - 1
    BY <1>1, <1>5
  <2> QED
    BY <1>2, <1>4, <2>1
<1>6. CASE k = a - 1
  <2>1. k \in 0 .. a - 1 /\ k + 1 \in a .. q /\ (k + 1) + w = b + 1
    BY <1>1, <1>6
  <2> QED
    BY <1>2, <1>4, <1>6, <2>1
<1>7. CASE a - 1 < k /\ k < q
  <2>1. /\ k \in a .. q /\ k + 1 \in a .. q /\ (k + 1) + w = (k + w) + 1
        /\ k + w \in 0 .. n /\ k + w # p /\ k + w # b /\ k + w # a - 1
    BY <1>1, <1>7
  <2> QED
    BY <1>2, <1>4, <2>1
<1>8. CASE k = q
  <2>1. k \in a .. q /\ k + 1 \in q + 1 .. p /\ k + w = p /\ a + (k + 1) - q - 1 = a
    BY <1>1, <1>8
  <2> QED
    BY <1>2, <1>3, <1>4, <2>1
<1>9. CASE q < k /\ k < p
  <2>1. /\ k \in q + 1 .. p /\ k + 1 \in q + 1 .. p
        /\ a + (k + 1) - q - 1 = (a + k - q - 1) + 1 /\ a + k - q - 1 \in 0 .. n
        /\ a + k - q - 1 # b /\ a + k - q - 1 # a - 1 /\ a + k - q - 1 # p
    BY <1>1, <1>9
  <2> QED
    BY <1>3, <1>4, <2>1
<1>10. CASE k = p
  <2>1. k \in q + 1 .. p /\ k + 1 \in p + 1 .. n + 1 /\ a + k - q - 1 = b
    BY <1>1, <1>10
  <2> QED
    BY <1>2, <1>3, <1>4, <1>10, <2>1
<1>11. CASE k > p
  <2>1. k \in p + 1 .. n + 1 /\ k + 1 \in p + 1 .. n + 1 /\ k \in 0 .. n /\ k # p /\ k # b /\ k # a - 1
    BY <1>1, <1>11
  <2> QED
    BY <1>2, <1>4, <2>1
<1> QED
  BY <1>1, <1>5, <1>6, <1>7, <1>8, <1>9, <1>10, <1>11
-----------------------------------------------------------------------------
(* Whose the items are after a transfer.                                     *)
OnSeq(s, i) == \E k \in 1 .. Len(s) : s[k] = i
InRange(s, a, b, i) == \E k \in a .. b : s[k] = i

LEMMA OnCutOut ==
  ASSUME NEW l \in ListName, NEW s \in Seq(Item), NEW next, NEW prev, RingOf(l, s, next, prev),
         NEW a \in 1 .. Len(s), NEW b \in a .. Len(s), NEW t, CutOut(s, a, b, t), NEW i
  PROVE  OnSeq(t, i) <=> OnSeq(s, i) /\ ~InRange(s, a, b, i)
<1> DEFINE w == b - a + 1
<1>1. Len(s) \in Nat /\ w \in Nat /\ w > 0 /\ b = a + w - 1 /\ Len(t) = Len(s) - w
  BY LenProperties DEF CutOut
<1>2. \A k \in 1 .. Len(t) : t[k] = IF k < a THEN s[k] ELSE s[k + w]
  BY DEF CutOut
<1>3. \A j, k \in 1 .. Len(s) : s[j] = s[k] => j = k
  BY RingInjective
<1> HIDE DEF w
<1>4. ASSUME NEW k \in 1 .. Len(t), t[k] = i PROVE OnSeq(s, i) /\ ~InRange(s, a, b, i)
  <2> DEFINE j == IF k < a THEN k ELSE k + w
  <2>1. j \in 1 .. Len(s) /\ j \notin a .. b
    BY <1>1
  <2>2. s[j] = i
    BY <1>2, <1>4
  <2>3. \A e \in a .. b : e \in 1 .. Len(s)
    BY <1>1
  <2> HIDE DEF j
  <2> QED
    BY <1>3, <2>1, <2>2, <2>3 DEF OnSeq, InRange
<1>5. ASSUME NEW k \in 1 .. Len(s), s[k] = i, ~InRange(s, a, b, i) PROVE OnSeq(t, i)
  <2> DEFINE j == IF k < a THEN k ELSE k - w
  <2>1. k \notin a .. b
    BY <1>5 DEF InRange
  <2>2. /\ j \in 1 .. Len(t)
        /\ IF j < a THEN j = k ELSE j + w = k
    BY <1>1, <2>1
  <2> HIDE DEF j
  <2>3. t[j] = i
    BY <1>2, <1>5, <2>2
  <2> QED
    BY <2>2, <2>3 DEF OnSeq
<1> QED
  BY <1>4, <1>5 DEF OnSeq

LEMMA OnPasted ==
  ASSUME NEW s \in Seq(Item), NEW p \in 0 .. Len(s), NEW mid \in Seq(Item), NEW t, Pasted(s, p, mid, t), NEW i
  PROVE  OnSeq(t, i) <=> OnSeq(s, i) \/ OnSeq(mid, i)
<1> DEFINE n == Len(s)
           w == Len(mid)
<1>1. n \in Nat /\ w \in Nat /\ p \in 0 .. n /\ Len(t) = n + w
  BY LenProperties DEF Pasted
<1>2. \A k \in 1 .. Len(t) : t[k] = IF k <= p THEN s[k] ELSE IF k <= p + w THEN mid[k - p] ELSE s[k - w]
  BY DEF Pasted
<1>3. (OnSeq(s, i) <=> \E k \in 1 .. n : s[k] = i) /\ (OnSeq(mid, i) <=> \E k \in 1 .. w : mid[k] = i)
  BY DEF OnSeq
<1> HIDE DEF n, w
<1>4. ASSUME NEW k \in 1 .. Len(t), t[k] = i PROVE OnSeq(s, i) \/ OnSeq(mid, i)
  <2>1. CASE k <= p
    <3>1. k \in 1 .. n /\ s[k] = i
      BY <1>1, <1>2, <1>4, <2>1
    <3> QED
      BY <1>3, <3>1
  <2>2. CASE ~(k <= p) /\ k <= p + w
    <3>1. k - p \in 1 .. w
      BY <1>1, <2>2
    <3>2. mid[k - p] = i
      BY <1>2, <1>4, <2>2
    <3> QED
      BY <1>3, <3>1, <3>2
  <2>3. CASE ~(k <= p) /\ ~(k <= p + w)
    <3>1. k - w \in 1 .. n
      BY <1>1, <2>3
    <3>2. s[k - w] = i
      BY <1>2, <1>4, <2>3
    <3> QED
      BY <1>3, <3>1, <3>2
  <2> QED
    BY <2>1, <2>2, <2>3
<1>5. ASSUME NEW k \in 1 .. n, s[k] = i PROVE OnSeq(t, i)
  <2>1. CASE k <= p
    <3>1. k \in 1 .. Len(t)
      BY <1>1, <2>1
    <3> QED
      BY <1>2, <1>5, <2>1, <3>1 DEF OnSeq
  <2>2. CASE ~(k <= p)
    <3>1. k + w \in 1 .. Len(t) /\ ~(k + w <= p) /\ ~(k + w <= p + w) /\ (k + w) - w = k
      BY <1>1, <2>2
    <3>2. t[k + w] = i
      BY <1>2, <1>5, <3>1
    <3> QED
      BY <3>1, <3>2 DEF OnSeq
  <2> QED
    BY <2>1, <2>2
<1>6. ASSUME NEW k \in 1 .. w, mid[k] = i PROVE OnSeq(t, i)
  <2>1. k + p \in 1 .. Len(t) /\ ~(k + p <= p) /\ k + p <= p + w /\ (k + p) - p = k
    BY <1>1
  <2>2. t[k + p] = i
    BY <1>2, <1>6, <2>1
  <2> QED
    BY <2>1, <2>2 DEF OnSeq
<1>7. OnSeq(t, i) => OnSeq(s, i) \/ OnSeq(mid, i)
  BY <1>4 DEF OnSeq
<1> QED
  BY <1>3, <1>5, <1>6, <1>7

LEMMA OnRange ==
  ASSUME NEW S \in ItemSeqs, NEW x \in ListName, NEW a \in 1 .. Len(S[x]), NEW b \in a .. Len(S[x]),
         NEW mid, IsRange(S, x, a, b, mid), NEW i
  PROVE  /\ OnSeq(mid, i) <=> InRange(S[x], a, b, i)
         /\ (\E k \in DOMAIN mid : mid[k] = i) <=> InRange(S[x], a, b, i)
         /\ InRange(S[x], a, b, i) => OnSeq(S[x], i)
<1> DEFINE w == b - a + 1
<1>1. Len(S[x]) \in Nat /\ w \in Nat /\ b = a + w - 1 /\ Len(mid) = w /\ DOMAIN mid = 1 .. w
  <2>1. mid \in Seq(Item) /\ Len(mid) = w /\ S[x] \in Seq(Item)
    BY DEF IsRange, ItemSeqs
  <2> QED
    BY <2>1, LenProperties
<1>2. \A k \in 1 .. w : mid[k] = S[x][a + k - 1]
  BY DEF IsRange
<1> HIDE DEF w
<1>3. ASSUME NEW k \in 1 .. w, mid[k] = i PROVE InRange(S[x], a, b, i)
  <2>1. a + k - 1 \in a .. b
    BY <1>1
  <2> QED
    BY <1>2, <1>3, <2>1 DEF InRange
<1>4. ASSUME NEW k \in a .. b, S[x][k] = i
      PROVE  (\E j \in 1 .. w : mid[j] = i) /\ \E j \in 1 .. Len(S[x]) : S[x][j] = i
  <2>1. k - a + 1 \in 1 .. w /\ a + (k - a + 1) - 1 = k /\ k \in 1 .. Len(S[x])
    BY <1>1
  <2>2. mid[k - a + 1] = i
    BY <1>2, <1>4, <2>1
  <2> QED
    BY <1>4, <2>1, <2>2
<1>5. (\E k \in 1 .. w : mid[k] = i) <=> InRange(S[x], a, b, i)
  BY <1>3, <1>4 DEF InRange
<1>6. InRange(S[x], a, b, i) => OnSeq(S[x], i)
  BY <1>4 DEF InRange, OnSeq
<1> QED
  BY <1>1, <1>5, <1>6 DEF OnSeq
-----------------------------------------------------------------------------
LEMMA TransferApart ==
  ASSUME NEW S, NEW next, NEW prev, NEW owner, Linked(S, next, prev, owner),
         NEW l \in ListName, NEW p \in 0 .. Len(S[l]), NEW x \in ListName, l # x,
         NEW a \in 1 .. Len(S[x]), NEW b \in a .. Len(S[x]), NEW mid, IsRange(S, x, a, b, mid),
         NEW next2, NEW prev2, NEW owner2,
         Transferred(S, prev, owner, l, p, x, a, b, mid, next, next2, prev2, owner2),
         NEW T \in ItemSeqs, Pasted(S[l], p, mid, T[l]), CutOut(S[x], a, b, T[x]),
         \A m \in ListName : m # l /\ m # x => T[m] = S[m]
  PROVE  Linked(T, next2, prev2, owner2)
<1>1. /\ S \in ItemSeqs /\ S[l] \in Seq(Item) /\ S[x] \in Seq(Item) /\ mid \in Seq(Item)
      /\ RingOf(x, S[x], next, prev)
      /\ owner \in [Item -> ListName \cup {Nothing}] /\ Nothing \notin ListName
      /\ \A m \in ListName : OwnedBy(m, S[m], owner)
  BY ListAssumption DEF Linked, ItemSeqs, IsRange
<1>2. /\ next2 \in [Node -> Node \cup {Nothing}] /\ prev2 \in [Node -> Node \cup {Nothing}]
      /\ Relinked(S, l, p, x, a, b, next2, prev2)
  BY TransferRelinks
<1>3. /\ owner2 \in [Item -> ListName \cup {Nothing}]
      /\ \A i \in Item : owner2[i] = IF InRange(S[x], a, b, i) THEN l ELSE owner[i]
  <2>1. \A i \in Item : (\E k \in DOMAIN mid : mid[k] = i) <=> InRange(S[x], a, b, i)
    BY <1>1, OnRange
  <2>2. owner2 = [i \in Item |-> IF \E k \in DOMAIN mid : mid[k] = i THEN l ELSE owner[i]]
    BY DEF Transferred
  <2> QED
    BY <1>1, <2>1, <2>2
<1>4. \A i \in Item : InRange(S[x], a, b, i) => owner[i] = x
  <2>1. \A i \in Item : InRange(S[x], a, b, i) => OnSeq(S[x], i)
    BY <1>1, OnRange
  <2>2. \A i \in Item : OnSeq(S[x], i) => owner[i] = x
    BY <1>1 DEF OwnedBy, OnSeq
  <2> QED
    BY <2>1, <2>2
<1>5. ASSUME NEW m \in ListName, m # l, m # x
      PROVE  RingOf(m, T[m], next2, prev2) /\ OwnedBy(m, T[m], owner2)
  <2>1. RingOf(m, S[m], next2, prev2)
    BY <1>2, <1>5 DEF RingOf, Relinked, NextOf, PrevOf
  <2>2. OwnedBy(m, S[m], owner2)
    <3>1. OwnedBy(m, S[m], owner)
      BY <1>1
    <3> QED
      BY <1>3, <1>4, <1>5, <3>1 DEF OwnedBy
  <2> QED
    BY <1>5, <2>1, <2>2
<1>6. RingOf(x, T[x], next2, prev2)
  BY <1>1, <1>2, RingWithoutRange
<1>7. RingOf(l, T[l], next2, prev2)
  BY <1>1, <1>2, RingWithRange
<1>8. OwnedBy(x, T[x], owner2)
  <2>1. \A i \in Item : OnSeq(T[x], i) <=> OnSeq(S[x], i) /\ ~InRange(S[x], a, b, i)
    BY <1>1, OnCutOut
  <2>2. \A i \in Item : owner[i] = x <=> OnSeq(S[x], i)
    BY <1>1 DEF OwnedBy, OnSeq
  <2>3. \A i \in Item : owner2[i] = x <=> OnSeq(T[x], i)
    BY <1>3, <2>1, <2>2
  <2> QED
    BY <2>3 DEF OwnedBy, OnSeq
<1>9. OwnedBy(l, T[l], owner2)
  <2>1. \A i \in Item : OnSeq(T[l], i) <=> OnSeq(S[l], i) \/ OnSeq(mid, i)
    BY <1>1, OnPasted
  <2>2. \A i \in Item : OnSeq(mid, i) <=> InRange(S[x], a, b, i)
    BY <1>1, OnRange
  <2>3. \A i \in Item : owner[i] = l <=> OnSeq(S[l], i)
    BY <1>1 DEF OwnedBy, OnSeq
  <2>4. \A i \in Item : owner2[i] = l <=> OnSeq(T[l], i)
    BY <1>3, <2>1, <2>2, <2>3
  <2> QED
    BY <2>4 DEF OwnedBy, OnSeq
<1>10. \A m \in ListName : RingOf(m, T[m], next2, prev2) /\ OwnedBy(m, T[m], owner2)
  BY <1>5, <1>6, <1>7, <1>8, <1>9
<1> QED
  BY <1>2, <1>3, <1>10 DEF Linked

LEMMA TransferWithin ==
  ASSUME NEW S, NEW next, NEW prev, NEW owner, Linked(S, next, prev, owner),
         NEW l \in ListName, NEW p \in 0 .. Len(S[l]),
         NEW a \in 1 .. Len(S[l]), NEW b \in a .. Len(S[l]), p < a - 1 \/ p > b,
         NEW mid, IsRange(S, l, a, b, mid), NEW next2, NEW prev2, NEW owner2,
         Transferred(S, prev, owner, l, p, l, a, b, mid, next, next2, prev2, owner2),
         NEW r, CutOut(S[l], a, b, r),
         NEW T \in ItemSeqs, Pasted(r, IF p < a THEN p ELSE p - (b - a + 1), mid, T[l]),
         \A m \in ListName : m # l => T[m] = S[m]
  PROVE  Linked(T, next2, prev2, owner2)
<1>1. /\ S \in ItemSeqs /\ S[l] \in Seq(Item) /\ Len(S[l]) \in Nat /\ mid \in Seq(Item)
      /\ RingOf(l, S[l], next, prev)
      /\ owner \in [Item -> ListName \cup {Nothing}] /\ Nothing \notin ListName
      /\ \A m \in ListName : OwnedBy(m, S[m], owner)
  BY ListAssumption, LenProperties DEF Linked, ItemSeqs, IsRange
<1>2. /\ next2 \in [Node -> Node \cup {Nothing}] /\ prev2 \in [Node -> Node \cup {Nothing}]
      /\ Relinked(S, l, p, l, a, b, next2, prev2)
  BY TransferRelinks
<1>3. /\ owner2 \in [Item -> ListName \cup {Nothing}]
      /\ \A i \in Item : owner2[i] = owner[i]
  <2>1. \A i \in Item : /\ (\E k \in DOMAIN mid : mid[k] = i) <=> InRange(S[l], a, b, i)
                        /\ InRange(S[l], a, b, i) => OnSeq(S[l], i)
    BY <1>1, OnRange
  <2>2. owner2 = [i \in Item |-> IF \E k \in DOMAIN mid : mid[k] = i THEN l ELSE owner[i]]
    BY DEF Transferred
  <2>3. \A i \in Item : OnSeq(S[l], i) => owner[i] = l
    BY <1>1 DEF OwnedBy, OnSeq
  <2> QED
    BY <1>1, <2>1, <2>2, <2>3
<1>4. ASSUME NEW m \in ListName, m # l
      PROVE  RingOf(m, T[m], next2, prev2) /\ OwnedBy(m, T[m], owner2)
  <2>1. RingOf(m, S[m], next2, prev2)
    BY <1>2, <1>4 DEF RingOf, Relinked, NextOf, PrevOf
  <2>2. OwnedBy(m, S[m], owner2)
    BY <1>1, <1>3 DEF OwnedBy
  <2> QED
    BY <1>4, <2>1, <2>2
<1>5. /\ RingOf(l, T[l], next2, prev2)
      /\ \E q \in 0 .. Len(r) : Pasted(r, q, mid, T[l])
  <2>0. Len(r) = Len(S[l]) - (b - a + 1)
    BY DEF CutOut
  <2>1. CASE p < a - 1
    <3>1. p < a /\ p \in 0 .. Len(r)
      BY <1>1, <2>0, <2>1
    <3>2. Pasted(r, p, mid, T[l])
      BY <3>1
    <3> QED
      BY <1>1, <1>2, <2>1, <3>1, <3>2, RingMovedUp
  <2>2. CASE p > b
    <3>1. ~(p < a) /\ p - (b - a + 1) \in 0 .. Len(r)
      BY <1>1, <2>0, <2>2
    <3>2. Pasted(r, p - (b - a + 1), mid, T[l])
      BY <3>1
    <3>3. RingOf(l, T[l], next2, prev2)
      BY <1>1, <1>2, <2>2, <3>2, RingMovedDown
    <3> QED
      BY <3>1, <3>2, <3>3
  <2> QED
    BY <2>1, <2>2
<1>6. OwnedBy(l, T[l], owner2)
  <2>1. PICK q \in 0 .. Len(r) : Pasted(r, q, mid, T[l])
    BY <1>5
  <2>2. r \in Seq(Item)
    BY DEF CutOut
  <2>3. \A i \in Item : OnSeq(T[l], i) <=> OnSeq(r, i) \/ OnSeq(mid, i)
    BY <1>1, <2>1, <2>2, OnPasted
  <2>4. \A i \in Item : OnSeq(r, i) <=> OnSeq(S[l], i) /\ ~InRange(S[l], a, b, i)
    BY <1>1, OnCutOut
  <2>5. \A i \in Item : /\ OnSeq(mid, i) <=> InRange(S[l], a, b, i)
                        /\ InRange(S[l], a, b, i) => OnSeq(S[l], i)
    BY <1>1, OnRange
  <2>6. \A i \in Item : owner[i] = l <=> OnSeq(S[l], i)
    BY <1>1 DEF OwnedBy, OnSeq
  <2>7. \A i \in Item : owner2[i] = l <=> OnSeq(T[l], i)
    BY <1>3, <2>3, <2>4, <2>5, <2>6
  <2> QED
    BY <2>7 DEF OwnedBy, OnSeq
<1>7. \A m \in ListName : RingOf(m, T[m], next2, prev2) /\ OwnedBy(m, T[m], owner2)
  BY <1>4, <1>5, <1>6
<1> QED
  BY <1>2, <1>3, <1>7 DEF Linked
-----------------------------------------------------------------------------
(* A set of items has an arrangement in order, and so the sort a result.     *)
Ordered(s, n) == \A j, k \in 1 .. n : j < k => Rank[s[j]] <= Rank[s[k]]
Arranges(s, n, Q) == {s[k] : k \in 1 .. n} = Q /\ Ordered(s, n)

LEMMA OneMoreArranged ==
  ASSUME NEW m \in Nat, m > 0, NEW R \in SUBSET Item, NEW q \in Item,
         NEW s \in [1 .. m - 1 -> Item], Arranges(s, m - 1, R)
  PROVE  \E t \in [1 .. m -> Item] : Arranges(t, m, R \cup {q})
<1> DEFINE fits == {k \in Nat : k \in 1 .. m /\ (k = m \/ Rank[s[k]] > Rank[q])}
<1>1. PICK p \in fits : \A e \in fits : p <= e
  <2>1. m \in fits
    OBVIOUS
  <2>2. fits \in SUBSET Nat
    OBVIOUS
  <2> HIDE DEF fits
  <2> QED
    BY <2>1, <2>2, LeastExists
<1>2. p \in 1 .. m /\ (p = m \/ Rank[s[p]] > Rank[q])
  BY <1>1
<1>r. \A i \in Item : Rank[i] \in Int
  BY ListAssumption
<1>3. \A k \in 1 .. p - 1 : Rank[s[k]] <= Rank[q]
  <2> TAKE k \in 1 .. p - 1
  <2>1. k \in Nat /\ k \in 1 .. m /\ k # m /\ k \in 1 .. m - 1 /\ ~(p <= k)
    BY <1>2
  <2>2. k \notin fits
    <3> HIDE DEF fits
    <3> QED
      BY <1>1, <2>1
  <2>3. s[k] \in Item
    BY <2>1
  <2> QED
    BY <2>1, <2>2, <2>3, <1>r
<1> HIDE DEF fits
<1>4. \A k \in p .. m - 1 : Rank[q] <= Rank[s[k]]
  <2> TAKE k \in p .. m - 1
  <2>1. p \in 1 .. m - 1 /\ k \in 1 .. m - 1 /\ p # m
    BY <1>2
  <2>2. Rank[s[p]] <= Rank[s[k]]
    <3>1. s[p] \in Item
      BY <2>1
    <3>2. CASE p = k
      BY <1>r, <3>1, <3>2
    <3>3. CASE p < k
      BY <2>1, <3>3 DEF Arranges, Ordered
    <3> QED
      BY <2>1, <3>2, <3>3
  <2>3. s[p] \in Item /\ s[k] \in Item
    BY <2>1
  <2> QED
    BY <1>2, <1>r, <2>1, <2>2, <2>3
<1> DEFINE t == [k \in 1 .. m |-> IF k < p THEN s[k] ELSE IF k = p THEN q ELSE s[k - 1]]
<1>5. \A k \in 1 .. m : /\ k < p => k \in 1 .. p - 1 /\ k \in 1 .. m - 1
                        /\ k > p => k - 1 \in p .. m - 1 /\ k - 1 \in 1 .. m - 1
  BY <1>2
<1>6. t \in [1 .. m -> Item]
  <2>1. ASSUME NEW k \in 1 .. m PROVE (IF k < p THEN s[k] ELSE IF k = p THEN q ELSE s[k - 1]) \in Item
    <3>1. CASE k < p
      BY <1>5, <3>1
    <3>2. CASE k = p
      BY <3>2
    <3>3. CASE k > p
      BY <1>5, <3>3
    <3> QED
      BY <1>2, <3>1, <3>2, <3>3
  <2> QED
    BY <2>1
<1>7. \A k \in 1 .. m : t[k] = IF k < p THEN s[k] ELSE IF k = p THEN q ELSE s[k - 1]
  OBVIOUS
<1> HIDE DEF t
<1>8. Ordered(t, m)
  <2> SUFFICES ASSUME NEW j \in 1 .. m, NEW k \in 1 .. m, j < k PROVE Rank[t[j]] <= Rank[t[k]]
    BY DEF Ordered
  <2>1. CASE k < p
    <3>1. j \in 1 .. m - 1 /\ k \in 1 .. m - 1 /\ j < p
      BY <1>2, <2>1
    <3> QED
      BY <1>7, <2>1, <3>1 DEF Arranges, Ordered
  <2>2. CASE k = p
    BY <1>2, <1>3, <1>5, <1>7, <2>2
  <2>3. CASE k > p /\ j < p
    <3>1. j \in 1 .. m - 1 /\ k - 1 \in 1 .. m - 1 /\ j < k - 1 /\ ~(k < p) /\ k # p
      BY <1>2, <2>3
    <3> QED
      BY <1>7, <2>3, <3>1 DEF Arranges, Ordered
  <2>4. CASE k > p /\ j = p
    <3>1. k - 1 \in p .. m - 1 /\ ~(k < p) /\ k # p /\ ~(j < p)
      BY <1>2, <2>4
    <3> QED
      BY <1>4, <1>7, <2>4, <3>1
  <2>5. CASE k > p /\ j > p
    <3>1. /\ j - 1 \in 1 .. m - 1 /\ k - 1 \in 1 .. m - 1 /\ j - 1 < k - 1
          /\ ~(k < p) /\ k # p /\ ~(j < p) /\ j # p
      BY <1>2, <2>5
    <3> QED
      BY <1>7, <3>1 DEF Arranges, Ordered
  <2> QED
    BY <1>2, <2>1, <2>2, <2>3, <2>4, <2>5
<1>9. {t[k] : k \in 1 .. m} = R \cup {q}
  <2>0. R = {s[k] : k \in 1 .. m - 1}
    BY DEF Arranges
  <2>1. ASSUME NEW k \in 1 .. m PROVE t[k] \in R \cup {q}
    <3>1. CASE k < p
      BY <1>5, <1>7, <2>0, <3>1
    <3>2. CASE k = p
      BY <1>2, <1>7, <3>2
    <3>3. CASE k > p
      <4>1. k - 1 \in 1 .. m - 1 /\ ~(k < p) /\ k # p
        BY <1>2, <3>3
      <4> QED
        BY <1>7, <2>0, <4>1
    <3> QED
      BY <1>2, <3>1, <3>2, <3>3
  <2>2. \E k \in 1 .. m : t[k] = q
    <3>1. p \in 1 .. m /\ ~(p < p)
      BY <1>2
    <3> QED
      BY <1>7, <3>1
  <2>3. ASSUME NEW e \in 1 .. m - 1 PROVE \E k \in 1 .. m : t[k] = s[e]
    <3>1. CASE e < p
      <4>1. e \in 1 .. m
        OBVIOUS
      <4> QED
        BY <1>7, <3>1, <4>1
    <3>2. CASE e >= p
      <4>1. e + 1 \in 1 .. m /\ ~(e + 1 < p) /\ e + 1 # p /\ (e + 1) - 1 = e
        BY <1>2, <3>2
      <4>2. t[e + 1] = s[e]
        BY <1>7, <4>1
      <4> QED
        BY <4>1, <4>2
    <3> QED
      BY <1>2, <3>1, <3>2
  <2> QED
    BY <2>0, <2>1, <2>2, <2>3
<1>10. Arranges(t, m, R \cup {q})
  BY <1>8, <1>9 DEF Arranges
<1> QED
  BY <1>6, <1>10

LEMMA ArrangementExists ==
  ASSUME NEW Q \in SUBSET Item, NEW n \in Nat, Cardinality(Q) = n
  PROVE  \E s \in [1 .. n -> Item] : Arranges(s, n, Q)
<1> DEFINE Bad(m, R) == Cardinality(R) = m /\ ~\E s \in [1 .. m -> Item] : Arranges(s, m, R)
           bad == {m \in Nat : \E R \in SUBSET Item : Bad(m, R)}
<1>0. \A R \in SUBSET Item : IsFiniteSet(R)
  BY ListAssumption, FS_Subset
<1> SUFFICES ASSUME n \in bad PROVE FALSE
  OBVIOUS
<1>1. PICK m \in bad : \A e \in bad : m <= e
  <2>1. bad \in SUBSET Nat
    OBVIOUS
  <2> HIDE DEF bad
  <2> QED
    BY <2>1, LeastExists
<1>2. PICK R \in SUBSET Item : Bad(m, R)
  BY <1>1
<1>3. m \in Nat /\ IsFiniteSet(R) /\ Cardinality(R) = m
  BY <1>0, <1>1, <1>2
<1>4. CASE R = {}
  <2>1. m = 0
    BY <1>3, <1>4, FS_EmptySet
  <2> DEFINE s == [k \in 1 .. 0 |-> Nothing]
  <2>2. s \in [1 .. m -> Item] /\ Arranges(s, m, R)
    BY <1>4, <2>1 DEF Arranges, Ordered
  <2> QED
    BY <1>2, <2>2
<1>5. CASE R # {}
  <2>1. PICK q \in R : TRUE
    BY <1>5
  <2>2. Cardinality(R \ {q}) = m - 1 /\ m > 0
    <3>1. Cardinality(R \ {q}) = m - 1
      BY <1>3, FS_RemoveElement
    <3>2. m # 0
      BY <1>3, <1>5, FS_EmptySet
    <3> QED
      BY <1>3, <3>1, <3>2
  <2>3. m - 1 \in Nat /\ m - 1 \notin bad
    <3>1. m - 1 \in Nat /\ ~(m <= m - 1)
      BY <1>3, <2>2
    <3> HIDE DEF bad
    <3> QED
      BY <1>1, <3>1
  <2>4. ~Bad(m - 1, R \ {q})
    BY <2>3
  <2>5. PICK s \in [1 .. m - 1 -> Item] : Arranges(s, m - 1, R \ {q})
    BY <2>2, <2>4
  <2>6. \E t \in [1 .. m -> Item] : Arranges(t, m, (R \ {q}) \cup {q})
    BY <1>3, <2>2, <2>5, OneMoreArranged
  <2>7. (R \ {q}) \cup {q} = R
    OBVIOUS
  <2> QED
    BY <1>2, <2>6, <2>7
<1> QED
  BY <1>4, <1>5
-----------------------------------------------------------------------------
ItemsOf(s) == {s[k] : k \in 1 .. Len(s)}

LEMMA ArrangedOnce ==
  ASSUME NEW l \in ListName, NEW s \in Seq(Item), NEW next, NEW prev, RingOf(l, s, next, prev),
         NEW t \in [1 .. Len(s) -> Item], {t[k] : k \in 1 .. Len(s)} = ItemsOf(s)
  PROVE  /\ Cardinality(ItemsOf(s)) = Len(s) /\ t \in [1 .. Len(s) -> ItemsOf(s)]
         /\ \A j, k \in 1 .. Len(s) : t[j] = t[k] => j = k
<1> DEFINE n == Len(s)
           Q == ItemsOf(s)
           f == [k \in 1 .. n |-> s[k]]
<1>1. n \in Nat /\ IsFiniteSet(1 .. n) /\ Cardinality(1 .. n) = n
  <2>1. n \in Nat
    BY LenProperties
  <2>2. IsFiniteSet(1 .. n) /\ Cardinality(1 .. n) = IF 1 > n THEN 0 ELSE n - 1 + 1
    BY <2>1, FS_Interval
  <2> HIDE DEF n
  <2> QED
    BY <2>1, <2>2
<1>2. f \in Bijection(1 .. n, Q)
  <2>1. f \in [1 .. n -> Q]
    BY DEF ItemsOf
  <2>2. \A j, k \in 1 .. n : f[j] = f[k] => j = k
    BY RingInjective
  <2>3. \A q \in Q : \E k \in 1 .. n : f[k] = q
    BY DEF ItemsOf
  <2> HIDE DEF f
  <2> QED
    BY <2>1, <2>2, <2>3 DEF Bijection, Injection, Surjection, IsInjective
<1>3. IsFiniteSet(Q) /\ Cardinality(Q) = n
  BY <1>1, <1>2, FS_Bijection DEF ExistsBijection
<1>4. t \in [1 .. n -> Q]
  OBVIOUS
<1>5. t \in Surjection(1 .. n, Q)
  BY <1>4 DEF Surjection
<1>6. t \in Injection(1 .. n, Q)
  BY <1>1, <1>3, <1>5, FS_SurjSameCardinalityImpliesInj
<1> QED
  BY <1>3, <1>4, <1>6 DEF Injection, IsInjective

(* A list that is linked anew in the order t of its items. *)
LinkedAnew(l, n, t, next, prev, owner, next2, prev2) ==
  LET at(k) == IF k \in 1 .. n THEN t[k] ELSE l
      where(i) == CHOOSE k \in 1 .. n : t[k] = i
  IN  /\ next2 = [m \in Node |-> IF m = l THEN at(1) ELSE
                    IF m \in Item /\ owner[m] = l THEN at(where(m) + 1) ELSE next[m]]
      /\ prev2 = [m \in Node |-> IF m = l THEN at(n) ELSE
                    IF m \in Item /\ owner[m] = l THEN at(where(m) - 1) ELSE prev[m]]

LEMMA SortLinks ==
  ASSUME NEW S, NEW next, NEW prev, NEW owner, Linked(S, next, prev, owner), NEW l \in ListName,
         NEW t \in [1 .. Len(S[l]) -> Item], {t[k] : k \in 1 .. Len(S[l])} = ItemsOf(S[l]),
         NEW next2, NEW prev2, LinkedAnew(l, Len(S[l]), t, next, prev, owner, next2, prev2)
  PROVE  Linked([S EXCEPT ![l] = t], next2, prev2, owner)
<1> DEFINE n == Len(S[l])
           at(k) == IF k \in 1 .. n THEN t[k] ELSE l
           where(i) == CHOOSE k \in 1 .. n : t[k] = i
           T == [S EXCEPT ![l] = t]
<1>1. /\ S \in ItemSeqs /\ S[l] \in Seq(Item) /\ n \in Nat /\ l \in Node /\ l \notin Item
      /\ next \in [Node -> Node \cup {Nothing}] /\ prev \in [Node -> Node \cup {Nothing}]
      /\ owner \in [Item -> ListName \cup {Nothing}]
      /\ RingOf(l, S[l], next, prev) /\ OwnedBy(l, S[l], owner)
  BY ListAssumption, LenProperties DEF Linked, ItemSeqs, Node
<1>2. t \in Seq(Item) /\ Len(t) = n /\ \A k \in 1 .. n : t[k] \in Item /\ t[k] \in Node
  BY <1>1 DEF Node
<1>3. \A j, k \in 1 .. n : t[j] = t[k] => j = k
  BY <1>1, ArrangedOnce
<1>4. /\ next2 = [m \in Node |-> IF m = l THEN at(1) ELSE
                    IF m \in Item /\ owner[m] = l THEN at(where(m) + 1) ELSE next[m]]
      /\ prev2 = [m \in Node |-> IF m = l THEN at(n) ELSE
                    IF m \in Item /\ owner[m] = l THEN at(where(m) - 1) ELSE prev[m]]
  BY DEF LinkedAnew
<1>5. \A k \in 1 .. n : where(t[k]) = k
  BY <1>3
<1>6. \A k : at(k) \in Node
  BY <1>1, <1>2
<1>7. \A i \in Item : owner[i] = l <=> \E k \in 1 .. n : t[k] = i
  <2>1. \A i \in Item : owner[i] = l <=> i \in ItemsOf(S[l])
    BY <1>1 DEF OwnedBy, ItemsOf
  <2> QED
    BY <2>1
<1>8. \A k \in 1 .. n : owner[t[k]] = l /\ t[k] # l
  BY <1>1, <1>2, <1>7
<1>9. /\ next2[l] = at(1) /\ prev2[l] = at(n)
      /\ \A k \in 1 .. n : next2[t[k]] = at(k + 1) /\ prev2[t[k]] = at(k - 1)
  <2> HIDE DEF at
  <2>1. next2[l] = at(1) /\ prev2[l] = at(n)
    BY <1>1, <1>4
  <2>2. ASSUME NEW k \in 1 .. n PROVE next2[t[k]] = at(k + 1) /\ prev2[t[k]] = at(k - 1)
    <3>1. t[k] \in Item /\ t[k] \in Node /\ t[k] # l /\ owner[t[k]] = l /\ where(t[k]) = k
      BY <1>2, <1>5, <1>8
    <3> HIDE DEF where
    <3> QED
      BY <1>4, <3>1
  <2> QED
    BY <2>1, <2>2
<1>10. /\ next2 \in [Node -> Node \cup {Nothing}] /\ prev2 \in [Node -> Node \cup {Nothing}]
       /\ \A m \in Node : m # l /\ ~(m \in Item /\ owner[m] = l) => next2[m] = next[m] /\ prev2[m] = prev[m]
  <2> DEFINE On(m) == m \in Item /\ owner[m] = l
  <2>1. \A m \in Node : /\ next2[m] = IF m = l THEN at(1) ELSE IF On(m) THEN at(where(m) + 1) ELSE next[m]
                        /\ prev2[m] = IF m = l THEN at(n) ELSE IF On(m) THEN at(where(m) - 1) ELSE prev[m]
    BY <1>4
  <2>2. \A m \in Node : next[m] \in Node \cup {Nothing} /\ prev[m] \in Node \cup {Nothing}
    BY <1>1
  <2> HIDE DEF at, where
  <2>3. \A m \in Node :
          /\ (IF m = l THEN at(1) ELSE IF m \in Item /\ owner[m] = l THEN at(where(m) + 1) ELSE next[m])
               \in Node \cup {Nothing}
          /\ (IF m = l THEN at(n) ELSE IF m \in Item /\ owner[m] = l THEN at(where(m) - 1) ELSE prev[m])
               \in Node \cup {Nothing}
    BY <1>6, <2>2
  <2> HIDE DEF On
  <2>5. \A m \in Node : m # l /\ ~On(m) => next2[m] = next[m] /\ prev2[m] = prev[m]
    BY <2>1
  <2>6. next2 \in [Node -> Node \cup {Nothing}] /\ prev2 \in [Node -> Node \cup {Nothing}]
    BY <1>4, <2>3
  <2> QED
    BY <2>5, <2>6 DEF On
<1>11. \A k \in 0 .. n + 1 : NodeAt(l, t, k) = at(k)
  BY <1>2 DEF NodeAt
<1>12. RingOf(l, t, next2, prev2)
  <2> SUFFICES ASSUME NEW k \in 0 .. n
               PROVE  next2[NodeAt(l, t, k)] = NodeAt(l, t, k + 1) /\ prev2[NodeAt(l, t, k + 1)] = NodeAt(l, t, k)
    BY <1>2 DEF RingOf
  <2>1. next2[at(k)] = at(k + 1)
    <3>1. CASE k = 0
      BY <1>9, <3>1
    <3>2. CASE k # 0
      <4>1. k \in 1 .. n
        BY <3>2
      <4> QED
        BY <1>9, <4>1
    <3> QED
      BY <3>1, <3>2
  <2>2. prev2[at(k + 1)] = at(k)
    <3>1. CASE k = n
      <4>1. at(k + 1) = l
        BY <1>1, <3>1
      <4> QED
        BY <1>9, <3>1, <4>1
    <3>2. CASE k # n
      <4>1. k + 1 \in 1 .. n /\ (k + 1) - 1 = k
        BY <1>1, <3>2
      <4>2. prev2[t[k + 1]] = at((k + 1) - 1)
        BY <1>9, <4>1
      <4> QED
        BY <4>1, <4>2
    <3> QED
      BY <3>1, <3>2
  <2>3. k \in 0 .. n + 1 /\ k + 1 \in 0 .. n + 1
    BY <1>1
  <2> HIDE DEF at
  <2> QED
    BY <1>11, <2>1, <2>2, <2>3
<1>13. OwnedBy(l, t, owner)
  BY <1>2, <1>7 DEF OwnedBy
<1>14. ASSUME NEW m \in ListName, m # l
       PROVE  RingOf(m, S[m], next2, prev2) /\ OwnedBy(m, S[m], owner)
  <2>1. S[m] \in Seq(Item)
    BY <1>1 DEF ItemSeqs
  <2>2. ASSUME NEW k \in Int PROVE /\ next2[NodeAt(m, S[m], k)] = next[NodeAt(m, S[m], k)]
                                   /\ prev2[NodeAt(m, S[m], k)] = prev[NodeAt(m, S[m], k)]
    <3>1. NodeAt(m, S[m], k) \in Node
      BY <2>1, NodeTypes
    <3>2. CASE k \in 1 .. Len(S[m])
      <4>1. NodeAt(m, S[m], k) = S[m][k] /\ S[m][k] \in Item
        BY <2>1, <3>2, NodeTypes
      <4>2. owner[S[m][k]] = m
        BY <3>2, <4>1 DEF Linked, OwnedBy
      <4> QED
        BY <1>1, <1>10, <1>14, <3>1, <4>1, <4>2
    <3>3. CASE k \notin 1 .. Len(S[m])
      <4>1. NodeAt(m, S[m], k) = m /\ m \notin Item
        BY <2>1, <3>3, NodeTypes
      <4> QED
        BY <1>10, <1>14, <3>1, <4>1
    <3> QED
      BY <3>2, <3>3
  <2>3. Len(S[m]) \in Nat
    BY <2>1, LenProperties
  <2>4. RingOf(m, S[m], next, prev) /\ OwnedBy(m, S[m], owner)
    BY DEF Linked
  <2>5. RingOf(m, S[m], next2, prev2)
    <3> SUFFICES ASSUME NEW k \in 0 .. Len(S[m])
                 PROVE  /\ next2[NodeAt(m, S[m], k)] = NodeAt(m, S[m], k + 1)
                        /\ prev2[NodeAt(m, S[m], k + 1)] = NodeAt(m, S[m], k)
      BY DEF RingOf
    <3>1. k \in Int /\ k + 1 \in Int
      BY <2>3
    <3>2. /\ next[NodeAt(m, S[m], k)] = NodeAt(m, S[m], k + 1)
          /\ prev[NodeAt(m, S[m], k + 1)] = NodeAt(m, S[m], k)
      BY <2>4 DEF RingOf
    <3> QED
      BY <2>2, <3>1, <3>2
  <2> QED
    BY <2>4, <2>5
<1>15. T \in ItemSeqs /\ T[l] = t /\ \A m \in ListName : m # l => T[m] = S[m]
  BY <1>1, <1>2 DEF ItemSeqs
<1> HIDE DEF T
<1>16. \A m \in ListName : RingOf(m, T[m], next2, prev2) /\ OwnedBy(m, T[m], owner)
  BY <1>12, <1>13, <1>14, <1>15
<1>17. Linked(T, next2, prev2, owner)
  BY <1>1, <1>10, <1>15, <1>16 DEF Linked
<1> QED
  BY <1>17 DEF T

LEMMA EmptyUnlinks ==
  ASSUME NEW S, NEW next, NEW prev, NEW owner, Linked(S, next, prev, owner), NEW l \in ListName,
         NEW next2, next2 = [n \in Node |-> IF n = l THEN l
                               ELSE IF n \in Item /\ owner[n] = l THEN Nothing ELSE next[n]],
         NEW prev2, prev2 = [n \in Node |-> IF n = l THEN l
                               ELSE IF n \in Item /\ owner[n] = l THEN Nothing ELSE prev[n]],
         NEW owner2, owner2 = [i \in Item |-> IF owner[i] = l THEN Nothing ELSE owner[i]]
  PROVE  Linked([S EXCEPT ![l] = <<>>], next2, prev2, owner2)
<1> DEFINE T == [S EXCEPT ![l] = <<>>]
<1>1. /\ S \in ItemSeqs /\ l \in Node /\ l \notin Item /\ Nothing \notin ListName
      /\ next \in [Node -> Node \cup {Nothing}] /\ prev \in [Node -> Node \cup {Nothing}]
      /\ owner \in [Item -> ListName \cup {Nothing}]
  BY ListAssumption DEF Linked, Node
<1>2. T \in ItemSeqs /\ T[l] = <<>> /\ \A m \in ListName : m # l => T[m] = S[m]
  BY <1>1 DEF ItemSeqs
<1> HIDE DEF T
<1>3. /\ next2 \in [Node -> Node \cup {Nothing}] /\ prev2 \in [Node -> Node \cup {Nothing}]
      /\ owner2 \in [Item -> ListName \cup {Nothing}] /\ next2[l] = l /\ prev2[l] = l
      /\ \A m \in Node : m # l /\ ~(m \in Item /\ owner[m] = l) => next2[m] = next[m] /\ prev2[m] = prev[m]
      /\ \A i \in Item : owner2[i] # l /\ \A m \in ListName : m # l => (owner2[i] = m <=> owner[i] = m)
  BY <1>1
<1>4. RingOf(l, T[l], next2, prev2) /\ OwnedBy(l, T[l], owner2)
  <2>1. Len(T[l]) = 0
    BY <1>2
  <2> QED
    BY <1>3, <2>1 DEF RingOf, OwnedBy, NodeAt
<1>5. ASSUME NEW m \in ListName, m # l
      PROVE  RingOf(m, S[m], next2, prev2) /\ OwnedBy(m, S[m], owner2)
  <2>1. S[m] \in Seq(Item)
    BY <1>1 DEF ItemSeqs
  <2>2. ASSUME NEW k \in Int PROVE /\ next2[NodeAt(m, S[m], k)] = next[NodeAt(m, S[m], k)]
                                   /\ prev2[NodeAt(m, S[m], k)] = prev[NodeAt(m, S[m], k)]
    <3>1. NodeAt(m, S[m], k) \in Node
      BY <2>1, NodeTypes
    <3>2. CASE k \in 1 .. Len(S[m])
      <4>1. NodeAt(m, S[m], k) = S[m][k] /\ S[m][k] \in Item
        BY <2>1, <3>2, NodeTypes
      <4>2. owner[S[m][k]] = m
        BY <3>2, <4>1 DEF Linked, OwnedBy
      <4> QED
        BY <1>1, <1>3, <1>5, <3>1, <4>1, <4>2
    <3>3. CASE k \notin 1 .. Len(S[m])
      <4>1. NodeAt(m, S[m], k) = m /\ m \notin Item
        BY <2>1, <3>3, NodeTypes
      <4> QED
        BY <1>3, <1>5, <3>1, <4>1
    <3> QED
      BY <3>2, <3>3
  <2>3. Len(S[m]) \in Nat
    BY <2>1, LenProperties
  <2>4. RingOf(m, S[m], next, prev) /\ OwnedBy(m, S[m], owner)
    BY DEF Linked
  <2>5. RingOf(m, S[m], next2, prev2)
    <3> SUFFICES ASSUME NEW k \in 0 .. Len(S[m])
                 PROVE  /\ next2[NodeAt(m, S[m], k)] = NodeAt(m, S[m], k + 1)
                        /\ prev2[NodeAt(m, S[m], k + 1)] = NodeAt(m, S[m], k)
      BY DEF RingOf
    <3>1. k \in Int /\ k + 1 \in Int
      BY <2>3
    <3>2. /\ next[NodeAt(m, S[m], k)] = NodeAt(m, S[m], k + 1)
          /\ prev[NodeAt(m, S[m], k + 1)] = NodeAt(m, S[m], k)
      BY <2>4 DEF RingOf
    <3> QED
      BY <2>2, <3>1, <3>2
  <2>6. OwnedBy(m, S[m], owner2)
    BY <1>3, <1>5, <2>4 DEF OwnedBy
  <2> QED
    BY <2>5, <2>6
<1>6. \A m \in ListName : RingOf(m, T[m], next2, prev2) /\ OwnedBy(m, T[m], owner2)
  BY <1>2, <1>4, <1>5
<1>7. Linked(T, next2, prev2, owner2)
  BY <1>2, <1>3, <1>6 DEF Linked
<1> QED
  BY <1>7 DEF T
-----------------------------------------------------------------------------
(* The lists are what the links say, and no count is below the items.        *)
Lists == [l \in ListName |-> Content(l)]
Counted(S, length) ==
  /\ length \in [ListName -> Int]
  /\ \A l \in ListName : length[l] >= Len(S[l])
ListInv == Linked(Lists, li_next, li_prev, li_owner) /\ Counted(Lists, li_length)

LEMMA ListsOf ==
  ASSUME NEW S, NEW next, NEW prev, NEW owner, Linked(S, next, prev, owner)
  PROVE  [l \in ListName |-> Chain(next, next[l], l)] = S
<1>1. \A l \in ListName : Chain(next, next[l], l) = S[l]
  BY ContentIsList
<1>2. S = [l \in ListName |-> S[l]]
  BY DEF Linked, ItemSeqs
<1> QED
  BY <1>1, <1>2

LEMMA ListsAfter ==
  ASSUME NEW T, Linked(T, li_next', li_prev', li_owner'), Counted(T, li_length')
  PROVE  Lists' = T /\ ListInv'
<1>1. Lists' = T
  BY ListsOf DEF Lists, Content
<1> QED
  BY <1>1 DEF ListInv

LEMMA ListsInitially == ListInit => ListInv /\ Sequence!Init
<1> SUFFICES ASSUME ListInit PROVE ListInv /\ Sequence!Init
  OBVIOUS
<1> DEFINE T == [l \in ListName |-> <<>>]
<1>1. T \in ItemSeqs /\ \A l \in ListName : T[l] = <<>> /\ Len(T[l]) = 0
  BY DEF ItemSeqs
<1> HIDE DEF T
<1>2. \A l \in ListName : l \in Node /\ l \notin Item /\ l # Nothing
  BY ListAssumption DEF Node
<1>3. /\ li_next \in [Node -> Node \cup {Nothing}] /\ li_prev \in [Node -> Node \cup {Nothing}]
      /\ li_owner \in [Item -> ListName \cup {Nothing}]
      /\ \A l \in ListName : li_next[l] = l /\ li_prev[l] = l
      /\ \A i \in Item : li_owner[i] = Nothing
  BY <1>2 DEF ListInit
<1>4. \A l \in ListName : RingOf(l, T[l], li_next, li_prev) /\ OwnedBy(l, T[l], li_owner)
  BY <1>1, <1>2, <1>3 DEF RingOf, OwnedBy, NodeAt
<1>5. Linked(T, li_next, li_prev, li_owner)
  BY <1>1, <1>3, <1>4 DEF Linked
<1>6. Lists = T
  BY <1>5, ListsOf DEF Lists, Content
<1>7. Counted(T, li_length)
  BY <1>1 DEF Counted, ListInit
<1>8. Sequence!Init
  BY <1>6 DEF Sequence!Init, Lists, T
<1> QED
  BY <1>5, <1>6, <1>7, <1>8 DEF ListInv

LEMMA ListTypes ==
  ASSUME ListInv, NEW l \in ListName
  PROVE  /\ Lists[l] \in Seq(Item) /\ Len(Lists[l]) \in Nat /\ DOMAIN Lists[l] = 1 .. Len(Lists[l])
         /\ Lists[l] = Content(l) /\ Lists \in ItemSeqs /\ Lists = [m \in ListName |-> Lists[m]]
         /\ NodeAt(l, Lists[l], 0) = l /\ NodeAt(l, Lists[l], Len(Lists[l]) + 1) = l
         /\ \A k \in 1 .. Len(Lists[l]) : NodeAt(l, Lists[l], k) = Lists[l][k] /\ Lists[l][k] \in Item
<1>1. Lists[l] \in Seq(Item) /\ Lists[l] = Content(l) /\ Lists \in ItemSeqs /\ Lists = [m \in ListName |-> Lists[m]]
  BY DEF ListInv, Linked, ItemSeqs, Lists
<1>2. Len(Lists[l]) \in Nat /\ DOMAIN Lists[l] = 1 .. Len(Lists[l])
  BY <1>1, LenProperties
<1> QED
  BY <1>1, <1>2 DEF NodeAt

LEMMA RingLinks ==
  ASSUME ListInv, NEW l \in ListName, NEW k \in 0 .. Len(Lists[l])
  PROVE  /\ li_next[NodeAt(l, Lists[l], k)] = NodeAt(l, Lists[l], k + 1)
         /\ li_prev[NodeAt(l, Lists[l], k + 1)] = NodeAt(l, Lists[l], k)
  BY DEF ListInv, Linked, RingOf

(* Where a position that the operations accept is on the ring. *)
LEMMA PositionOf ==
  ASSUME ListInv, NEW l \in ListName, NEW pos, pos = l \/ (pos \in Item /\ li_owner[pos] = l)
  PROVE  \E p \in 0 .. Len(Lists[l]) : pos = NodeAt(l, Lists[l], p + 1)
<1>1. CASE pos = l
  <2>1. Len(Lists[l]) \in 0 .. Len(Lists[l]) /\ pos = NodeAt(l, Lists[l], Len(Lists[l]) + 1)
    BY <1>1, ListTypes
  <2> QED
    BY <2>1
<1>2. CASE pos \in Item /\ li_owner[pos] = l
  <2>1. PICK k \in 1 .. Len(Lists[l]) : Lists[l][k] = pos
    BY <1>2 DEF ListInv, Linked, OwnedBy
  <2>2. k - 1 \in 0 .. Len(Lists[l]) /\ (k - 1) + 1 = k /\ NodeAt(l, Lists[l], k) = pos
    BY <2>1, ListTypes
  <2> QED
    BY <2>2
<1> QED
  BY <1>1, <1>2

LEMMA Inserts ==
  ASSUME ListInv, NEW l \in ListName, NEW k \in 0 .. Len(Lists[l]), NEW i \in Item, li_owner[i] = Nothing,
         Link(NodeAt(l, Lists[l], k), i, NodeAt(l, Lists[l], k + 1), l),
         Counted([Lists EXCEPT ![l] = Sequence!InsertAt(Lists[l], k + 1, i)], li_length')
  PROVE  ListInv' /\ Sequence!Insert(l)
<1> DEFINE T == [Lists EXCEPT ![l] = Sequence!InsertAt(Lists[l], k + 1, i)]
<1>1. Linked(Lists, li_next, li_prev, li_owner)
  BY DEF ListInv
<1>2. Linked(T, li_next', li_prev', li_owner')
  BY <1>1, LinkInserts DEF Link
<1>3. Lists' = T /\ ListInv'
  <2> HIDE DEF T
  <2>1. Counted(T, li_length')
    BY DEF T
  <2> QED
    BY <1>2, <2>1, ListsAfter
<1>4. i \in Sequence!Free
  <2>1. ASSUME NEW m \in ListName PROVE i \notin Sequence!On(m)
    <3>1. \A j \in 1 .. Len(Lists[m]) : Lists[m][j] # i
      BY ListAssumption DEF ListInv, Linked, OwnedBy
    <3>2. [n \in ListName |-> Content(n)][m] = Lists[m]
      BY DEF Lists
    <3> QED
      BY <3>1, <3>2, ListTypes DEF Sequence!On
  <2> QED
    BY <2>1 DEF Sequence!Free
<1>5. k + 1 \in 1 .. Len(Lists[l]) + 1
  BY ListTypes
<1>6. Sequence!Put(l, Sequence!InsertAt(Lists[l], k + 1, i))
  BY <1>3 DEF Sequence!Put, Lists
<1>7. [n \in ListName |-> Content(n)][l] = Lists[l]
  BY DEF Lists
<1> QED
  BY <1>3, <1>4, <1>5, <1>6, <1>7 DEF Sequence!Insert

(* One list is another one now, and its count is changed with it. *)
LEMMA OneCounted ==
  ASSUME ListInv, NEW l \in ListName, NEW t, NEW c \in Int, c >= Len(t),
         li_length' = [li_length EXCEPT ![l] = c]
  PROVE  Counted([Lists EXCEPT ![l] = t], li_length')
<1>1. Counted(Lists, li_length) /\ Lists \in ItemSeqs
  BY ListTypes DEF ListInv
<1>2. /\ [Lists EXCEPT ![l] = t][l] = t
      /\ \A m \in ListName : m # l => [Lists EXCEPT ![l] = t][m] = Lists[m]
  BY <1>1 DEF ItemSeqs
<1>3. /\ li_length' \in [ListName -> Int] /\ li_length'[l] = c
      /\ \A m \in ListName : m # l => li_length'[m] = li_length[m]
  BY <1>1 DEF Counted
<1> QED
  BY <1>1, <1>2, <1>3 DEF Counted

(* An item linked in at a place of the ring is an insert, whether the         *)
(* operation counts it once or more often.                                    *)
LEMMA InsertsCounted ==
  ASSUME ListInv, NEW l \in ListName, NEW k \in 0 .. Len(Lists[l]), NEW i \in Item, li_owner[i] = Nothing,
         NEW before, NEW after, before = NodeAt(l, Lists[l], k), after = NodeAt(l, Lists[l], k + 1),
         Link(before, i, after, l), NEW e \in Nat, e >= 1,
         li_length' = [li_length EXCEPT ![l] = @ + e]
  PROVE  ListInv' /\ Sequence!Insert(l)
<1> DEFINE t == Sequence!InsertAt(Lists[l], k + 1, i)
<1>1. /\ Lists[l] \in Seq(Item) /\ Len(Lists[l]) \in Nat /\ k + 1 \in 1 .. Len(Lists[l]) + 1
      /\ li_length[l] >= Len(Lists[l]) /\ li_length[l] \in Int
  BY ListTypes DEF ListInv, Counted
<1>2. Len(t) = Len(Lists[l]) + 1
  BY <1>1, InsertAtInserts DEF Inserted
<1> HIDE DEF t
<1>3. li_length[l] + e >= Len(t) /\ li_length[l] + e \in Int
  BY <1>1, <1>2
<1>4. Counted([Lists EXCEPT ![l] = t], li_length')
  BY <1>3, OneCounted
<1> QED
  BY <1>4, Inserts DEF t

LEMMA InsertsOnce ==
  ASSUME ListInv, NEW l \in ListName, NEW k \in 0 .. Len(Lists[l]), NEW i \in Item, li_owner[i] = Nothing,
         NEW before, NEW after, before = NodeAt(l, Lists[l], k), after = NodeAt(l, Lists[l], k + 1),
         Link(before, i, after, l),
         li_length' = [li_length EXCEPT ![l] = @ + 1]
  PROVE  ListInv' /\ Sequence!Insert(l)
<1>1. 1 \in Nat /\ 1 >= 1
  OBVIOUS
<1> QED
  BY <1>1, InsertsCounted

-----------------------------------------------------------------------------
(* The operations that insert, each at its place of the ring.                *)
LEMMA AppendInserts ==
  ASSUME ListInv, NEW l \in ListName, NEW i \in Item, Append_(l, i)
  PROVE  ListInv' /\ Sequence!Insert(l)
<1>1. Len(Lists[l]) \in Nat /\ l = NodeAt(l, Lists[l], Len(Lists[l]) + 1)
  BY ListTypes
<1>2. li_prev[l] = NodeAt(l, Lists[l], Len(Lists[l]))
  <2>1. Len(Lists[l]) \in 0 .. Len(Lists[l])
    BY <1>1
  <2>2. li_prev[NodeAt(l, Lists[l], Len(Lists[l]) + 1)] = NodeAt(l, Lists[l], Len(Lists[l]))
    BY <2>1, RingLinks
  <2> QED
    BY <1>1, <2>2
<1>3. Len(Lists[l]) \in 0 .. Len(Lists[l])
  BY <1>1
<1> QED
  BY <1>1, <1>2, <1>3, InsertsOnce DEF Append_

LEMMA PrependPlace ==
  ASSUME ListInv, NEW l \in ListName
  PROVE  0 \in 0 .. Len(Lists[l]) /\ l = NodeAt(l, Lists[l], 0) /\ li_next[l] = NodeAt(l, Lists[l], 0 + 1)
<1>1. Len(Lists[l]) \in Nat /\ l = NodeAt(l, Lists[l], 0)
  BY ListTypes
<1>2. 0 \in 0 .. Len(Lists[l])
  BY <1>1
<1>3. li_next[NodeAt(l, Lists[l], 0)] = NodeAt(l, Lists[l], 0 + 1)
  BY <1>2, RingLinks
<1> QED
  BY <1>1, <1>2, <1>3

LEMMA PrependInserts ==
  ASSUME ListInv, NEW l \in ListName, NEW i \in Item, Prepend(l, i)
  PROVE  ListInv' /\ Sequence!Insert(l)
  BY PrependPlace, InsertsOnce DEF Prepend

LEMMA InsertPosInserts ==
  ASSUME ListInv, NEW l \in ListName, NEW i \in Item, NEW pos, InsertPos(l, pos, i)
  PROVE  ListInv' /\ Sequence!Insert(l)
<1>1. pos = l \/ (pos \in Item /\ li_owner[pos] = l)
  BY DEF InsertPos
<1>2. PICK p \in 0 .. Len(Lists[l]) : pos = NodeAt(l, Lists[l], p + 1)
  BY <1>1, PositionOf
<1>3. li_prev[pos] = NodeAt(l, Lists[l], p)
  BY <1>2, RingLinks
<1> QED
  BY <1>2, <1>3, InsertsOnce DEF InsertPos

(* The walk to the index may run past the sentinel: it stays on the ring.    *)
LEMMA InsertInserts ==
  ASSUME ListInv, NEW l \in ListName, NEW i \in Item, NEW idx \in Nat, Insert(l, i, idx)
  PROVE  ListInv' /\ Sequence!Insert(l)
<1>1. Linked(Lists, li_next, li_prev, li_owner) /\ li_owner[i] = Nothing
  BY DEF ListInv, Insert
<1>2. CASE idx = 0
  <2>1. li_length' = [li_length EXCEPT ![l] = @ + 2] /\ Link(l, i, li_next[l], l)
    BY <1>2 DEF Insert
  <2>2. 2 \in Nat /\ 2 >= 1
    OBVIOUS
  <2> QED
    BY <1>1, <2>1, <2>2, PrependPlace, InsertsCounted
<1>3. CASE idx # 0
  <2> DEFINE ptr == Step(li_next, li_next[l], idx - 1)
  <2>1. Len(Lists[l]) \in Nat /\ 0 + 1 \in 0 .. Len(Lists[l]) + 1 /\ idx - 1 \in Nat
    BY <1>3, ListTypes
  <2>2. li_next[l] = NodeAt(l, Lists[l], 0 + 1)
    BY PrependPlace
  <2>3. Lists[l] \in Seq(Item) /\ RingOf(l, Lists[l], li_next, li_prev)
    BY <1>1, ListTypes DEF Linked
  <2>4. PICK j \in 0 .. Len(Lists[l]) : ptr = NodeAt(l, Lists[l], j)
    <3> DEFINE start == 0 + 1
               steps == idx - 1
    <3>1. start \in 0 .. Len(Lists[l]) + 1 /\ steps \in Nat /\ li_next[l] = NodeAt(l, Lists[l], start)
      BY <2>1, <2>2
    <3>2. ptr = Step(li_next, NodeAt(l, Lists[l], start), steps)
      BY <3>1
    <3> HIDE DEF ptr, start, steps
    <3>3. \E j \in 0 .. Len(Lists[l]) : Step(li_next, NodeAt(l, Lists[l], start), steps) = NodeAt(l, Lists[l], j)
      <4> DEFINE s == Lists[l]
      <4>1. s \in Seq(Item) /\ RingOf(l, s, li_next, li_prev) /\ start \in 0 .. Len(s) + 1 /\ steps \in Nat
        BY <2>3, <3>1
      <4> HIDE DEF s
      <4>2. \E j \in 0 .. Len(s) : Step(li_next, NodeAt(l, s, start), steps) = NodeAt(l, s, j)
        BY ONLY l \in ListName, <4>1, StepsStay
      <4> QED
        BY <4>2 DEF s
    <3> QED
      BY <3>2, <3>3
  <2>5. li_next[ptr] = NodeAt(l, Lists[l], j + 1)
    BY <2>4, RingLinks
  <2>6. /\ Link(ptr, i, li_next[ptr], l) /\ li_length' = [li_length EXCEPT ![l] = @ + 1]
    BY <1>1, <1>3 DEF Insert
  <2> HIDE DEF ptr
  <2> QED
    BY <1>1, <2>4, <2>5, <2>6, InsertsOnce
<1> QED
  BY <1>2, <1>3

(* An item taken off its ring, whether its own links are cleared or kept. *)
LEMMA Removes ==
  ASSUME ListInv, NEW l \in ListName, NEW k \in 1 .. Len(Lists[l]), NEW i, i = Lists[l][k],
         NEW cleared \in BOOLEAN, Unlink(l, i, cleared)
  PROVE  ListInv' /\ Sequence!Take(l)
<1> DEFINE before == NodeAt(l, Lists[l], k - 1)
           after  == NodeAt(l, Lists[l], k + 1)
           t == Sequence!RemoveAt(Lists[l], k)
<1>1. /\ Lists[l] \in Seq(Item) /\ Len(Lists[l]) \in Nat /\ DOMAIN Lists[l] = 1 .. Len(Lists[l])
      /\ i \in Item /\ NodeAt(l, Lists[l], k) = i
  BY ListTypes
<1>2. /\ Linked(Lists, li_next, li_prev, li_owner) /\ Counted(Lists, li_length)
      /\ li_next \in [Node -> Node \cup {Nothing}] /\ li_prev \in [Node -> Node \cup {Nothing}]
      /\ li_length[l] >= Len(Lists[l]) /\ li_length[l] \in Int
  BY DEF ListInv, Linked, Counted
<1>3. /\ k \in 0 .. Len(Lists[l]) /\ k - 1 \in 0 .. Len(Lists[l]) /\ (k - 1) + 1 = k /\ k - 1 # k
      /\ k - 1 \in Int /\ k + 1 \in Int
  BY <1>1
<1>4. li_next[i] = after /\ li_prev[i] = before
  <2>1. li_next[NodeAt(l, Lists[l], k)] = NodeAt(l, Lists[l], k + 1)
    BY <1>3, RingLinks
  <2>2. li_prev[NodeAt(l, Lists[l], (k - 1) + 1)] = NodeAt(l, Lists[l], k - 1)
    BY <1>3, RingLinks
  <2> QED
    BY <1>1, <1>3, <2>1, <2>2
<1>5. before # i /\ after # i /\ before \in Node /\ after \in Node /\ i \in Node
  <2>1. NodeAt(l, Lists[l], k - 1) # NodeAt(l, Lists[l], k)
    BY <1>2, <1>3, RingsDisjoint
  <2>2. NodeAt(l, Lists[l], (k - 1) + 1) # NodeAt(l, Lists[l], k + 1)
    BY <1>2, <1>3, RingsDisjoint
  <2> QED
    BY <1>1, <1>3, <2>1, <2>2, NodeTypes DEF Node
<1>6. Len(t) = Len(Lists[l]) - 1
  BY <1>1, RemoveAtRemoves DEF Removed
<1> HIDE DEF before, after
<1>7. /\ li_next' \in [Node -> Node \cup {Nothing}] /\ li_next'[before] = after
      /\ \A m \in Node : m # i /\ m # before => li_next'[m] = li_next[m]
  BY <1>2, <1>4, <1>5 DEF Unlink
<1>8. /\ li_prev' \in [Node -> Node \cup {Nothing}] /\ li_prev'[after] = before
      /\ \A m \in Node : m # i /\ m # after => li_prev'[m] = li_prev[m]
  BY <1>2, <1>4, <1>5 DEF Unlink
<1>9. Linked([Lists EXCEPT ![l] = t], li_next', li_prev', [li_owner EXCEPT ![i] = Nothing])
  <2>1. ASSUME NEW next2 \in [Node -> Node \cup {Nothing}], NEW prev2 \in [Node -> Node \cup {Nothing}],
               next2[before] = after, prev2[after] = before,
               \A m \in Node : m # i /\ m # before => next2[m] = li_next[m],
               \A m \in Node : m # i /\ m # after => prev2[m] = li_prev[m]
        PROVE  Linked([Lists EXCEPT ![l] = t], next2, prev2, [li_owner EXCEPT ![i] = Nothing])
    <3>1. /\ next2[NodeAt(l, Lists[l], k - 1)] = NodeAt(l, Lists[l], k + 1)
          /\ prev2[NodeAt(l, Lists[l], k + 1)] = NodeAt(l, Lists[l], k - 1)
          /\ \A m \in Node : m # i /\ m # NodeAt(l, Lists[l], k - 1) => next2[m] = li_next[m]
          /\ \A m \in Node : m # i /\ m # NodeAt(l, Lists[l], k + 1) => prev2[m] = li_prev[m]
      BY <2>1 DEF before, after
    <3>2. i \in Item /\ Linked(Lists, li_next, li_prev, li_owner)
      BY <1>1, <1>2
    <3> QED
      BY <2>1, <3>1, <3>2, UnlinkRemoves
  <2> QED
    BY <1>7, <1>8, <2>1
<1>10. li_owner' = [li_owner EXCEPT ![i] = Nothing] /\ li_length' = [li_length EXCEPT ![l] = @ - 1]
  BY DEF Unlink
<1>11. Counted([Lists EXCEPT ![l] = t], li_length')
  <2> HIDE DEF t
  <2>1. li_length[l] - 1 \in Int /\ li_length[l] - 1 >= Len(t)
    BY <1>1, <1>2, <1>6
  <2> QED
    BY <1>10, <2>1, OneCounted
<1>12. Lists' = [Lists EXCEPT ![l] = t] /\ ListInv'
  <2> HIDE DEF t
  <2> QED
    BY <1>9, <1>10, <1>11, ListsAfter
<1>13. Sequence!Put(l, t)
  BY <1>12 DEF Sequence!Put, Lists
<1>14. [n \in ListName |-> Content(n)][l] = Lists[l]
  BY DEF Lists
<1> QED
  BY <1>1, <1>12, <1>13, <1>14 DEF Sequence!Take

LEMMA RemoveItemTakes ==
  ASSUME ListInv, NEW l \in ListName, NEW i \in Item, RemoveItem(l, i)
  PROVE  ListInv' /\ Sequence!Take(l)
<1>1. PICK k \in DOMAIN Content(l) : Content(l)[k] = i
  BY DEF RemoveItem
<1>2. k \in 1 .. Len(Lists[l]) /\ i = Lists[l][k]
  BY <1>1, ListTypes
<1>3. Unlink(l, i, FALSE)
  BY DEF RemoveItem
<1> QED
  BY <1>2, <1>3, Removes

LEMMA RemoveEndTakes ==
  ASSUME ListInv, NEW l \in ListName, ListRemoveFirst(l) \/ ListRemoveLast(l)
  PROVE  ListInv' /\ Sequence!Take(l)
<1>1. Lists[l] \in Seq(Item) /\ Len(Lists[l]) \in Nat /\ Lists[l] # <<>>
  BY ListTypes DEF ListRemoveFirst, ListRemoveLast, Removable
<1>2. Len(Lists[l]) \in 1 .. Len(Lists[l]) /\ 1 \in 1 .. Len(Lists[l])
  BY <1>1, EmptySeq
<1>3. li_next[l] = Lists[l][1]
  BY <1>2, PrependPlace, ListTypes
<1>4. li_prev[l] = Lists[l][Len(Lists[l])]
  <2>1. Len(Lists[l]) \in 0 .. Len(Lists[l])
    BY <1>1
  <2>2. li_prev[NodeAt(l, Lists[l], Len(Lists[l]) + 1)] = NodeAt(l, Lists[l], Len(Lists[l]))
    BY <2>1, RingLinks
  <2> QED
    BY <1>2, <2>2, ListTypes
<1>5. CASE ListRemoveFirst(l)
  <2>1. Unlink(l, li_next[l], TRUE)
    BY <1>5 DEF ListRemoveFirst
  <2> QED
    BY <1>2, <1>3, <2>1, Removes
<1>6. CASE ListRemoveLast(l)
  <2>1. Unlink(l, li_prev[l], TRUE)
    BY <1>6 DEF ListRemoveLast
  <2> QED
    BY <1>2, <1>4, <2>1, Removes
<1> QED
  BY <1>5, <1>6
-----------------------------------------------------------------------------
(* The destructor and a new construction clear the list.                     *)
LEMMA EmptyClears ==
  ASSUME ListInv, NEW l \in ListName, Empty(l)
  PROVE  ListInv' /\ Sequence!Clear(l)
<1> DEFINE T == [Lists EXCEPT ![l] = <<>>]
<1>1. Linked(Lists, li_next, li_prev, li_owner) /\ Counted(Lists, li_length)
  BY DEF ListInv
<1>2. Linked(T, li_next', li_prev', li_owner')
  <2>1. /\ li_next' = [n \in Node |-> IF n = l THEN l
                          ELSE IF n \in Item /\ li_owner[n] = l THEN Nothing ELSE li_next[n]]
        /\ li_prev' = [n \in Node |-> IF n = l THEN l
                          ELSE IF n \in Item /\ li_owner[n] = l THEN Nothing ELSE li_prev[n]]
        /\ li_owner' = [i \in Item |-> IF li_owner[i] = l THEN Nothing ELSE li_owner[i]]
    BY DEF Empty
  <2> QED
    BY <1>1, <2>1, EmptyUnlinks
<1>3. Counted(T, li_length')
  <2>1. 0 >= Len(<<>>) /\ 0 \in Int
    OBVIOUS
  <2>2. li_length' = [li_length EXCEPT ![l] = 0]
    BY DEF Empty
  <2> QED
    BY <2>1, <2>2, OneCounted
<1>4. Lists' = T /\ ListInv'
  <2> HIDE DEF T
  <2> QED
    BY <1>2, <1>3, ListsAfter
<1> QED
  BY <1>4 DEF Sequence!Clear, Sequence!Put, Lists

(* The sort's result exists, is an arrangement of the items and is in order. *)
LEMMA SortSorts ==
  ASSUME ListInv, NEW l \in ListName, Sort(l)
  PROVE  ListInv' /\ Sequence!Sort(l)
<1> DEFINE n == li_length[l]
           old == Content(l)
           Fits(s) == /\ {s[k] : k \in 1 .. n} = {old[k] : k \in DOMAIN old}
                      /\ \A j, k \in 1 .. n : j < k => Rank[s[j]] <= Rank[s[k]]
           sorted == CHOOSE s \in [1 .. n -> Item] : Fits(s)
           Q == ItemsOf(Lists[l])
           T == [Lists EXCEPT ![l] = sorted]
<1>1. /\ Linked(Lists, li_next, li_prev, li_owner) /\ Counted(Lists, li_length)
      /\ RingOf(l, Lists[l], li_next, li_prev)
      /\ Lists[l] \in Seq(Item) /\ Len(Lists[l]) \in Nat /\ DOMAIN Lists[l] = 1 .. Len(Lists[l])
      /\ \A k \in 1 .. Len(Lists[l]) : Lists[l][k] \in Item
  BY ListTypes DEF ListInv, Linked
<1>2. n = Len(Lists[l]) /\ n \in Nat
  BY <1>1, ListTypes DEF Sort
<1>3. old = Lists[l] /\ Q \in SUBSET Item
  BY <1>1, ListTypes DEF ItemsOf
<1>4. {old[k] : k \in DOMAIN old} = Q
  BY <1>1, <1>3 DEF ItemsOf
<1>5. \E s \in [1 .. n -> Item] : Fits(s)
  <2>1. Lists[l] \in [1 .. n -> Item] /\ {Lists[l][k] : k \in 1 .. n} = ItemsOf(Lists[l])
    BY <1>1, <1>2 DEF ItemsOf
  <2>2. Cardinality(Q) = n
    BY <1>1, <1>2, <2>1, ArrangedOnce
  <2>3. PICK s \in [1 .. n -> Item] : Arranges(s, n, Q)
    <3> HIDE DEF Q, n
    <3> QED
      BY <1>2, <1>3, <2>2, ArrangementExists
  <2>4. Fits(s)
    BY <1>4, <2>3 DEF Arranges, Ordered
  <2> HIDE DEF Fits
  <2> QED
    BY <2>4
<1>6. sorted \in [1 .. n -> Item] /\ Fits(sorted)
  <2> HIDE DEF Fits
  <2> QED
    BY <1>5
<1>7. LinkedAnew(l, n, sorted, li_next, li_prev, li_owner, li_next', li_prev')
  BY DEF Sort, LinkedAnew
<1>8. sorted \in [1 .. n -> Item] /\ {sorted[k] : k \in 1 .. n} = Q /\ Ordered(sorted, n)
  <2> HIDE DEF sorted, Q, old
  <2> QED
    BY <1>4, <1>6 DEF Ordered
<1> HIDE DEF sorted, n
<1>9. Linked(T, li_next', li_prev', li_owner')
  <2>1. Linked(T, li_next', li_prev', li_owner)
    BY <1>1, <1>2, <1>7, <1>8, SortLinks
  <2> QED
    BY <2>1 DEF Sort
<1>10. Counted(T, li_length')
  <2>1. sorted \in Seq(Item) /\ Len(sorted) = n
    BY <1>2, <1>8
  <2>2. /\ T \in ItemSeqs /\ T[l] = sorted /\ \A m \in ListName : m # l => T[m] = Lists[m]
    BY <2>1, ListTypes DEF ItemSeqs
  <2>3. li_length' = li_length
    BY DEF Sort
  <2> HIDE DEF T
  <2>4. \A m \in ListName : Len(T[m]) = Len(Lists[m])
    BY <1>2, <2>1, <2>2
  <2> QED
    BY <1>1, <2>3, <2>4 DEF Counted
<1>11. Lists' = T /\ ListInv'
  <2> HIDE DEF T
  <2> QED
    BY <1>9, <1>10, ListsAfter
<1>12. [m \in ListName |-> Content(m)][l] = Lists[l]
  BY DEF Lists
<1>13. Sequence!On(l) = Q
  BY <1>1, <1>12 DEF Sequence!On, ItemsOf
<1>14. sorted \in Sequence!SetToSeqs(Q)
  <2>1. /\ Cardinality(Q) = Len(Lists[l]) /\ sorted \in [1 .. Len(Lists[l]) -> Q]
        /\ \A j, k \in 1 .. Len(Lists[l]) : sorted[j] = sorted[k] => j = k
    BY <1>1, <1>2, <1>8, ArrangedOnce
  <2> HIDE DEF Q
  <2>2. /\ sorted \in [1 .. Cardinality(Q) -> Q]
        /\ \A i, j \in 1 .. Cardinality(Q) : i # j => sorted[i] # sorted[j]
    BY <2>1
  <2>3. Sequence!Cardinality(Q) = Cardinality(Q)
    BY Zenon DEF Sequence!Cardinality, Cardinality
  <2>4. /\ sorted \in [1 .. Sequence!Cardinality(Q) -> Q]
        /\ \A i, j \in 1 .. Sequence!Cardinality(Q) : i # j => sorted[i] # sorted[j]
    BY <2>2, <2>3
  <2> QED
    BY <2>4, Zenon DEF Sequence!SetToSeqs
<1>15. \A j, k \in DOMAIN sorted : j < k => Rank[sorted[j]] <= Rank[sorted[k]]
  BY <1>8 DEF Ordered
<1>16. Sequence!Put(l, sorted)
  BY <1>11 DEF Sequence!Put, Lists
<1> HIDE DEF Q
<1> QED
  BY <1>11, <1>13, <1>14, <1>15, <1>16 DEF Sequence!Sort

(* The lists once the entries a .. b of the list x follow entry p of list l. *)
MovedLists(S, l, p, x, a, b) ==
  LET rest == IF l = x THEN Sequence!Cut(S[x], a, b) ELSE S[l]
      k    == IF l # x \/ p < a THEN p ELSE p - (b - a + 1)
  IN  [m \in ListName |-> CASE m = l          -> Sequence!Paste(rest, k, SubSeq(S[x], a, b))
                            [] m = x /\ m # l -> Sequence!Cut(S[x], a, b)
                            [] OTHER          -> S[m]]

LEMMA MovedListsAre ==
  ASSUME NEW S \in ItemSeqs, NEW l \in ListName, NEW p \in 0 .. Len(S[l]), NEW x \in ListName,
         NEW a \in 1 .. Len(S[x]), NEW b \in a .. Len(S[x]), l # x \/ p < a \/ p > b
  PROVE  LET T == MovedLists(S, l, p, x, a, b)
             mid == SubSeq(S[x], a, b)
         IN  /\ IsRange(S, x, a, b, mid) /\ T \in ItemSeqs
             /\ \A m \in ListName : m # l /\ m # x => T[m] = S[m]
             /\ l # x => Pasted(S[l], p, mid, T[l]) /\ CutOut(S[x], a, b, T[x])
             /\ l = x => \E r : /\ CutOut(S[l], a, b, r)
                                /\ Pasted(r, IF p < a THEN p ELSE p - (b - a + 1), mid, T[l])
<1> DEFINE T == MovedLists(S, l, p, x, a, b)
           mid == SubSeq(S[x], a, b)
           r == Sequence!Cut(S[x], a, b)
           k == IF p < a THEN p ELSE p - (b - a + 1)
<1>1. S[l] \in Seq(Item) /\ S[x] \in Seq(Item) /\ Len(S[l]) \in Nat /\ Len(S[x]) \in Nat
  BY LenProperties DEF ItemSeqs
<1>2. mid \in Seq(Item) /\ IsRange(S, x, a, b, mid)
  <2>1. a .. b \subseteq 1 .. Len(S[x])
    BY <1>1
  <2>2. \A j \in a .. b : S[x][j] \in Item
    BY <1>1, <2>1, ElementOfSeq
  <2>3. /\ mid \in Seq(Item) /\ Len(mid) = b - a + 1
        /\ \A j \in 1 .. b - a + 1 : mid[j] = S[x][a + j - 1]
    BY <1>1, <2>2, SubSeqProperties
  <2> QED
    BY <2>3 DEF IsRange
<1>3. CutOut(S[x], a, b, r) /\ r \in Seq(Item) /\ Len(r) = Len(S[x]) - (b - a + 1)
  BY <1>1, CutCutsOut DEF CutOut
<1>4. l = x => k \in 0 .. Len(r)
  <2> HIDE DEF r
  <2> QED
    BY <1>1, <1>3
<1>5. CASE l # x
  <2>1. Pasted(S[l], p, mid, Sequence!Paste(S[l], p, mid))
    BY <1>1, <1>2, PastePastes
  <2>2. T = [m \in ListName |-> CASE m = l          -> Sequence!Paste(S[l], p, mid)
                                  [] m = x /\ m # l -> r
                                  [] OTHER          -> S[m]]
    BY <1>5 DEF MovedLists
  <2>3. T[l] = Sequence!Paste(S[l], p, mid) /\ T[x] = r /\ \A m \in ListName : m # l /\ m # x => T[m] = S[m]
    <3> HIDE DEF T, r, mid
    <3> QED
      BY <1>5, <2>2
  <2>4. T \in ItemSeqs
    <3>1. Sequence!Paste(S[l], p, mid) \in Seq(Item)
      BY <2>1 DEF Pasted
    <3> HIDE DEF T, r, mid
    <3> QED
      BY <1>3, <2>2, <3>1 DEF ItemSeqs
  <2> HIDE DEF T, mid, r
  <2>5. Pasted(S[l], p, mid, T[l]) /\ CutOut(S[x], a, b, T[x])
    BY <1>3, <2>1, <2>3
  <2> QED
    BY <1>2, <1>5, <2>3, <2>4, <2>5 DEF T, mid
<1>6. CASE l = x
  <2>1. Pasted(r, k, mid, Sequence!Paste(r, k, mid))
    <3> HIDE DEF r, k, mid
    <3> QED
      BY <1>2, <1>3, <1>4, <1>6, PastePastes
  <2>2. T = [m \in ListName |-> CASE m = l          -> Sequence!Paste(r, k, mid)
                                  [] m = x /\ m # l -> r
                                  [] OTHER          -> S[m]]
    BY <1>6 DEF MovedLists
  <2>3. T[l] = Sequence!Paste(r, k, mid) /\ \A m \in ListName : m # l => T[m] = S[m]
    <3> HIDE DEF T, r, mid, k
    <3> QED
      BY <1>6, <2>2
  <2>4. T \in ItemSeqs
    <3>1. Sequence!Paste(r, k, mid) \in Seq(Item)
      BY <2>1 DEF Pasted
    <3> HIDE DEF T, r, mid, k
    <3> QED
      BY <1>3, <2>2, <3>1 DEF ItemSeqs
  <2> HIDE DEF T, mid, r
  <2>5. CutOut(S[l], a, b, r) /\ Pasted(r, IF p < a THEN p ELSE p - (b - a + 1), mid, T[l])
    BY <1>3, <1>6, <2>1, <2>3
  <2>6. \E q : CutOut(S[l], a, b, q) /\ Pasted(q, IF p < a THEN p ELSE p - (b - a + 1), mid, T[l])
    BY <2>5
  <2> QED
    BY <1>2, <1>6, <2>3, <2>4, <2>6 DEF T, mid
<1> QED
  BY <1>5, <1>6

(* The range of nodes that a transfer takes is a range of the list.          *)
LEMMA ChainIsSubSeq ==
  ASSUME NEW S, NEW next, NEW prev, NEW owner, Linked(S, next, prev, owner), NEW l \in ListName,
         NEW a \in 1 .. Len(S[l]) + 1, NEW c \in a .. Len(S[l]) + 1
  PROVE  Chain(next, NodeAt(l, S[l], a), NodeAt(l, S[l], c)) = SubSeq(S[l], a, c - 1)
  BY ChainIsRange

(* A transfer leaves the links of the lists with the range moved.            *)
LEMMA TransferLinks ==
  ASSUME ListInv, NEW l \in ListName, NEW p \in 0 .. Len(Lists[l]), NEW x \in ListName,
         NEW a \in 1 .. Len(Lists[x]), NEW b \in a .. Len(Lists[x]), l # x \/ p < a - 1 \/ p > b,
         NEW pos, NEW first, NEW last, pos = NodeAt(l, Lists[l], p + 1),
         first = NodeAt(x, Lists[x], a), last = NodeAt(x, Lists[x], b + 1),
         Transfer(pos, first, last, l)
  PROVE  Linked(MovedLists(Lists, l, p, x, a, b), li_next', li_prev', li_owner')
<1> DEFINE T == MovedLists(Lists, l, p, x, a, b)
           mid == SubSeq(Lists[x], a, b)
<1>1. /\ Linked(Lists, li_next, li_prev, li_owner) /\ Lists \in ItemSeqs
      /\ Len(Lists[x]) \in Nat /\ Len(Lists[l]) \in Nat
  BY ListTypes DEF ListInv
<1>2. Chain(li_next, first, last) = mid
  <2>1. a \in 1 .. Len(Lists[x]) + 1 /\ b + 1 \in a .. Len(Lists[x]) + 1 /\ (b + 1) - 1 = b
    BY <1>1
  <2>2. Chain(li_next, NodeAt(x, Lists[x], a), NodeAt(x, Lists[x], b + 1)) = SubSeq(Lists[x], a, (b + 1) - 1)
    <3>1. ASSUME NEW c \in a .. Len(Lists[x]) + 1
          PROVE  Chain(li_next, NodeAt(x, Lists[x], a), NodeAt(x, Lists[x], c)) = SubSeq(Lists[x], a, c - 1)
      <4>1. /\ Linked(Lists, li_next, li_prev, li_owner) /\ a \in 1 .. Len(Lists[x]) + 1
            /\ c \in a .. Len(Lists[x]) + 1
        BY <1>1, <2>1
      <4> QED
        BY <4>1, ChainIsSubSeq
    <3> QED
      BY <2>1, <3>1
  <2> QED
    BY <2>1, <2>2
<1>3. Transferred(Lists, li_prev, li_owner, l, p, x, a, b, mid, li_next, li_next', li_prev', li_owner')
  <2> HIDE DEF mid
  <2> QED
    BY <1>2 DEF Transfer, Transferred
<1>4. l # x \/ p < a \/ p > b
  BY <1>1
<1>5. /\ IsRange(Lists, x, a, b, mid) /\ T \in ItemSeqs
      /\ \A m \in ListName : m # l /\ m # x => T[m] = Lists[m]
      /\ l # x => Pasted(Lists[l], p, mid, T[l]) /\ CutOut(Lists[x], a, b, T[x])
      /\ l = x => \E r : /\ CutOut(Lists[l], a, b, r)
                         /\ Pasted(r, IF p < a THEN p ELSE p - (b - a + 1), mid, T[l])
  BY <1>1, <1>4, MovedListsAre
<1> HIDE DEF T, mid
<1>6. CASE l # x
  BY <1>1, <1>3, <1>5, <1>6, TransferApart DEF T
<1>7. CASE l = x
  <2>1. PICK r : /\ CutOut(Lists[l], a, b, r)
                 /\ Pasted(r, IF p < a THEN p ELSE p - (b - a + 1), mid, T[l])
    BY <1>5, <1>7
  <2>2. Linked(T, li_next', li_prev', li_owner')
    <3>1. /\ a \in 1 .. Len(Lists[l]) /\ b \in a .. Len(Lists[l]) /\ (p < a - 1 \/ p > b)
          /\ IsRange(Lists, l, a, b, mid) /\ \A m \in ListName : m # l => T[m] = Lists[m]
          /\ Transferred(Lists, li_prev, li_owner, l, p, l, a, b, mid, li_next, li_next', li_prev', li_owner')
      BY <1>3, <1>5, <1>7
    <3> QED
      BY <1>1, <1>5, <2>1, <3>1, TransferWithin
  <2> QED
    BY <2>2 DEF T
<1> QED
  BY <1>6, <1>7

(* How long the lists are when w entries of the list x went to the list l. *)
Lengthened(S, l, x, w, T) ==
  /\ l # x => Len(T[l]) = Len(S[l]) + w /\ Len(T[x]) = Len(S[x]) - w
  /\ l = x => Len(T[l]) = Len(S[l])
  /\ \A m \in ListName : m # l /\ m # x => Len(T[m]) = Len(S[m])

LEMMA MovedLengths ==
  ASSUME NEW S \in ItemSeqs, NEW l \in ListName, NEW p \in 0 .. Len(S[l]), NEW x \in ListName,
         NEW a \in 1 .. Len(S[x]), NEW b \in a .. Len(S[x]), l # x \/ p < a \/ p > b
  PROVE  Lengthened(S, l, x, b - a + 1, MovedLists(S, l, p, x, a, b))
<1> DEFINE T == MovedLists(S, l, p, x, a, b)
           mid == SubSeq(S[x], a, b)
<1>1. /\ IsRange(S, x, a, b, mid) /\ T \in ItemSeqs
      /\ \A m \in ListName : m # l /\ m # x => T[m] = S[m]
      /\ l # x => Pasted(S[l], p, mid, T[l]) /\ CutOut(S[x], a, b, T[x])
      /\ l = x => \E r : /\ CutOut(S[l], a, b, r)
                         /\ Pasted(r, IF p < a THEN p ELSE p - (b - a + 1), mid, T[l])
  BY MovedListsAre
<1> HIDE DEF T, mid
<1>2. Len(mid) = b - a + 1
  BY <1>1 DEF IsRange
<1>3. l # x => Len(T[l]) = Len(S[l]) + (b - a + 1) /\ Len(T[x]) = Len(S[x]) - (b - a + 1)
  BY <1>1, <1>2 DEF Pasted, CutOut
<1>4. l = x => Len(T[l]) = Len(S[l])
  <2> SUFFICES ASSUME l = x PROVE Len(T[l]) = Len(S[l])
    OBVIOUS
  <2>1. PICK r : /\ CutOut(S[l], a, b, r)
                 /\ Pasted(r, IF p < a THEN p ELSE p - (b - a + 1), mid, T[l])
    BY <1>1
  <2>2. Len(r) = Len(S[l]) - (b - a + 1) /\ Len(T[l]) = Len(r) + Len(mid)
    BY <2>1 DEF CutOut, Pasted
  <2>3. Len(S[l]) \in Nat
    BY LenProperties DEF ItemSeqs
  <2>4. b - a + 1 \in Int
    OBVIOUS
  <2> DEFINE w == b - a + 1
  <2>5. w \in Int /\ Len(mid) = w /\ Len(r) = Len(S[l]) - w /\ Len(T[l]) = Len(r) + Len(mid)
    BY <1>2, <2>2, <2>4
  <2> HIDE DEF w
  <2> QED
    BY <2>3, <2>5
<1> QED
  BY <1>1, <1>3, <1>4 DEF T, Lengthened

(* A transfer is a move, with the counts that the operation gives the lists. *)
LEMMA Moves ==
  ASSUME ListInv, NEW l \in ListName, NEW p \in 0 .. Len(Lists[l]), NEW x \in ListName,
         NEW a \in 1 .. Len(Lists[x]), NEW b \in a .. Len(Lists[x]), l # x \/ p < a - 1 \/ p > b,
         NEW pos, NEW first, NEW last, pos = NodeAt(l, Lists[l], p + 1),
         first = NodeAt(x, Lists[x], a), last = NodeAt(x, Lists[x], b + 1),
         Transfer(pos, first, last, l),
         Counted(MovedLists(Lists, l, p, x, a, b), li_length')
  PROVE  ListInv' /\ Sequence!Move(l, x)
<1> DEFINE T == MovedLists(Lists, l, p, x, a, b)
           rest == IF l = x THEN Sequence!Cut(Lists[x], a, b) ELSE Lists[l]
           k == IF l # x \/ p < a THEN p ELSE p - (b - a + 1)
           Result(c, d, j, q) ==
             Lists' = [m \in ListName |-> CASE m = l          -> Sequence!Paste(q, j, SubSeq(Lists[x], c, d))
                                            [] m = x /\ m # l -> Sequence!Cut(Lists[x], c, d)
                                            [] OTHER          -> Lists[m]]
<1>1. Lists' = T /\ ListInv'
  <2>1. Linked(T, li_next', li_prev', li_owner')
    BY TransferLinks
  <2> HIDE DEF T
  <2>2. Counted(T, li_length')
    BY DEF T
  <2> QED
    BY <2>1, <2>2, ListsAfter
<1>2. /\ Lists[l] \in Seq(Item) /\ Len(Lists[l]) \in Nat /\ Lists[x] \in Seq(Item) /\ Len(Lists[x]) \in Nat
      /\ DOMAIN Lists[x] = 1 .. Len(Lists[x])
  BY ListTypes
<1>3. a \in DOMAIN Lists[x] /\ b \in DOMAIN Lists[x] /\ a <= b
  BY <1>2
<1>4. k \in 0 .. Len(rest)
  <2>1. l = x => Len(rest) = Len(Lists[l]) - (b - a + 1)
    BY <1>2, CutCutsOut DEF CutOut
  <2>2. l # x => rest = Lists[l]
    OBVIOUS
  <2> HIDE DEF rest
  <2> QED
    BY <1>2, <2>1, <2>2
<1>5. Result(a, b, k, rest)
  BY <1>1 DEF MovedLists
<1>6. \E c, d \in DOMAIN Lists[x] :
        LET q == IF l = x THEN Sequence!Cut(Lists[x], c, d) ELSE Lists[l]
        IN  c <= d /\ \E j \in 0 .. Len(q) : Result(c, d, j, q)
  <2>1. \E j \in 0 .. Len(rest) : Result(a, b, j, rest)
    <3> HIDE DEF rest, k, Result
    <3> QED
      BY <1>4, <1>5
  <2> HIDE DEF Result
  <2> QED
    BY <1>3, <2>1
<1>7. Sequence!Move(l, x)
  BY <1>6 DEF Sequence!Move, Lists
<1> QED
  BY <1>1, <1>7

(* Joining a list moves all of its entries.                                  *)
LEMMA JoinMoves ==
  ASSUME ListInv, NEW l \in ListName, NEW x \in ListName, NEW pos, Join(l, pos, x)
  PROVE  ListInv' /\ Sequence!Move(l, x)
<1> DEFINE n == Len(Lists[x])
<1>1. /\ l # x
      /\ pos = l \/ (pos \in Item /\ li_owner[pos] = l)
      /\ Transfer(pos, li_next[x], x, l)
  BY DEF Join
<1>2. PICK p \in 0 .. Len(Lists[l]) : pos = NodeAt(l, Lists[l], p + 1)
  BY <1>1, PositionOf
<1>3. /\ Counted(Lists, li_length) /\ Lists \in ItemSeqs
      /\ n \in Nat /\ Len(Lists[l]) \in Nat /\ Lists[x] \in Seq(Item)
      /\ x = NodeAt(x, Lists[x], n + 1) /\ li_next[x] = NodeAt(x, Lists[x], 0 + 1)
  BY ListTypes, PrependPlace DEF ListInv
<1>4. n >= 1 /\ 1 \in 1 .. n /\ n \in 1 .. n
  <2>1. Lists[x] # <<>>
    BY ListTypes DEF Join, Removable
  <2> QED
    BY <1>3, <2>1, EmptySeq
<1> DEFINE T == MovedLists(Lists, l, p, x, 1, n)
<1>5. /\ Len(T[l]) = Len(Lists[l]) + (n - 1 + 1) /\ Len(T[x]) = n - (n - 1 + 1)
      /\ \A m \in ListName : m # l /\ m # x => Len(T[m]) = Len(Lists[m])
  <2>1. 1 \in 1 .. Len(Lists[x]) /\ n \in 1 .. Len(Lists[x]) /\ Len(Lists[x]) = n
    BY <1>4
  <2> HIDE DEF n
  <2>2. Lengthened(Lists, l, x, n - 1 + 1, T)
    BY <1>1, <1>3, <2>1, MovedLengths
  <2> HIDE DEF T
  <2> QED
    BY <1>1, <2>1, <2>2 DEF Lengthened
<1> HIDE DEF T
<1>6. Counted(T, li_length')
  <2>1. li_length' = [li_length EXCEPT ![l] = @ + li_length[x], ![x] = 0]
    BY DEF Join
  <2>2. li_length \in [ListName -> Int] /\ li_length[l] >= Len(Lists[l]) /\ li_length[x] >= n
    BY <1>3 DEF Counted
  <2>3. /\ li_length' \in [ListName -> Int]
        /\ li_length'[l] = li_length[l] + li_length[x] /\ li_length'[x] = 0
        /\ \A m \in ListName : m # l /\ m # x => li_length'[m] = li_length[m]
    BY <1>1, <2>1, <2>2
  <2>4. Len(T[l]) = Len(Lists[l]) + n /\ Len(T[x]) = 0
    BY <1>3, <1>5
  <2>5. li_length'[l] >= Len(T[l]) /\ li_length'[x] >= Len(T[x])
    <3>1. li_length[l] \in Int /\ li_length[x] \in Int
      BY <2>2
    <3> HIDE DEF n
    <3> QED
      BY <1>3, <2>2, <2>3, <2>4, <3>1
  <2> HIDE DEF n
  <2> QED
    BY <1>3, <1>5, <2>3, <2>5 DEF Counted
<1>7. /\ 1 \in 1 .. Len(Lists[x]) /\ n \in 1 .. Len(Lists[x])
      /\ li_next[x] = NodeAt(x, Lists[x], 1) /\ x = NodeAt(x, Lists[x], n + 1)
  BY <1>3, <1>4
<1> HIDE DEF n
<1> QED
  BY <1>1, <1>2, <1>6, <1>7, Moves DEF T

(* The range of a splice within its list. *)
LEMMA SpliceRange ==
  ASSUME ListInv, NEW l \in ListName, NEW x \in ListName, NEW pos, NEW first, NEW last,
         Splice(l, pos, x, first, last)
  PROVE  \E a \in 1 .. Len(Lists[x]) : \E b \in a .. Len(Lists[x]) :
           /\ first = NodeAt(x, Lists[x], a) /\ last = NodeAt(x, Lists[x], b + 1)
           /\ Len(Chain(li_next, first, last)) = b - a + 1
           /\ \A k \in a .. b : Lists[x][k] # pos
<1> DEFINE n == Len(Lists[x])
           moved == Chain(li_next, first, last)
<1>1. /\ first \in Item /\ li_owner[first] = x /\ first # last
      /\ last = x \/ (last \in Item /\ li_owner[last] = x)
      /\ \A k \in DOMAIN moved : moved[k] \in Item \ {pos}
  BY DEF Splice
<1>2. /\ Linked(Lists, li_next, li_prev, li_owner) /\ n \in Nat /\ x \notin Item
      /\ NodeAt(x, Lists[x], n + 1) = x
  BY ListTypes, ListAssumption DEF ListInv
<1>3. PICK p \in 0 .. n : first = NodeAt(x, Lists[x], p + 1)
  BY <1>1, PositionOf
<1>4. PICK q \in 0 .. n : last = NodeAt(x, Lists[x], q + 1)
  BY <1>1, PositionOf
<1>5. p + 1 \in 1 .. n /\ p # q
  BY <1>1, <1>2, <1>3, <1>4
<1>6. q >= p + 1
  <2> SUFFICES ASSUME ~(q >= p + 1) PROVE FALSE
    OBVIOUS
  <2>1. p + 1 \in 1 .. n /\ q + 1 \in 1 .. (p + 1) - 1
    BY <1>2, <1>5
  <2>2. \E k \in DOMAIN Chain(li_next, NodeAt(x, Lists[x], p + 1), NodeAt(x, Lists[x], q + 1)) :
           Chain(li_next, NodeAt(x, Lists[x], p + 1), NodeAt(x, Lists[x], q + 1))[k] = x
    <3>1. ASSUME NEW a \in 1 .. n, NEW c \in 1 .. a - 1
          PROVE  \E k \in DOMAIN Chain(li_next, NodeAt(x, Lists[x], a), NodeAt(x, Lists[x], c)) :
                   Chain(li_next, NodeAt(x, Lists[x], a), NodeAt(x, Lists[x], c))[k] = x
      BY <1>2, ChainWraps
    <3> QED
      BY <2>1, <3>1
  <2>3. \E k \in DOMAIN moved : moved[k] = x
    BY <1>3, <1>4, <2>2
  <2> HIDE DEF moved
  <2> QED
    BY <1>1, <1>2, <2>3
<1>7. /\ q \in p + 1 .. n /\ p + 1 \in 1 .. n + 1 /\ q + 1 \in p + 1 .. n + 1
      /\ (q + 1) - (p + 1) = q - (p + 1) + 1
  BY <1>2, <1>5, <1>6
<1>8. /\ Len(moved) = q - (p + 1) + 1 /\ DOMAIN moved = 1 .. q - (p + 1) + 1
      /\ \A k \in 1 .. q - (p + 1) + 1 : moved[k] = Lists[x][(p + 1) + k - 1]
  <2>1. ASSUME NEW a \in 1 .. n + 1, NEW c \in a .. n + 1
        PROVE  LET range == Chain(li_next, NodeAt(x, Lists[x], a), NodeAt(x, Lists[x], c))
               IN  /\ Len(range) = c - a /\ DOMAIN range = 1 .. c - a
                   /\ \A k \in 1 .. c - a : range[k] = Lists[x][a + k - 1]
    BY <1>2, ChainIsRange
  <2>2. /\ Len(moved) = (q + 1) - (p + 1) /\ DOMAIN moved = 1 .. (q + 1) - (p + 1)
        /\ \A k \in 1 .. (q + 1) - (p + 1) : moved[k] = Lists[x][(p + 1) + k - 1]
    BY <1>3, <1>4, <1>7, <2>1
  <2> HIDE DEF moved, n
  <2> QED
    BY <1>7, <2>2
<1> HIDE DEF moved
<1>9. ASSUME NEW k \in p + 1 .. q PROVE Lists[x][k] # pos
  <2>1. /\ k - p \in 1 .. q - (p + 1) + 1 /\ (p + 1) + (k - p) - 1 = k
    BY <1>7
  <2>2. moved[k - p] = Lists[x][k] /\ k - p \in DOMAIN moved
    BY <1>8, <2>1
  <2> QED
    BY <1>1, <2>2
<1> QED
  BY <1>3, <1>4, <1>5, <1>7, <1>8, <1>9 DEF moved

(* A splice before the element that follows the range already changes        *)
(* nothing; any other is a move.                                             *)
LEMMA SpliceMoves ==
  ASSUME ListInv, NEW l \in ListName, NEW x \in ListName, NEW pos, NEW first, NEW last,
         Splice(l, pos, x, first, last)
  PROVE  ListInv' /\ (Sequence!Move(l, x) \/ Lists' = Lists)
<1>1. /\ Counted(Lists, li_length) /\ Lists \in ItemSeqs
      /\ Linked(Lists, li_next, li_prev, li_owner)
      /\ Len(Lists[x]) \in Nat /\ Len(Lists[l]) \in Nat /\ l \notin Item /\ x \notin Item
  BY ListTypes, ListAssumption DEF ListInv
<1>2. /\ pos = l \/ (pos \in Item /\ li_owner[pos] = l)
      /\ last = x \/ (last \in Item /\ li_owner[last] = x)
  BY DEF Splice
<1>3. PICK a \in 1 .. Len(Lists[x]) : \E b \in a .. Len(Lists[x]) :
           /\ first = NodeAt(x, Lists[x], a) /\ last = NodeAt(x, Lists[x], b + 1)
           /\ Len(Chain(li_next, first, last)) = b - a + 1
           /\ \A k \in a .. b : Lists[x][k] # pos
  BY SpliceRange
<1>4. PICK b \in a .. Len(Lists[x]) :
           /\ first = NodeAt(x, Lists[x], a) /\ last = NodeAt(x, Lists[x], b + 1)
           /\ Len(Chain(li_next, first, last)) = b - a + 1
           /\ \A k \in a .. b : Lists[x][k] # pos
  BY <1>3
<1> DEFINE w == b - a + 1
<1>5. li_length' = [[li_length EXCEPT ![l] = @ + w] EXCEPT ![x] = @ - w] /\ w \in Nat
  <2>1. w \in Nat
    OBVIOUS
  <2> HIDE DEF w
  <2>2. Len(Chain(li_next, first, last)) = w
    BY <1>4 DEF w
  <2> QED
    BY <2>1, <2>2 DEF Splice
<1>6. li_length \in [ListName -> Int]
  BY <1>1 DEF Counted
<1>7. /\ li_length' \in [ListName -> Int]
      /\ l = x => li_length' = li_length
      /\ l # x => li_length'[l] = li_length[l] + w /\ li_length'[x] = li_length[x] - w
      /\ \A m \in ListName : m # l /\ m # x => li_length'[m] = li_length[m]
  <2> HIDE DEF w
  <2>1. l = x => li_length' = li_length
    <3> SUFFICES ASSUME l = x PROVE li_length' = li_length
      OBVIOUS
    <3>1. li_length' \in [ListName -> Int] /\ \A m \in ListName : m # l => li_length'[m] = li_length[m]
      BY <1>5, <1>6
    <3>2. li_length'[l] = li_length[l]
      BY <1>5, <1>6
    <3> QED
      BY <1>6, <3>1, <3>2
  <2> QED
    BY <1>5, <1>6, <2>1
<1>8. CASE pos = last
  <2>1. l = x
    BY <1>1, <1>2, <1>8
  <2>2. UNCHANGED <<li_next, li_prev, li_owner, li_length>>
    BY <1>7, <1>8, <2>1 DEF Splice
  <2> QED
    BY <2>2 DEF ListInv, Lists, Content
<1>9. CASE pos # last
  <2>1. Transfer(pos, first, last, l)
    BY <1>9 DEF Splice
  <2>2. PICK p \in 0 .. Len(Lists[l]) : pos = NodeAt(l, Lists[l], p + 1)
    BY <1>2, PositionOf
  <2>3. l # x \/ p < a - 1 \/ p > b
    <3> SUFFICES ASSUME l = x, p >= a - 1, p <= b PROVE FALSE
      BY <1>1
    <3>1. CASE p = b
      BY <1>4, <1>9, <2>2, <3>1
    <3>2. CASE p # b
      <4>1. p + 1 \in a .. b /\ p + 1 \in 1 .. Len(Lists[l])
        BY <1>1, <3>2
      <4>2. Lists[x][p + 1] = pos
        BY <2>2, <4>1 DEF NodeAt
      <4> QED
        BY <1>4, <4>1, <4>2
    <3> QED
      BY <3>1, <3>2
  <2> DEFINE T == MovedLists(Lists, l, p, x, a, b)
  <2>4. Lengthened(Lists, l, x, w, T)
    <3>1. l # x \/ p < a \/ p > b
      BY <1>1, <2>3
    <3> QED
      BY <1>1, <3>1, MovedLengths
  <2>5. Counted(T, li_length')
    <3> HIDE DEF T, w
    <3>1. \A m \in ListName : li_length[m] >= Len(Lists[m])
      BY <1>1 DEF Counted
    <3>2. CASE l = x
      BY <1>6, <1>7, <2>4, <3>1, <3>2 DEF Counted, Lengthened
    <3>3. CASE l # x
      <4>1. /\ Len(T[l]) = Len(Lists[l]) + w /\ Len(T[x]) = Len(Lists[x]) - w
            /\ li_length'[l] = li_length[l] + w /\ li_length'[x] = li_length[x] - w
            /\ li_length[l] \in Int /\ li_length[x] \in Int
        BY <1>6, <1>7, <2>4, <3>3 DEF Lengthened
      <4>2. li_length'[l] >= Len(T[l]) /\ li_length'[x] >= Len(T[x])
        <5>1. /\ li_length[l] >= Len(Lists[l]) /\ Len(Lists[l]) \in Int
              /\ li_length[x] >= Len(Lists[x]) /\ Len(Lists[x]) \in Int
          BY <1>1, <3>1
        <5>2. w \in Int
          BY <1>5
        <5>3. \A n, o \in Int : n >= o => n + w >= o + w /\ n - w >= o - w
          BY <5>2
        <5>4. /\ li_length[l] + w >= Len(Lists[l]) + w
              /\ li_length[x] - w >= Len(Lists[x]) - w
          BY <4>1, <5>1, <5>3
        <5> QED
          BY <4>1, <5>4
      <4>3. \A m \in ListName : m # l /\ m # x => li_length'[m] >= Len(T[m])
        BY <1>7, <2>4, <3>1 DEF Lengthened
      <4> QED
        BY <1>6, <1>7, <4>2, <4>3 DEF Counted
    <3> QED
      BY <3>2, <3>3
  <2>6. ListInv' /\ Sequence!Move(l, x)
    BY <1>4, <2>1, <2>2, <2>3, <2>5, Moves
  <2> QED
    BY <2>6
<1> QED
  BY <1>8, <1>9
-----------------------------------------------------------------------------
(* Every operation keeps the invariant and is an operation on sequences.     *)
LEMMA ListStep ==
  ASSUME ListInv, [ListNext]_li_vars
  PROVE  ListInv' /\ (Sequence!Next \/ Lists' = Lists)
<1>1. CASE UNCHANGED li_vars
  BY <1>1 DEF li_vars, ListInv, Lists, Content
<1>2. ASSUME NEW l \in ListName, NEW i \in Item,
             Append_(l, i) \/ Prepend(l, i) \/ RemoveItem(l, i)
      PROVE  ListInv' /\ Sequence!Next
  BY <1>2, AppendInserts, PrependInserts, RemoveItemTakes DEF Sequence!Next
<1>3. ASSUME NEW l \in ListName, NEW i \in Item, NEW pos \in Node, InsertPos(l, pos, i)
      PROVE  ListInv' /\ Sequence!Next
  BY <1>3, InsertPosInserts DEF Sequence!Next
<1>4. ASSUME NEW l \in ListName, ListRemoveFirst(l) \/ ListRemoveLast(l)
      PROVE  ListInv' /\ Sequence!Next
  BY <1>4, RemoveEndTakes DEF Sequence!Next
<1>5. ASSUME NEW l \in ListName, Sort(l)
      PROVE  ListInv' /\ Sequence!Next
  BY <1>5, SortSorts DEF Sequence!Next
<1>6. ASSUME NEW l \in ListName, Empty(l)
      PROVE  ListInv' /\ Sequence!Next
  BY <1>6, EmptyClears DEF Sequence!Next
<1>7. ASSUME NEW l \in ListName, NEW x \in ListName,
             NEW pos \in Node, NEW first \in Node, NEW last \in Node, Splice(l, pos, x, first, last)
      PROVE  ListInv' /\ (Sequence!Next \/ Lists' = Lists)
  BY <1>7, SpliceMoves DEF Sequence!Next
<1>8. ASSUME NEW l \in ListName, NEW i \in Item, NEW idx \in 0 .. Cardinality(Item), Insert(l, i, idx)
      PROVE  ListInv' /\ Sequence!Next
  <2>1. Cardinality(Item) \in Nat
    BY ListAssumption, FS_CardinalityType
  <2>2. idx \in Nat
    BY <2>1
  <2> QED
    BY <1>8, <2>2, InsertInserts DEF Sequence!Next
<1>9. ASSUME NEW l \in ListName, NEW x \in ListName, NEW pos \in Node, Join(l, pos, x)
      PROVE  ListInv' /\ Sequence!Next
  BY <1>9, JoinMoves DEF Sequence!Next
<1> QED
  BY <1>1, <1>2, <1>3, <1>4, <1>5, <1>6, <1>7, <1>8, <1>9 DEF ListNext

LEMMA ListInvAgrees == ListInv => LinksAgree
<1> SUFFICES ASSUME ListInv, NEW l \in ListName
             PROVE  /\ \A n \in {l} \cup {i \in Item : li_owner[i] = l} :
                         li_next[n] \in Node /\ li_prev[li_next[n]] = n
                    /\ {Content(l)[k] : k \in DOMAIN Content(l)} = {i \in Item : li_owner[i] = l}
                    /\ li_length[l] >= Len(Content(l))
  BY DEF LinksAgree
<1>1. /\ Lists[l] \in Seq(Item) /\ Len(Lists[l]) \in Nat /\ DOMAIN Lists[l] = 1 .. Len(Lists[l])
      /\ Lists[l] = Content(l) /\ OwnedBy(l, Lists[l], li_owner)
      /\ li_length[l] >= Len(Lists[l])
      /\ \A k \in 1 .. Len(Lists[l]) : Lists[l][k] \in Item
  BY ListTypes DEF ListInv, Linked, Counted
<1>2. ASSUME NEW n \in {l} \cup {i \in Item : li_owner[i] = l}
      PROVE  li_next[n] \in Node /\ li_prev[li_next[n]] = n
  <2>1. PICK k \in 0 .. Len(Lists[l]) : n = NodeAt(l, Lists[l], k)
    <3>1. CASE n = l
      BY <1>1, <3>1, PrependPlace
    <3>2. CASE n \in Item /\ li_owner[n] = l
      <4>1. PICK k \in 1 .. Len(Lists[l]) : Lists[l][k] = n
        BY <1>1, <3>2 DEF OwnedBy
      <4> QED
        BY <1>1, <4>1 DEF NodeAt
    <3> QED
      BY <3>1, <3>2
  <2>2. k + 1 \in Int
    OBVIOUS
  <2> QED
    BY <1>1, <2>1, <2>2, RingLinks, NodeTypes
<1>3. {Lists[l][k] : k \in DOMAIN Lists[l]} = {i \in Item : li_owner[i] = l}
  BY <1>1 DEF OwnedBy
<1> QED
  BY <1>1, <1>2, <1>3

(* On every list the links back are those forward the other way round, the   *)
(* items met on the way are exactly those the list owns, and its count is    *)
(* never below theirs: for every number of items and lists, through inserts, *)
(* removals, joins, splices, sorts and clears (ww_list.c:114-260,            *)
(* ww_list.h:411-453).                                                       *)
THEOREM LinksStayConsistent == ListSpec => []LinksAgree
<1>1. ListInit => ListInv
  BY ListsInitially
<1>2. ListInv /\ [ListNext]_li_vars => ListInv'
  BY ListStep
<1>3. ListInv => LinksAgree
  BY ListInvAgrees
<1> QED
  BY <1>1, <1>2, <1>3, PTL DEF ListSpec

(* Every operation on the links is the operation on sequences it stands for: *)
(* an insert before an entry, the removal of one, the move of a range within *)
(* a list or to another, sorting, clearing; a splice of a range to where it  *)
(* already is changes nothing (ww_list.c:114-260, ww_list.h:477-797).        *)
THEOREM ListsImplementSequences == ListSpec => ListsAreSequences
<1>1. ListInit => ListInv /\ Sequence!Init
  BY ListsInitially
<1>2. ListInv /\ [ListNext]_li_vars => ListInv' /\ [Sequence!Next]_([l \in ListName |-> Content(l)])
  BY ListStep DEF Lists
<1> QED
  BY <1>1, <1>2, PTL DEF ListSpec, ListsAreSequences, Sequence!Spec
-----------------------------------------------------------------------------
(* The allocated sizes that the loop of ww_value_array_set_size goes through. *)
Doubles(w, a, n) == w = [k \in 0 .. n |-> IF k = 0 THEN a ELSE 2 * w[k - 1]]

LEMMA DoublesExists ==
  ASSUME NEW a \in Nat \ {0}, NEW n \in Nat
  PROVE  \E w : Doubles(w, a, n)
<1> DEFINE bad == {m \in Nat : ~\E w : Doubles(w, a, m)}
<1>1. CASE bad = {}
  BY <1>1
<1>2. CASE bad # {}
  <2>1. PICK m \in bad : \A j \in bad : m <= j
    <3>1. bad \in SUBSET Nat
      OBVIOUS
    <3> HIDE DEF bad
    <3> QED
      BY <1>2, <3>1, LeastExists
  <2>2. m \in Nat /\ ~\E w : Doubles(w, a, m)
    BY <2>1
  <2>3. CASE m = 0
    <3> DEFINE v == [k \in 0 .. 0 |-> a]
    <3>1. v = [k \in 0 .. 0 |-> IF k = 0 THEN a ELSE 2 * v[k - 1]]
      OBVIOUS
    <3> QED
      BY <2>2, <2>3, <3>1 DEF Doubles
  <2>4. CASE m # 0
    <3>1. m - 1 \in Nat /\ m - 1 \notin bad
      <4>1. m - 1 \in Nat /\ ~(m <= m - 1)
        BY <2>2, <2>4
      <4> HIDE DEF bad
      <4> QED
        BY <2>1, <4>1
    <3>2. PICK w : Doubles(w, a, m - 1)
      BY <3>1
    <3> DEFINE v == [k \in 0 .. m |-> IF k < m THEN w[k] ELSE 2 * w[m - 1]]
    <3>3. ASSUME NEW k \in 0 .. m PROVE v[k] = IF k = 0 THEN a ELSE 2 * v[k - 1]
      <4>1. CASE k = 0
        BY <2>2, <2>4, <3>1, <3>2, <4>1 DEF Doubles
      <4>2. CASE k # 0 /\ k < m
        <5>1. k - 1 \in 0 .. m - 1 /\ k \in 0 .. m - 1 /\ k - 1 \in 0 .. m /\ k - 1 < m
          BY <2>2, <4>2
        <5>2. w[k] = 2 * w[k - 1]
          BY <3>2, <4>2, <5>1 DEF Doubles
        <5> QED
          BY <4>2, <5>1, <5>2
      <4>3. CASE k = m
        <5>1. m - 1 \in 0 .. m /\ m - 1 < m /\ ~(m < m)
          BY <2>2, <3>1
        <5> QED
          BY <2>4, <4>3, <5>1
      <4> QED
        BY <2>2, <4>1, <4>2, <4>3
    <3>4. Doubles(v, a, m)
      <4>1. v = [k \in 0 .. m |-> v[k]]
        OBVIOUS
      <4> HIDE DEF v
      <4> QED
        BY <3>3, <4>1, Zenon DEF Doubles
    <3> QED
      BY <2>2, <3>4
  <2> QED
    BY <2>3, <2>4
<1> QED
  BY <1>1, <1>2

LEMMA DoublesGrows ==
  ASSUME NEW a \in Nat \ {0}, NEW n \in Nat, NEW w, Doubles(w, a, n)
  PROVE  \A k \in 0 .. n : w[k] \in Nat /\ w[k] >= a /\ w[k] >= k
<1> DEFINE bad == {k \in Nat : k \in 0 .. n /\ ~(w[k] \in Nat /\ w[k] >= a /\ w[k] >= k + 1)}
<1>1. CASE bad = {}
  BY <1>1
<1>2. CASE bad # {}
  <2>1. PICK m \in bad : \A j \in bad : m <= j
    <3>1. bad \in SUBSET Nat
      OBVIOUS
    <3> HIDE DEF bad
    <3> QED
      BY <1>2, <3>1, LeastExists
  <2>2. m \in 0 .. n /\ ~(w[m] \in Nat /\ w[m] >= a /\ w[m] >= m + 1)
    BY <2>1
  <2>3. w[m] = IF m = 0 THEN a ELSE 2 * w[m - 1]
    BY <2>2 DEF Doubles
  <2>4. m # 0
    BY <2>2, <2>3
  <2>5. m - 1 \notin bad
    <3>1. ~(m <= m - 1)
      BY <2>2
    <3> HIDE DEF bad
    <3> QED
      BY <2>1, <3>1
  <2>6. w[m - 1] \in Nat /\ w[m - 1] >= a /\ w[m - 1] >= m
    BY <2>2, <2>4, <2>5
  <2>7. w[m] = 2 * w[m - 1]
    BY <2>3, <2>4
  <2>8. \A x \in Nat : x >= a /\ x >= m => 2 * x \in Nat /\ 2 * x >= a /\ 2 * x >= m + 1
    BY <2>2, <2>4
  <2> QED
    BY <2>2, <2>6, <2>7, <2>8
<1> QED
  BY <1>1, <1>2

LEMMA DoubledCovers ==
  ASSUME NEW size \in Nat, va_alloc \in Nat \ {0}
  PROVE  Doubled(size) \in Nat /\ Doubled(size) >= size /\ Doubled(size) >= va_alloc
<1> DEFINE alloc == CHOOSE w : Doubles(w, va_alloc, size)
           fits == {k \in 0 .. size : alloc[k] >= size}
           Least(k) == alloc[k] >= size /\ \A j \in 0 .. k - 1 : alloc[j] < size
           times == CHOOSE k \in 0 .. size : Least(k)
<1>1. Doubles(alloc, va_alloc, size)
  BY DoublesExists
<1>2. \A k \in 0 .. size : alloc[k] \in Nat /\ alloc[k] >= va_alloc /\ alloc[k] >= k
  <2> HIDE DEF alloc
  <2> QED
    BY <1>1, DoublesGrows
<1>3. Doubled(size) = alloc[times]
  BY DEF Doubled, Doubles
<1> HIDE DEF alloc
<1>4. \E k \in 0 .. size : Least(k)
  <2>1. size \in fits /\ fits \in SUBSET Nat
    BY <1>2
  <2>2. PICK k \in fits : \A j \in fits : k <= j
    <3> HIDE DEF fits
    <3> QED
      BY <2>1, LeastExists
  <2>3. ASSUME NEW j \in 0 .. k - 1 PROVE alloc[j] < size
    <3>1. j \in 0 .. size /\ ~(k <= j)
      BY <2>2
    <3> QED
      BY <1>2, <2>2, <3>1
  <2> QED
    BY <2>2, <2>3
<1>5. times \in 0 .. size /\ Least(times)
  <2> HIDE DEF Least
  <2> QED
    BY <1>4
<1> HIDE DEF times
<1> QED
  BY <1>2, <1>3, <1>5

(* The memory is there from slot 0 on and covers the size. *)
ValueInv ==
  /\ va_alloc \in Nat \ {0} /\ va_size \in 0 .. va_alloc
  /\ DOMAIN va_items = 0 .. va_alloc - 1 /\ va_items = [i \in 0 .. va_alloc - 1 |-> va_items[i]]

LEMMA AllocCovers ==
  ASSUME ValueInv, NEW size \in Nat
  PROVE  AllocFor(size) \in Nat \ {0} /\ AllocFor(size) >= size /\ AllocFor(size) >= va_alloc
  BY DoubledCovers DEF ValueInv, AllocFor

(* What ElementsKept says of a step. *)
ValuesKept ==
  /\ va_size' <= va_alloc'
  /\ \A i \in 0 .. va_size - 1 :
       \/ i >= va_size' /\ va_did'.op # "remove"
       \/ i = va_did'.index /\ va_did'.op \in {"set", "remove"}
       \/ va_did'.op = "remove" /\ i > va_did'.index /\ va_items'[i - 1] = va_items[i]
       \/ (va_did'.op = "remove" => i < va_did'.index) /\ va_items'[i] = va_items[i]
  /\ va_did'.op = "set" => va_items'[va_did'.index] = va_did'.value

(* What every call that grows the memory leaves in it. *)
LEMMA ResizedKeeps ==
  ASSUME ValueInv, NEW n \in Nat, n >= va_alloc
  PROVE  /\ DOMAIN Resized(n) = 0 .. n - 1
         /\ \A i \in 0 .. va_size - 1 : i \in 0 .. n - 1 /\ Resized(n)[i] = va_items[i]
  BY DEF ValueInv, Resized

LEMMA ValueStep ==
  ASSUME ValueInv, ValueNext
  PROVE  ValueInv' /\ ValuesKept
<1>1. ASSUME NEW n \in 0 .. MaxItems, SetArraySize(n) PROVE ValueInv' /\ ValuesKept
  <2>1. n \in Nat
    BY ValueArrayAssumption
  <2>2. AllocFor(n) \in Nat \ {0} /\ AllocFor(n) >= n /\ AllocFor(n) >= va_alloc
    BY <2>1, AllocCovers
  <2>3. /\ va_items' = Resized(AllocFor(n)) /\ va_alloc' = AllocFor(n) /\ va_size' = n
        /\ va_did' = [op |-> "size", index |-> n, value |-> Junk]
    BY <1>1 DEF SetArraySize, Did
  <2>4. ValueInv'
    BY <2>1, <2>2, <2>3 DEF ValueInv, Resized
  <2>5. ValuesKept
    BY <2>1, <2>2, <2>3, ResizedKeeps DEF ValuesKept
  <2> QED
    BY <2>4, <2>5
<1>2. ASSUME NEW n \in 0 .. MaxItems, Reserve(n) PROVE ValueInv' /\ ValuesKept
  <2>1. n \in Nat /\ n >= va_alloc /\ n # 0 /\ va_size <= n
    BY <1>2, ValueArrayAssumption DEF Reserve, ValueInv
  <2>2. /\ va_items' = Resized(n) /\ va_alloc' = n /\ va_size' = va_size
        /\ va_did' = [op |-> "reserve", index |-> n, value |-> Junk]
    BY <1>2 DEF Reserve, Did
  <2>3. ValueInv'
    BY <2>1, <2>2 DEF ValueInv, Resized
  <2>4. ValuesKept
    BY <2>1, <2>2, ResizedKeeps DEF ValuesKept
  <2> QED
    BY <2>3, <2>4
<1>3. ASSUME NEW i \in Nat
      PROVE  /\ GrowTo(i) \in Nat /\ GrowTo(i) > i /\ GrowTo(i) >= va_size
             /\ AllocFor(GrowTo(i)) \in Nat \ {0} /\ AllocFor(GrowTo(i)) >= GrowTo(i)
             /\ AllocFor(GrowTo(i)) >= va_alloc
  <2>1. GrowTo(i) \in Nat /\ GrowTo(i) > i /\ GrowTo(i) >= va_size
    BY DEF GrowTo, ValueInv
  <2> QED
    BY <2>1, AllocCovers
<1>4. ASSUME NEW i \in 0 .. MaxItems - 1, GetElement(i) PROVE ValueInv' /\ ValuesKept
  <2> DEFINE size == GrowTo(i)
  <2>1. /\ size \in Nat /\ size > i /\ size >= va_size
        /\ AllocFor(size) \in Nat \ {0} /\ AllocFor(size) >= size /\ AllocFor(size) >= va_alloc
    BY <1>3
  <2>2. /\ va_items' = Resized(AllocFor(size)) /\ va_alloc' = AllocFor(size) /\ va_size' = size
        /\ va_did'.op = "get"
    BY <1>4 DEF GetElement, Did
  <2> HIDE DEF size
  <2>3. ValueInv'
    BY <2>1, <2>2 DEF ValueInv, Resized
  <2>4. ValuesKept
    BY <2>1, <2>2, ResizedKeeps DEF ValuesKept
  <2> QED
    BY <2>3, <2>4
<1>5. ASSUME NEW i \in Nat, NEW v, SetElement(i, v) PROVE ValueInv' /\ ValuesKept
  <2> DEFINE size == GrowTo(i)
  <2>1. /\ size \in Nat /\ size > i /\ size >= va_size
        /\ AllocFor(size) \in Nat \ {0} /\ AllocFor(size) >= size /\ AllocFor(size) >= va_alloc
    BY <1>3
  <2>2. /\ va_items' = [Resized(AllocFor(size)) EXCEPT ![i] = v] /\ va_alloc' = AllocFor(size) /\ va_size' = size
        /\ va_did' = [op |-> "set", index |-> i, value |-> v]
    BY <1>5 DEF SetElement, Did
  <2> HIDE DEF size
  <2>3. ValueInv'
    <3> DEFINE r == Resized(AllocFor(size))
    <3>1. DOMAIN r = 0 .. AllocFor(size) - 1
      BY <2>1, ResizedKeeps
    <3> HIDE DEF r
    <3>2. va_items' = [r EXCEPT ![i] = v]
      BY <2>2 DEF r
    <3>3. va_items' = [j \in 0 .. AllocFor(size) - 1 |-> IF j = i THEN v ELSE r[j]]
      BY <3>1, <3>2
    <3> DEFINE new == [j \in 0 .. AllocFor(size) - 1 |-> IF j = i THEN v ELSE r[j]]
    <3>4. new = [j \in 0 .. AllocFor(size) - 1 |-> new[j]] /\ DOMAIN new = 0 .. AllocFor(size) - 1
      OBVIOUS
    <3> HIDE DEF new
    <3>5. va_items' = new
      BY <3>3 DEF new
    <3>6. va_alloc' = AllocFor(size) /\ va_size' = size
      BY <2>2
    <3>7. va_alloc' \in Nat \ {0} /\ va_size' \in 0 .. va_alloc'
      BY <2>1, <3>6
    <3>8. DOMAIN va_items' = 0 .. va_alloc' - 1 /\ va_items' = [j \in 0 .. va_alloc' - 1 |-> va_items'[j]]
      BY <3>4, <3>5, <3>6, Zenon
    <3> QED
      BY <3>7, <3>8 DEF ValueInv
  <2>4. /\ \A j \in 0 .. va_size - 1 : j # i => va_items'[j] = va_items[j]
        /\ va_items'[i] = v
    <3>1. DOMAIN Resized(AllocFor(size)) = 0 .. AllocFor(size) - 1 /\ i \in 0 .. AllocFor(size) - 1
      BY <2>1, ResizedKeeps
    <3>2. \A j \in 0 .. va_size - 1 : j \in 0 .. AllocFor(size) - 1 /\ Resized(AllocFor(size))[j] = va_items[j]
      BY <2>1, ResizedKeeps
    <3> QED
      BY <2>2, <3>1, <3>2
  <2>5. va_did'.op = "set" /\ va_did'.index = i /\ va_did'.value = v
    BY <2>2
  <2> QED
    BY <2>1, <2>2, <2>3, <2>4, <2>5 DEF ValuesKept
<1>6. ASSUME NEW i \in 0 .. MaxItems - 1, RemoveElement(i) PROVE ValueInv' /\ ValuesKept
  <2>1. /\ va_items' = [j \in 0 .. va_alloc - 1 |->
                          IF j \in i .. va_size - 2 THEN va_items[j + 1] ELSE va_items[j]]
        /\ va_alloc' = va_alloc /\ va_size' = va_size - 1 /\ i < va_size
        /\ va_did'.op = "remove" /\ va_did'.index = i
    BY <1>6 DEF RemoveElement, Did, ValueInv
  <2>2. ValueInv'
    BY <2>1 DEF ValueInv
  <2>3. \A j \in 0 .. va_size - 1 : j > i => va_items'[j - 1] = va_items[j]
    BY <2>1 DEF ValueInv
  <2>4. \A j \in 0 .. va_size - 1 : j < i => va_items'[j] = va_items[j]
    BY <2>1 DEF ValueInv
  <2> QED
    BY <2>1, <2>2, <2>3, <2>4 DEF ValuesKept, ValueInv
<1>7. ASSUME NEW v, AppendElement(v) PROVE ValueInv' /\ ValuesKept
  BY <1>5, <1>7 DEF AppendElement, ValueInv
<1> QED
  BY <1>1, <1>2, <1>4, <1>5, <1>6, <1>7, ValueArrayAssumption DEF ValueNext

(* An element stays what it was and where it was, unless the call sets it,   *)
(* cuts it off or removes one before it, and the memory covers the size: for *)
(* every size asked for (ww_value_array.h:75-90, 151-254,                    *)
(* ww_value_array.c:46-66).                                                  *)
THEOREM ValuesStay == ValueSpec => ElementsKept
<1>1. ValueInit => ValueInv
  BY DEF ValueInit, ValueInv
<1>2. ValueInv /\ [ValueNext]_va_vars => ValueInv' /\ [ValuesKept]_va_vars
  BY ValueStep DEF va_vars, ValueInv
<1> QED
  BY <1>1, <1>2, PTL DEF ValueSpec, ElementsKept, ValuesKept
-----------------------------------------------------------------------------
(* The steps from slot i to slot s of n slots, going round. *)
Distance(n, i, s) == IF i <= s THEN s - i ELSE s - i + n

LEMMA DistanceProbes ==
  ASSUME NEW n \in Nat \ {0}, NEW i \in 0 .. n - 1
  PROVE  /\ \A s \in 0 .. n - 1 : /\ Distance(n, i, s) \in 0 .. n - 1
                                  /\ Probe(n, i, Distance(n, i, s)) = s
         /\ \A m \in 0 .. n - 1 : /\ Probe(n, i, m) \in 0 .. n - 1
                                  /\ Distance(n, i, Probe(n, i, m)) = m
  BY DEF Distance, Probe

LEMMA FirstSlotIs ==
  ASSUME NEW n \in Nat \ {0}, NEW i \in 0 .. n - 1, NEW slots \in SUBSET (0 .. n - 1),
         slots # {}
  PROVE  /\ FirstSlot(n, i, slots) \in slots
         /\ \A r \in slots : Distance(n, i, FirstSlot(n, i, slots)) <= Distance(n, i, r)
<1> DEFINE steps == {m \in 0 .. n - 1 : Probe(n, i, m) \in slots}
           first == CHOOSE m \in 0 .. n - 1 : /\ Probe(n, i, m) \in slots
                                       /\ \A l \in 0 .. m - 1 : Probe(n, i, l) \notin slots
<1>1. PICK r \in slots : TRUE
  OBVIOUS
<1>2. Distance(n, i, r) \in steps
  BY DistanceProbes
<1>3. steps \in SUBSET Nat
  OBVIOUS
<1>4. PICK m \in steps : \A l \in steps : m <= l
  <2> HIDE DEF steps
  <2> QED
    BY <1>2, <1>3, LeastExists
<1>5. m \in 0 .. n - 1 /\ Probe(n, i, m) \in slots
  OBVIOUS
<1>6. ASSUME NEW l \in 0 .. m - 1 PROVE Probe(n, i, l) \notin slots
  <2>1. l \in 0 .. n - 1 /\ ~(m <= l)
    BY <1>5
  <2> QED
    BY <1>4, <2>1
<1>7. /\ first \in 0 .. n - 1 /\ Probe(n, i, first) \in slots
      /\ \A l \in 0 .. first - 1 : Probe(n, i, l) \notin slots
  BY <1>5, <1>6
<1>8. FirstSlot(n, i, slots) = Probe(n, i, first)
  BY DEF FirstSlot
<1> HIDE DEF first
<1>9. ASSUME NEW s \in slots PROVE first <= Distance(n, i, s)
  <2>1. Distance(n, i, s) \in 0 .. n - 1 /\ Probe(n, i, Distance(n, i, s)) = s
    BY DistanceProbes
  <2>2. Distance(n, i, s) \notin 0 .. first - 1
    BY <1>7, <2>1
  <2> QED
    BY <1>7, <2>1, <2>2
<1>10. Distance(n, i, Probe(n, i, first)) = first
  BY <1>7, DistanceProbes
<1> QED
  BY <1>7, <1>8, <1>9, <1>10
-----------------------------------------------------------------------------
(* What a slot holds; the steps of a key's probe to a slot. *)
HashElement == {Vacant} \cup {Element(k, v) : k \in HashKey, v \in HashValue}
From(n, key, s) == Distance(n, Home(n, key), s)
IsTable(t, n) == n \in Nat \ {0} /\ t \in [0 .. n - 1 -> HashElement]
(* A key is in one slot at most. *)
Unique(t, n) == \A s, r \in 0 .. n - 1 :
                   t[s].valid /\ t[r].valid /\ t[s].key = t[r].key => s = r
(* No slot between the home of an element and the element is vacant. *)
Reach(t, n) == \A s, r \in 0 .. n - 1 :
                  t[s].valid /\ From(n, t[s].key, r) < From(n, t[s].key, s) => t[r].valid
Sound(t, n) == IsTable(t, n) /\ Unique(t, n) /\ Reach(t, n)
Elements(t) == {t[s] : s \in ValidSlots(t)}

LEMMA ElementTypes ==
  /\ Vacant \in HashElement /\ ~Vacant.valid
  /\ \A e \in HashElement : /\ e.valid \in BOOLEAN
                            /\ e.valid => e.key \in HashKey /\ e.value \in HashValue
                            /\ ~e.valid => e = Vacant
  /\ \A k \in HashKey, v \in HashValue : /\ Element(k, v) \in HashElement /\ Element(k, v).valid
                                         /\ Element(k, v).key = k /\ Element(k, v).value = v
<1>1. Vacant \in HashElement /\ ~Vacant.valid
  BY DEF HashElement, Vacant
<1>2. ASSUME NEW k \in HashKey, NEW v \in HashValue
      PROVE  /\ Element(k, v) \in HashElement /\ Element(k, v).valid
             /\ Element(k, v).key = k /\ Element(k, v).value = v
             /\ Element(k, v).valid \in BOOLEAN
  <2>1. Element(k, v) \in HashElement
    BY DEF HashElement
  <2> QED
    BY <2>1 DEF Element
<1>3. ASSUME NEW e \in HashElement
      PROVE  /\ e.valid \in BOOLEAN
             /\ e.valid => e.key \in HashKey /\ e.value \in HashValue
             /\ ~e.valid => e = Vacant
  <2>1. CASE e = Vacant
    BY <2>1 DEF Vacant
  <2>2. CASE e # Vacant
    <3>1. PICK k \in HashKey, v \in HashValue : e = Element(k, v)
      BY <2>2 DEF HashElement
    <3> QED
      BY <1>2, <3>1
  <2> QED
    BY <2>1, <2>2
<1> QED
  BY <1>1, <1>2, <1>3

LEMMA TableSize ==
  ASSUME NEW t, NEW n, IsTable(t, n)
  PROVE  /\ DOMAIN t = 0 .. n - 1 /\ Capacity(t) = n
         /\ \A s \in 0 .. n - 1 : t[s] \in HashElement
         /\ ValidSlots(t) = {s \in 0 .. n - 1 : t[s].valid}
<1>1. n \in Nat \ {0} /\ DOMAIN t = 0 .. n - 1 /\ \A s \in 0 .. n - 1 : t[s] \in HashElement
  BY DEF IsTable
<1>2. Cardinality(0 .. n - 1) = n
  <2>1. 0 \in Int /\ n - 1 \in Int /\ ~(0 > n - 1)
    BY <1>1
  <2>2. Cardinality(0 .. n - 1) = n - 1 - 0 + 1
    BY <2>1, FS_Interval
  <2> QED
    BY <1>1, <2>2
<1> QED
  BY <1>1, <1>2 DEF Capacity, ValidSlots

LEMMA HomeIsSlot ==
  ASSUME NEW n \in Nat \ {0}, NEW key \in HashKey
  PROVE  Home(n, key) \in 0 .. n - 1
<1>1. HashOf[key] \in Nat
  BY HashAssumption
<1> QED
  BY <1>1 DEF Home

LEMMA FromRange ==
  ASSUME NEW n \in Nat \ {0}, NEW key \in HashKey
  PROVE  /\ \A s \in 0 .. n - 1 : From(n, key, s) \in 0 .. n - 1
         /\ \A s, r \in 0 .. n - 1 : From(n, key, s) = From(n, key, r) => s = r
<1>1. Home(n, key) \in 0 .. n - 1
  BY HomeIsSlot
<1> QED
  BY <1>1 DEF From, Distance

LEMMA SearchFinds ==
  ASSUME NEW t, NEW n, Sound(t, n), NEW key \in HashKey,
         \E s \in 0 .. n - 1 : ~t[s].valid \/ t[s].key = key
  PROVE  /\ Search(t, key) \in 0 .. n - 1
         /\ t[Search(t, key)].valid => t[Search(t, key)].key = key
         /\ \A s \in 0 .. n - 1 : t[s].valid /\ t[s].key = key => s = Search(t, key)
         /\ \A r \in 0 .. n - 1 : From(n, key, r) < From(n, key, Search(t, key)) =>
                                     t[r].valid /\ t[r].key # key
<1> DEFINE slots == {i \in 0 .. n - 1 : ~t[i].valid \/ t[i].key = key}
<1>1. n \in Nat \ {0} /\ DOMAIN t = 0 .. n - 1 /\ Capacity(t) = n
  BY TableSize DEF Sound, IsTable
<1>2. slots \in SUBSET (0 .. n - 1) /\ slots # {}
  OBVIOUS
<1>3. Home(n, key) \in 0 .. n - 1
  BY <1>1, HomeIsSlot
<1>4. Search(t, key) = FirstSlot(n, Home(n, key), slots)
  BY <1>1 DEF Search
<1> DEFINE i == Search(t, key)
<1>5. i \in slots /\ \A r \in slots : From(n, key, i) <= From(n, key, r)
  <2> HIDE DEF slots
  <2> QED
    BY <1>1, <1>2, <1>3, <1>4, FirstSlotIs DEF From
<1>6. i \in 0 .. n - 1 /\ (t[i].valid => t[i].key = key)
  BY <1>5
<1> HIDE DEF i
<1>7. \A s \in 0 .. n - 1 : From(n, key, s) \in 0 .. n - 1
  BY <1>1, FromRange
<1>8. ASSUME NEW r \in 0 .. n - 1, From(n, key, r) < From(n, key, i)
      PROVE  t[r].valid /\ t[r].key # key
  <2>1. r \notin slots
    BY <1>5, <1>6, <1>7, <1>8
  <2> QED
    BY <2>1
<1>9. ASSUME NEW s \in 0 .. n - 1, t[s].valid, t[s].key = key
      PROVE  s = i
  <2>1. s \in slots
    BY <1>9
  <2>2. From(n, key, i) <= From(n, key, s)
    BY <1>5, <2>1
  <2>3. CASE From(n, key, i) < From(n, key, s)
    <3>1. t[i].valid
      BY <1>6, <1>9, <2>3 DEF Sound, Reach
    <3> QED
      BY <1>6, <1>9, <3>1 DEF Sound, Unique
  <2>4. CASE From(n, key, i) = From(n, key, s)
    BY <1>1, <1>6, <2>4, FromRange
  <2> QED
    BY <1>6, <1>7, <2>2, <2>3, <2>4
<1> QED
  BY <1>6, <1>8, <1>9 DEF i

LEMMA PutSound ==
  ASSUME NEW t, NEW n, Sound(t, n), NEW e \in HashElement, e.valid,
         \E s \in 0 .. n - 1 : ~t[s].valid \/ t[s].key = e.key
  PROVE  LET i == Search(t, e.key)
             p == [t EXCEPT ![i] = e]
         IN /\ Sound(p, n)
            /\ ValidSlots(p) = ValidSlots(t) \cup {i}
            /\ Elements(p) = {f \in Elements(t) : f.key # e.key} \cup {e}
<1> DEFINE i == Search(t, e.key)
           p == [t EXCEPT ![i] = e]
<1>1. e.key \in HashKey
  BY ElementTypes
<1>2. /\ i \in 0 .. n - 1
      /\ t[i].valid => t[i].key = e.key
      /\ \A s \in 0 .. n - 1 : t[s].valid /\ t[s].key = e.key => s = i
      /\ \A r \in 0 .. n - 1 : From(n, e.key, r) < From(n, e.key, i) => t[r].valid
  BY <1>1, SearchFinds
<1> HIDE DEF i
<1>3. IsTable(t, n) /\ Unique(t, n) /\ Reach(t, n)
  BY DEF Sound
<1>4. p[i] = e /\ \A s \in 0 .. n - 1 : s # i => p[s] = t[s]
  BY <1>2, <1>3 DEF IsTable
<1>5. IsTable(p, n)
  BY <1>2, <1>3 DEF IsTable
<1> HIDE DEF p
<1>6. Unique(p, n)
  BY <1>2, <1>3, <1>4 DEF Unique
<1>7. Reach(p, n)
  <2> SUFFICES ASSUME NEW s \in 0 .. n - 1, NEW r \in 0 .. n - 1, p[s].valid,
                      From(n, p[s].key, r) < From(n, p[s].key, s)
               PROVE  p[r].valid
    BY DEF Reach
  <2>1. CASE s = i
    BY <1>2, <1>4, <2>1
  <2>2. CASE s # i
    BY <1>2, <1>3, <1>4, <2>2 DEF Reach
  <2> QED
    BY <2>1, <2>2
<1>8. ValidSlots(p) = ValidSlots(t) \cup {i}
  <2>1. ValidSlots(p) = {s \in 0 .. n - 1 : p[s].valid} /\ ValidSlots(t) = {s \in 0 .. n - 1 : t[s].valid}
    BY <1>3, <1>5, TableSize
  <2> QED
    BY <1>2, <1>4, <2>1
<1>9. Elements(p) = {f \in Elements(t) : f.key # e.key} \cup {e}
  <2>1. /\ \A s \in ValidSlots(t) : s \in 0 .. n - 1 /\ t[s].valid
        /\ \A s \in 0 .. n - 1 : t[s].valid => s \in ValidSlots(t)
    BY <1>3, TableSize
  <2>2. ASSUME NEW f \in Elements(p) PROVE f \in {g \in Elements(t) : g.key # e.key} \cup {e}
    <3>1. PICK s \in ValidSlots(p) : f = p[s]
      BY DEF Elements
    <3>2. CASE s = i
      BY <1>4, <3>1, <3>2
    <3>3. CASE s # i
      BY <1>2, <1>4, <1>8, <2>1, <3>1, <3>3 DEF Elements
    <3> QED
      BY <3>2, <3>3
  <2>3. ASSUME NEW f \in Elements(t), f.key # e.key PROVE f \in Elements(p)
    <3>1. PICK s \in ValidSlots(t) : f = t[s]
      BY DEF Elements
    <3>2. s # i
      BY <1>2, <2>1, <2>3, <3>1
    <3> QED
      BY <1>4, <1>8, <2>1, <3>1, <3>2 DEF Elements
  <2>4. e \in Elements(p)
    BY <1>4, <1>8 DEF Elements
  <2> QED
    BY <2>2, <2>3, <2>4
<1> QED
  BY <1>6, <1>5, <1>7, <1>8, <1>9 DEF i, p, Sound

LEMMA PutAbsent ==
  ASSUME NEW t, NEW n, Sound(t, n), NEW e \in HashElement, e.valid,
         NEW u \in 0 .. n - 1, ~t[u].valid,
         \A s \in 0 .. n - 1 : t[s].valid => t[s].key # e.key
  PROVE  LET p == [t EXCEPT ![Search(t, e.key)] = e]
         IN /\ Sound(p, n)
            /\ Cardinality(ValidSlots(p)) = Cardinality(ValidSlots(t)) + 1
            /\ Elements(p) = Elements(t) \cup {e}
<1> DEFINE i == Search(t, e.key)
           p == [t EXCEPT ![i] = e]
<1>1. /\ Sound(p, n) /\ ValidSlots(p) = ValidSlots(t) \cup {i}
      /\ Elements(p) = {f \in Elements(t) : f.key # e.key} \cup {e}
  BY PutSound
<1>2. i \in 0 .. n - 1 /\ (t[i].valid => t[i].key = e.key)
  <2>1. e.key \in HashKey
    BY ElementTypes
  <2> QED
    BY <2>1, SearchFinds
<1>3. ValidSlots(t) = {s \in 0 .. n - 1 : t[s].valid} /\ n \in Nat
  BY TableSize DEF Sound, IsTable
<1> HIDE DEF i, p
<1>4. i \notin ValidSlots(t)
  BY <1>2, <1>3
<1>5. IsFiniteSet(ValidSlots(t))
  <2>1. IsFiniteSet(0 .. n - 1)
    BY <1>3, FS_Interval
  <2>2. ValidSlots(t) \subseteq 0 .. n - 1
    BY <1>3
  <2> QED
    BY <2>1, <2>2, FS_Subset
<1>6. Cardinality(ValidSlots(t) \cup {i}) = Cardinality(ValidSlots(t)) + 1
  BY <1>4, <1>5, FS_AddElement
<1>7. {f \in Elements(t) : f.key # e.key} = Elements(t)
  BY <1>3 DEF Elements
<1> QED
  BY <1>1, <1>6, <1>7 DEF i, p
-----------------------------------------------------------------------------

(* What the loops of ww_hash_grow and ww_hash_table_remove_elt_at compute, up *)
(* to their round x.                                                         *)
RehashUpTo(w, t, m, x) ==
  w = [i \in 0 .. x |-> IF i = 0 THEN [j \in 0 .. m - 1 |-> Vacant] ELSE Placed(w[i - 1], t[i - 1])]
ScanUpTo(w, t, c, s, x) ==
  w = [k \in 0 .. x |-> IF k = 0 THEN [table |-> t, ended |-> FALSE]
                         ELSE Scanned(w[k - 1], Probe(c, s, k))]

LEMMA RehashesUpTo ==
  ASSUME NEW t, NEW m, NEW n \in Nat
  PROVE  \E w : RehashUpTo(w, t, m, n)
<1> DEFINE Is(w, x) == RehashUpTo(w, t, m, x)
           bad == {x \in Nat : ~\E w : Is(w, x)}
<1>1. CASE bad = {}
  BY <1>1
<1>2. CASE bad # {}
  <2>1. PICK x \in bad : \A y \in bad : x <= y
    <3>1. bad \in SUBSET Nat
      OBVIOUS
    <3> HIDE DEF bad
    <3> QED
      BY <1>2, <3>1, LeastExists
  <2>2. x \in Nat /\ ~\E w : Is(w, x)
    BY <2>1
  <2>3. CASE x = 0
    <3> DEFINE v == [i \in 0 .. 0 |-> [j \in 0 .. m - 1 |-> Vacant]]
    <3>1. v = [i \in 0 .. 0 |->
           IF i = 0 THEN [j \in 0 .. m - 1 |-> Vacant] ELSE Placed(v[i - 1], t[i - 1])]
      OBVIOUS
    <3> QED
      BY <2>2, <2>3, <3>1 DEF RehashUpTo
  <2>4. CASE x # 0
    <3>1. x - 1 \in Nat /\ x - 1 \notin bad
      <4>1. x - 1 \in Nat /\ ~(x <= x - 1)
        BY <2>2, <2>4
      <4> HIDE DEF bad
      <4> QED
        BY <2>1, <4>1
    <3>2. PICK w : Is(w, x - 1)
      BY <3>1
    <3> DEFINE v == [i \in 0 .. x |-> IF i < x THEN w[i] ELSE Placed(w[x - 1], t[x - 1])]
    <3>3. ASSUME NEW i \in 0 .. x
          PROVE v[i] = IF i = 0 THEN [j \in 0 .. m - 1 |-> Vacant] ELSE Placed(v[i - 1], t[i - 1])
      <4>1. CASE i = 0
        <5>1. i < x /\ i \in 0 .. x - 1
          BY <2>2, <2>4, <4>1
        <5>2. w[i] = [j \in 0 .. m - 1 |-> Vacant]
          BY <3>2, <4>1, <5>1 DEF RehashUpTo
        <5> QED
          BY <4>1, <5>1, <5>2
      <4>2. CASE i # 0 /\ i < x
        <5>1. i - 1 \in 0 .. x - 1 /\ i \in 0 .. x - 1 /\ i - 1 \in 0 .. x /\ i - 1 < x
          BY <2>2, <4>2
        <5>2. w[i] = Placed(w[i - 1], t[i - 1])
          BY <3>2, <4>2, <5>1 DEF RehashUpTo
        <5> QED
          BY <4>2, <5>1, <5>2
      <4>3. CASE i = x
        <5>1. x - 1 \in 0 .. x /\ x - 1 < x /\ ~(x < x)
          BY <2>2, <3>1
        <5> QED
          BY <2>4, <4>3, <5>1
      <4> QED
        BY <2>2, <4>1, <4>2, <4>3
    <3>4. Is(v, x)
      BY <3>3 DEF RehashUpTo
    <3> HIDE DEF v
    <3> QED
      BY <2>2, <3>4
  <2> QED
    BY <2>3, <2>4
<1> QED
  BY <1>1, <1>2

LEMMA ScansUpTo ==
  ASSUME NEW t, NEW s, NEW c, NEW n \in Nat
  PROVE  \E w : ScanUpTo(w, t, c, s, n)
<1> DEFINE Is(w, x) == ScanUpTo(w, t, c, s, x)
           bad == {x \in Nat : ~\E w : Is(w, x)}
<1>1. CASE bad = {}
  BY <1>1
<1>2. CASE bad # {}
  <2>1. PICK x \in bad : \A y \in bad : x <= y
    <3>1. bad \in SUBSET Nat
      OBVIOUS
    <3> HIDE DEF bad
    <3> QED
      BY <1>2, <3>1, LeastExists
  <2>2. x \in Nat /\ ~\E w : Is(w, x)
    BY <2>1
  <2>3. CASE x = 0
    <3> DEFINE v == [k \in 0 .. 0 |-> [table |-> t, ended |-> FALSE]]
    <3>1. v = [k \in 0 .. 0 |->
             IF k = 0 THEN [table |-> t, ended |-> FALSE] ELSE Scanned(v[k - 1], Probe(c, s, k))]
      OBVIOUS
    <3> QED
      BY <2>2, <2>3, <3>1 DEF ScanUpTo
  <2>4. CASE x # 0
    <3>1. x - 1 \in Nat /\ x - 1 \notin bad
      <4>1. x - 1 \in Nat /\ ~(x <= x - 1)
        BY <2>2, <2>4
      <4> HIDE DEF bad
      <4> QED
        BY <2>1, <4>1
    <3>2. PICK w : Is(w, x - 1)
      BY <3>1
    <3> DEFINE v == [k \in 0 .. x |-> IF k < x THEN w[k] ELSE Scanned(w[x - 1], Probe(c, s, x))]
    <3>3. ASSUME NEW k \in 0 .. x
          PROVE v[k] = IF k = 0 THEN [table |-> t, ended |-> FALSE]
                       ELSE Scanned(v[k - 1], Probe(c, s, k))
      <4>1. CASE k = 0
        <5>1. k < x /\ k \in 0 .. x - 1
          BY <2>2, <2>4, <4>1
        <5>2. w[k] = [table |-> t, ended |-> FALSE]
          BY <3>2, <4>1, <5>1 DEF ScanUpTo
        <5> QED
          BY <4>1, <5>1, <5>2
      <4>2. CASE k # 0 /\ k < x
        <5>1. k - 1 \in 0 .. x - 1 /\ k \in 0 .. x - 1 /\ k - 1 \in 0 .. x /\ k - 1 < x
          BY <2>2, <4>2
        <5>2. w[k] = Scanned(w[k - 1], Probe(c, s, k))
          BY <3>2, <4>2, <5>1 DEF ScanUpTo
        <5> QED
          BY <4>2, <5>1, <5>2
      <4>3. CASE k = x
        <5>1. x - 1 \in 0 .. x /\ x - 1 < x /\ ~(x < x)
          BY <2>2, <3>1
        <5> QED
          BY <2>4, <4>3, <5>1
      <4> QED
        BY <2>2, <4>1, <4>2, <4>3
    <3>4. Is(v, x)
      BY <3>3 DEF ScanUpTo
    <3> HIDE DEF v
    <3> QED
      BY <2>2, <3>4
  <2> QED
    BY <2>3, <2>4
<1> QED
  BY <1>1, <1>2

LEMMA RehashedIs ==
  ASSUME NEW t, NEW n, IsTable(t, n), NEW m
  PROVE  \E w : RehashUpTo(w, t, m, n) /\ Rehashed(t, m) = w[n]
<1> DEFINE f == CHOOSE w : w = [i \in 0 .. Capacity(t) |->
                     IF i = 0 THEN [j \in 0 .. m - 1 |-> Vacant] ELSE Placed(w[i - 1], t[i - 1])]
<1>1. Capacity(t) = n /\ n \in Nat
  BY TableSize DEF IsTable
<1>2. \E w : RehashUpTo(w, t, m, Capacity(t))
  BY <1>1, RehashesUpTo
<1>3. RehashUpTo(f, t, m, Capacity(t))
  BY <1>2 DEF RehashUpTo
<1>4. Rehashed(t, m) = f[Capacity(t)]
  BY DEF Rehashed
<1> HIDE DEF f
<1> QED
  BY <1>1, <1>3, <1>4

LEMMA ReinsertIs ==
  ASSUME NEW t, NEW n, IsTable(t, n), NEW s
  PROVE  \E w : ScanUpTo(w, t, n, s, n - 1) /\ Reinsert(t, s) = w[n - 1].table
<1> DEFINE f == CHOOSE w : w = [k \in 0 .. Capacity(t) - 1 |->
                     IF k = 0 THEN [table |-> t, ended |-> FALSE]
                     ELSE Scanned(w[k - 1], Probe(Capacity(t), s, k))]
<1>1. Capacity(t) = n /\ n - 1 \in Nat
  <2>1. Capacity(t) = n /\ n \in Nat \ {0}
    BY TableSize DEF IsTable
  <2> QED
    BY <2>1
<1>2. \E w : ScanUpTo(w, t, Capacity(t), s, Capacity(t) - 1)
  BY <1>1, ScansUpTo
<1>3. ScanUpTo(f, t, Capacity(t), s, Capacity(t) - 1)
  BY <1>2 DEF ScanUpTo
<1>4. Reinsert(t, s) = f[Capacity(t) - 1].table
  BY DEF Reinsert
<1> HIDE DEF f
<1> QED
  BY <1>1, <1>3, <1>4
-----------------------------------------------------------------------------
LEMMA ValidFinite ==
  ASSUME NEW t, NEW n, IsTable(t, n)
  PROVE  /\ IsFiniteSet(ValidSlots(t)) /\ Cardinality(ValidSlots(t)) \in Nat
         /\ Cardinality(ValidSlots(t)) # n => \E u \in 0 .. n - 1 : ~t[u].valid
<1>1. n \in Nat /\ ValidSlots(t) = {s \in 0 .. n - 1 : t[s].valid} /\ Capacity(t) = n /\ DOMAIN t = 0 .. n - 1
  BY TableSize DEF IsTable
<1>2. IsFiniteSet(0 .. n - 1)
  BY <1>1, FS_Interval
<1>3. ValidSlots(t) \subseteq 0 .. n - 1
  BY <1>1
<1>4. IsFiniteSet(ValidSlots(t)) /\ Cardinality(ValidSlots(t)) \in Nat
  BY <1>2, <1>3, FS_Subset, FS_CardinalityType
<1>5. ASSUME ~\E u \in 0 .. n - 1 : ~t[u].valid PROVE Cardinality(ValidSlots(t)) = n
  <2>1. ValidSlots(t) = 0 .. n - 1
    BY <1>1, <1>5
  <2> QED
    BY <1>1, <2>1 DEF Capacity
<1> QED
  BY <1>4, <1>5

LEMMA EmptySound ==
  ASSUME NEW n \in Nat \ {0}
  PROVE  LET t == [j \in 0 .. n - 1 |-> Vacant]
         IN Sound(t, n) /\ ValidSlots(t) = {} /\ Elements(t) = {}
<1> DEFINE t == [j \in 0 .. n - 1 |-> Vacant]
<1>1. \A s \in 0 .. n - 1 : ~t[s].valid
  BY ElementTypes
<1>2. IsTable(t, n)
  BY ElementTypes DEF IsTable
<1>3. ValidSlots(t) = {}
  BY <1>1 DEF ValidSlots
<1> HIDE DEF t
<1> QED
  BY <1>1, <1>2, <1>3 DEF t, Sound, Unique, Reach, Elements
-----------------------------------------------------------------------------
Moved(t, x) == {j \in ValidSlots(t) : j < x}
(* The elements of the slots below x are in the new table. *)
Rebuilt(new, t, m, x) ==
  /\ Sound(new, m)
  /\ Elements(new) = {t[j] : j \in Moved(t, x)}
  /\ Cardinality(ValidSlots(new)) = Cardinality(Moved(t, x))

LEMMA RehashRound ==
  ASSUME NEW t, NEW n, IsTable(t, n), Unique(t, n), NEW m \in Nat, m > n,
         NEW new, NEW x \in 0 .. n - 1, Rebuilt(new, t, m, x)
  PROVE  Rebuilt(Placed(new, t[x]), t, m, x + 1)
<1>4. /\ Sound(new, m) /\ Elements(new) = {t[j] : j \in Moved(t, x)}
      /\ Cardinality(ValidSlots(new)) = Cardinality(Moved(t, x))
  BY DEF Rebuilt
<1>1. /\ n \in Nat /\ ValidSlots(t) = {s \in 0 .. n - 1 : t[s].valid}
      /\ \A s \in 0 .. n - 1 : t[s] \in HashElement
  BY TableSize DEF IsTable
<1>2. CASE ~t[x].valid
  <2>1. Moved(t, x + 1) = Moved(t, x)
    BY <1>1, <1>2 DEF Moved
  <2>2. Placed(new, t[x]) = new
    BY <1>2 DEF Placed
  <2> QED
    BY <1>4, <2>1, <2>2 DEF Rebuilt
<1>3. CASE t[x].valid
  <2>1. Moved(t, x + 1) = Moved(t, x) \cup {x} /\ x \notin Moved(t, x)
    BY <1>1, <1>3 DEF Moved
  <2>2. IsFiniteSet(Moved(t, x)) /\ Cardinality(Moved(t, x)) \in Nat /\ Cardinality(Moved(t, x)) <= x
    <3>1. Moved(t, x) \subseteq 0 .. x - 1
      BY <1>1 DEF Moved
    <3>2. IsFiniteSet(0 .. x - 1) /\ Cardinality(0 .. x - 1) = x
      <4>1. 0 \in Int /\ x - 1 \in Int
        BY <1>1
      <4>2. IsFiniteSet(0 .. x - 1) /\ Cardinality(0 .. x - 1) = IF 0 > x - 1 THEN 0 ELSE x - 1 - 0 + 1
        BY <4>1, FS_Interval
      <4> QED
        BY <1>1, <4>2
    <3>3. IsFiniteSet(Moved(t, x)) /\ Cardinality(Moved(t, x)) <= Cardinality(0 .. x - 1)
      BY <3>1, <3>2, FS_Subset
    <3> QED
      BY <3>2, <3>3, FS_CardinalityType
  <2>3. PICK u \in 0 .. m - 1 : ~new[u].valid
    <3>1. Cardinality(ValidSlots(new)) # m
      BY <1>1, <1>4, <2>2
    <3> QED
      BY <1>4, <3>1, ValidFinite DEF Sound
  <2>4. ASSUME NEW s \in 0 .. m - 1, new[s].valid PROVE new[s].key # t[x].key
    <3>1. s \in ValidSlots(new)
      BY <1>4, <2>4, TableSize DEF Sound
    <3>2. PICK j \in Moved(t, x) : new[s] = t[j]
      BY <1>4, <3>1 DEF Elements
    <3>3. j \in 0 .. n - 1 /\ t[j].valid /\ j # x
      BY <1>1, <3>2 DEF Moved
    <3> QED
      BY <1>3, <3>2, <3>3 DEF Unique
  <2> DEFINE p == [new EXCEPT ![Search(new, t[x].key)] = t[x]]
  <2>5. /\ Sound(p, m)
        /\ Cardinality(ValidSlots(p)) = Cardinality(ValidSlots(new)) + 1
        /\ Elements(p) = Elements(new) \cup {t[x]}
    BY <1>1, <1>3, <1>4, <2>3, <2>4, PutAbsent
  <2>6. Placed(new, t[x]) = p
    BY <1>3 DEF Placed
  <2> HIDE DEF p
  <2>7. Cardinality(Moved(t, x) \cup {x}) = Cardinality(Moved(t, x)) + 1
    BY <2>1, <2>2, FS_AddElement
  <2>8. {t[j] : j \in Moved(t, x + 1)} = {t[j] : j \in Moved(t, x)} \cup {t[x]}
    BY <2>1
  <2> QED
    BY <1>4, <2>1, <2>5, <2>6, <2>7, <2>8 DEF Rebuilt
<1> QED
  BY <1>2, <1>3

LEMMA RehashSound ==
  ASSUME NEW t, NEW n, IsTable(t, n), Unique(t, n), NEW m \in Nat, m > n
  PROVE  /\ Sound(Rehashed(t, m), m)
         /\ Elements(Rehashed(t, m)) = Elements(t)
         /\ Cardinality(ValidSlots(Rehashed(t, m))) = Cardinality(ValidSlots(t))
<1>1. PICK w : RehashUpTo(w, t, m, n) /\ Rehashed(t, m) = w[n]
  BY RehashedIs
<1>2. n \in Nat \ {0} /\ m \in Nat \ {0} /\ ValidSlots(t) = {s \in 0 .. n - 1 : t[s].valid}
  <2>1. n \in Nat \ {0} /\ ValidSlots(t) = {s \in 0 .. n - 1 : t[s].valid}
    BY TableSize DEF IsTable
  <2> QED
    BY <2>1
<1>3. w[0] = [j \in 0 .. m - 1 |-> Vacant] /\ \A x \in 1 .. n : w[x] = Placed(w[x - 1], t[x - 1])
  BY <1>1, <1>2 DEF RehashUpTo
<1> DEFINE Right(x) == Rebuilt(w[x], t, m, x)
           bad == {x \in 0 .. n : ~Right(x)}
<1>4. CASE bad # {}
  <2>1. PICK x \in bad : \A y \in bad : x <= y
    <3>1. bad \in SUBSET Nat
      BY <1>2
    <3> HIDE DEF bad
    <3> QED
      BY <1>4, <3>1, LeastExists
  <2>2. x \in 0 .. n /\ ~Right(x)
    BY <2>1
  <2>3. CASE x = 0
    <3>1. Sound(w[0], m) /\ ValidSlots(w[0]) = {} /\ Elements(w[0]) = {}
      BY <1>2, <1>3, EmptySound
    <3>2. Moved(t, 0) = {}
      BY <1>2 DEF Moved
    <3>3. {t[j] : j \in Moved(t, 0)} = {}
      BY <3>2
    <3> QED
      BY <2>2, <2>3, <3>1, <3>2, <3>3 DEF Rebuilt
  <2>4. CASE x # 0
    <3>1. x - 1 \in 0 .. n - 1 /\ x - 1 \in 0 .. n /\ ~(x <= x - 1) /\ x \in 1 .. n
      BY <1>2, <2>2, <2>4
    <3>2. Right(x - 1)
      BY <2>1, <3>1
    <3>4. x - 1 + 1 = x
      BY <2>2
    <3>5. Rebuilt(Placed(w[x - 1], t[x - 1]), t, m, x - 1 + 1)
      BY <3>1, <3>2, RehashRound
    <3>6. w[x] = Placed(w[x - 1], t[x - 1])
      BY <1>3, <3>1
    <3>7. Right(x)
      BY <3>4, <3>5, <3>6
    <3> HIDE DEF Right
    <3> QED
      BY <2>2, <3>7
  <2> QED
    BY <2>3, <2>4
<1>5. CASE bad = {}
  <2>1. Right(n)
    BY <1>2, <1>5
  <2>2. Moved(t, n) = ValidSlots(t)
    BY <1>2 DEF Moved
  <2> QED
    BY <1>1, <2>1, <2>2 DEF Elements, Rebuilt
<1> QED
  BY <1>4, <1>5
-----------------------------------------------------------------------------
(* Going round from i, a path from H to s that passes the slot h before j    *)
(* and ends after j passes j; one that ends before j and passes j passes all *)
(* that comes after j.                                                       *)
LEMMA PathGoesOn ==
  ASSUME NEW n \in Nat, NEW i \in 0 .. n - 1, NEW H \in 0 .. n - 1, NEW s \in 0 .. n - 1,
         NEW h \in 0 .. n - 1, NEW j \in 0 .. n - 1,
         Distance(n, H, h) < Distance(n, H, s),
         Distance(n, i, h) < Distance(n, i, j), Distance(n, i, j) < Distance(n, i, s)
  PROVE  Distance(n, H, j) < Distance(n, H, s)
  BY DEF Distance

LEMMA PathComesRound ==
  ASSUME NEW n \in Nat, NEW i \in 0 .. n - 1, NEW H \in 0 .. n - 1, NEW s \in 0 .. n - 1,
         NEW u \in 0 .. n - 1, NEW j \in 0 .. n - 1,
         Distance(n, H, j) < Distance(n, H, s),
         Distance(n, i, s) < Distance(n, i, j), Distance(n, i, j) < Distance(n, i, u)
  PROVE  Distance(n, H, u) < Distance(n, H, s)
  BY DEF Distance

(* While the scan is k slots past i: h is the gap, and u a slot that was     *)
(* vacant before; no element between i and the scan has the gap on its way.  *)
ReachBut(w, n, h) ==
  \A s, r \in 0 .. n - 1 :
     w[s].valid /\ From(n, w[s].key, r) < From(n, w[s].key, s) => w[r].valid \/ r = h
GapAt(w, t, n, i, u, h, k) ==
  /\ IsTable(w, n) /\ Unique(w, n) /\ ReachBut(w, n, h)
  /\ h \in 0 .. n - 1 /\ ~w[h].valid /\ Distance(n, i, h) <= k /\ k < Distance(n, i, u)
  /\ \A r \in 0 .. n - 1 : k < Distance(n, i, r) => w[r] = t[r]
  /\ \A s \in 0 .. n - 1 : w[s].valid /\ Distance(n, i, s) <= k =>
                             ~(From(n, w[s].key, h) < From(n, w[s].key, s))
Same(w, t) ==
  /\ Elements(w) = Elements(t)
  /\ Cardinality(ValidSlots(w)) = Cardinality(ValidSlots(t))

LEMMA ScanEnds ==
  ASSUME NEW w, NEW t, NEW n, NEW i \in 0 .. n - 1, NEW u \in 0 .. n - 1, NEW h, NEW k \in Nat,
         GapAt(w, t, n, i, u, h, k), NEW j \in 0 .. n - 1, Distance(n, i, j) = k + 1, ~w[j].valid
  PROVE  Sound(w, n)
<1>1. /\ IsTable(w, n) /\ Unique(w, n) /\ ReachBut(w, n, h)
      /\ h \in 0 .. n - 1 /\ ~w[h].valid /\ Distance(n, i, h) <= k
      /\ \A s \in 0 .. n - 1 : w[s].valid /\ Distance(n, i, s) <= k =>
                             ~(From(n, w[s].key, h) < From(n, w[s].key, s))
  BY DEF GapAt
<1>2. n \in Nat \ {0} /\ \A s \in 0 .. n - 1 : w[s].valid => w[s].key \in HashKey
  BY <1>1, ElementTypes, TableSize DEF IsTable
<1>3. \A s \in 0 .. n - 1 : Distance(n, i, s) \in 0 .. n - 1 /\ (Distance(n, i, s) = Distance(n, i, j) => s = j)
  BY <1>2 DEF Distance
<1>4. SUFFICES ASSUME NEW s \in 0 .. n - 1, w[s].valid, From(n, w[s].key, h) < From(n, w[s].key, s)
               PROVE  FALSE
  BY <1>1 DEF Sound, Reach, ReachBut
<1>5. k + 1 < Distance(n, i, s)
  <2>1. ~(Distance(n, i, s) <= k) /\ s # j
    BY <1>1, <1>4
  <2>2. Distance(n, i, s) # k + 1
    BY <1>3, <2>1
  <2> QED
    BY <1>3, <2>1, <2>2
<1>6. Home(n, w[s].key) \in 0 .. n - 1
  BY <1>2, <1>4, HomeIsSlot
<1>7. From(n, w[s].key, j) < From(n, w[s].key, s)
  <2>1. Distance(n, i, h) < Distance(n, i, j) /\ Distance(n, i, j) < Distance(n, i, s)
    BY <1>1, <1>3, <1>5
  <2> QED
    BY <1>1, <1>2, <1>4, <1>6, <2>1, PathGoesOn DEF From
<1>8. j # h
  <2>1. Distance(n, i, h) # k + 1
    BY <1>1, <1>3
  <2> QED
    BY <2>1
<1> QED
  BY <1>1, <1>4, <1>7, <1>8 DEF ReachBut

MovedTo(w, h, j) == [w EXCEPT ![h] = w[j], ![j] = Vacant]
Emptied(t, i) == [t EXCEPT ![i] = Vacant]

LEMMA MoveDown ==
  ASSUME NEW w, NEW n, NEW h \in 0 .. n - 1, NEW j \in 0 .. n - 1,
         IsTable(w, n), Unique(w, n), w[j].valid, ~w[h].valid
  PROVE  /\ IsTable(MovedTo(w, h, j), n) /\ Unique(MovedTo(w, h, j), n) /\ Same(MovedTo(w, h, j), w)
         /\ MovedTo(w, h, j)[h] = w[j] /\ MovedTo(w, h, j)[j] = Vacant
         /\ \A s \in 0 .. n - 1 : s # h /\ s # j => MovedTo(w, h, j)[s] = w[s]
<1> DEFINE m == MovedTo(w, h, j)
<1>1. h # j
  OBVIOUS
<1>2. n \in Nat /\ ValidSlots(w) = {s \in 0 .. n - 1 : w[s].valid} /\ w \in [0 .. n - 1 -> HashElement]
  BY TableSize DEF IsTable
<1>3. m[h] = w[j] /\ m[j] = Vacant /\ \A s \in 0 .. n - 1 : s # h /\ s # j => m[s] = w[s]
  BY <1>1, <1>2 DEF MovedTo
<1>4. IsTable(m, n)
  <2>1. w[j] \in HashElement /\ Vacant \in HashElement
    BY <1>2, ElementTypes
  <2>2. m \in [0 .. n - 1 -> HashElement]
    BY <1>2, <2>1 DEF MovedTo
  <2> QED
    BY <2>2 DEF IsTable
<1> HIDE DEF m
<1>5. ~m[j].valid
  BY <1>3, ElementTypes
<1>6. Unique(m, n)
  BY <1>1, <1>3, <1>5 DEF Unique
<1>7. ValidSlots(m) = {s \in 0 .. n - 1 : m[s].valid}
  BY <1>4, TableSize
<1>8. ValidSlots(m) = (ValidSlots(w) \ {j}) \cup {h} /\ h \notin ValidSlots(w) \ {j} /\ j \in ValidSlots(w)
  BY <1>2, <1>3, <1>5, <1>7
<1>9. Elements(m) = Elements(w)
  <2>1. ASSUME NEW e \in Elements(m) PROVE e \in Elements(w)
    <3>1. PICK s \in ValidSlots(m) : e = m[s]
      BY DEF Elements
    <3>2. CASE s = h
      BY <1>3, <1>8, <3>1, <3>2 DEF Elements
    <3>3. CASE s # h
      <4>1. s \in 0 .. n - 1 /\ s # j /\ s \in ValidSlots(w)
        BY <1>2, <1>8, <3>3
      <4> QED
        BY <1>3, <3>1, <3>3, <4>1 DEF Elements
    <3> QED
      BY <3>2, <3>3
  <2>2. ASSUME NEW e \in Elements(w) PROVE e \in Elements(m)
    <3>1. PICK s \in ValidSlots(w) : e = w[s]
      BY DEF Elements
    <3>2. CASE s = j
      BY <1>3, <1>8, <3>1, <3>2 DEF Elements
    <3>3. CASE s # j
      <4>1. s \in 0 .. n - 1 /\ s # h /\ s \in ValidSlots(m)
        BY <1>2, <1>8, <3>3
      <4> QED
        BY <1>3, <3>1, <3>3, <4>1 DEF Elements
    <3> QED
      BY <3>2, <3>3
  <2> QED
    BY <2>1, <2>2
<1>10. Cardinality(ValidSlots(m)) = Cardinality(ValidSlots(w))
  <2>1. IsFiniteSet(ValidSlots(w)) /\ Cardinality(ValidSlots(w)) \in Nat
    BY ValidFinite
  <2>2. IsFiniteSet(ValidSlots(w) \ {j}) /\ Cardinality(ValidSlots(w) \ {j}) = Cardinality(ValidSlots(w)) - 1
    BY <1>8, <2>1, FS_RemoveElement
  <2>3. Cardinality((ValidSlots(w) \ {j}) \cup {h}) = Cardinality(ValidSlots(w) \ {j}) + 1
    BY <1>8, <2>2, FS_AddElement
  <2> QED
    BY <1>8, <2>1, <2>2, <2>3
<1> QED
  BY <1>3, <1>4, <1>6, <1>9, <1>10 DEF m, Same

LEMMA ScanRound ==
  ASSUME NEW w, NEW t, NEW n, NEW i \in 0 .. n - 1, NEW u \in 0 .. n - 1, NEW h, NEW k \in Nat,
         GapAt(w, t, n, i, u, h, k), ~t[u].valid,
         NEW j \in 0 .. n - 1, Distance(n, i, j) = k + 1, w[j].valid
  PROVE  /\ Same(MovedDown(w, j), w)
         /\ \E g : GapAt(MovedDown(w, j), t, n, i, u, g, k + 1)
<1>1. /\ IsTable(w, n) /\ Unique(w, n) /\ ReachBut(w, n, h)
      /\ h \in 0 .. n - 1 /\ ~w[h].valid /\ Distance(n, i, h) <= k /\ k < Distance(n, i, u)
      /\ \A r \in 0 .. n - 1 : k < Distance(n, i, r) => w[r] = t[r]
      /\ \A s \in 0 .. n - 1 : w[s].valid /\ Distance(n, i, s) <= k =>
                             ~(From(n, w[s].key, h) < From(n, w[s].key, s))
  BY DEF GapAt
<1>2. n \in Nat \ {0} /\ \A s \in 0 .. n - 1 : w[s].valid => w[s].key \in HashKey
  BY <1>1, ElementTypes, TableSize DEF IsTable
<1>3. /\ \A s \in 0 .. n - 1 : Distance(n, i, s) \in 0 .. n - 1
      /\ \A s, r \in 0 .. n - 1 : Distance(n, i, s) = Distance(n, i, r) => s = r
  BY <1>2 DEF Distance
<1>4. /\ ~w[u].valid /\ u # h /\ u # j /\ k + 1 < Distance(n, i, u) /\ Distance(n, i, h) < Distance(n, i, j)
      /\ Distance(n, i, u) \in 0 .. n - 1 /\ Distance(n, i, h) \in 0 .. n - 1
  <2>1. w[u] = t[u]
    BY <1>1
  <2>2. u # j
    BY <2>1
  <2>3. Distance(n, i, u) \in 0 .. n - 1 /\ Distance(n, i, h) \in 0 .. n - 1 /\ Distance(n, i, u) # k + 1
    BY <1>1, <1>3, <2>2
  <2> QED
    BY <1>1, <2>1, <2>2, <2>3
<1> DEFINE K == w[j].key
           slots == {s \in 0 .. n - 1 : s = j \/ ~w[s].valid}
           to == FirstSlot(n, Home(n, K), slots)
<1>5. K \in HashKey /\ Home(n, K) \in 0 .. n - 1
  BY <1>2, HomeIsSlot
<1>6. to \in slots /\ \A r \in slots : From(n, K, to) <= From(n, K, r)
  <2>1. slots \in SUBSET (0 .. n - 1) /\ slots # {}
    OBVIOUS
  <2> HIDE DEF slots, K
  <2> QED
    BY <1>2, <1>5, <2>1, FirstSlotIs DEF From
<1>7. MovedDown(w, j) = IF to = j THEN w ELSE [w EXCEPT ![to] = w[j], ![j] = Vacant]
  <2>1. DOMAIN w = 0 .. n - 1 /\ Capacity(w) = n
    BY <1>1, TableSize
  <2> QED
    BY <2>1 DEF MovedDown
<1>8. to \in 0 .. n - 1 /\ (to = j \/ ~w[to].valid) /\ From(n, K, to) <= From(n, K, j)
      /\ From(n, K, to) <= From(n, K, h)
  BY <1>1, <1>6
<1> HIDE DEF to, slots
<1>9. \A s \in 0 .. n - 1 : From(n, K, s) \in 0 .. n - 1
  BY <1>2, <1>5, FromRange
<1>10. CASE to = j
  <2>1. MovedDown(w, j) = w
    BY <1>7, <1>10
  <2>2. ~(From(n, K, h) < From(n, K, j))
    BY <1>1, <1>8, <1>9, <1>10
  <2>3. ASSUME NEW s \in 0 .. n - 1, w[s].valid, Distance(n, i, s) <= k + 1
        PROVE  ~(From(n, w[s].key, h) < From(n, w[s].key, s))
    <3>1. CASE s = j
      BY <2>2, <3>1
    <3>2. CASE s # j
      <4>1. Distance(n, i, s) # k + 1 /\ Distance(n, i, s) \in 0 .. n - 1
        BY <1>3, <3>2
      <4>2. Distance(n, i, s) <= k
        BY <2>3, <4>1
      <4> QED
        BY <1>1, <2>3, <4>2
    <3> QED
      BY <3>1, <3>2
  <2>4. \A r \in 0 .. n - 1 : k + 1 < Distance(n, i, r) => w[r] = t[r]
    <3>1. ASSUME NEW r \in 0 .. n - 1, k + 1 < Distance(n, i, r) PROVE k < Distance(n, i, r)
      BY <1>3, <3>1
    <3> QED
      BY <1>1, <3>1
  <2>5. Distance(n, i, h) <= k + 1
    BY <1>1, <1>4
  <2>6. GapAt(w, t, n, i, u, h, k + 1)
    BY <1>1, <1>4, <2>3, <2>4, <2>5 DEF GapAt
  <2> QED
    BY <2>1, <2>6 DEF Same
<1>11. CASE to # j
  <2>1. to = h
    <3>1. From(n, K, to) # From(n, K, j)
      BY <1>2, <1>5, <1>8, <1>11, FromRange
    <3>2. From(n, K, to) < From(n, K, j)
      BY <1>8, <1>9, <3>1
    <3> QED
      BY <1>1, <1>8, <1>11, <3>2 DEF ReachBut
  <2> DEFINE m == MovedTo(w, h, j)
  <2>2. MovedDown(w, j) = m
    BY <1>7, <1>11, <2>1 DEF MovedTo
  <2>3. /\ IsTable(m, n) /\ Unique(m, n) /\ Same(m, w)
        /\ m[h] = w[j] /\ m[j] = Vacant /\ \A s \in 0 .. n - 1 : s # h /\ s # j => m[s] = w[s]
    <3>1. h \in 0 .. n - 1 /\ IsTable(w, n) /\ Unique(w, n) /\ ~w[h].valid /\ w[j].valid
      BY <1>1
    <3>2. IsTable(m, n) /\ Unique(m, n) /\ Same(m, w) /\ m[h] = w[j] /\ m[j] = Vacant
      BY <3>1, MoveDown
    <3>3. ASSUME NEW s \in 0 .. n - 1, s # h, s # j PROVE m[s] = w[s]
      BY <3>1, <3>3 DEF MovedTo, IsTable
    <3> QED
      BY <3>2, <3>3
  <2> HIDE DEF m
  <2>4. ~m[j].valid /\ h # j /\ m[h].valid /\ m[h].key = K
    BY <1>1, <2>3, ElementTypes
  <2>5. From(n, K, h) < From(n, K, j)
    <3>1. From(n, K, h) # From(n, K, j)
      BY <1>1, <1>2, <1>5, <2>4, FromRange
    <3> QED
      BY <1>1, <1>8, <1>9, <2>1, <3>1
  <2>6. ASSUME NEW s \in 0 .. n - 1, NEW r \in 0 .. n - 1, m[s].valid,
               From(n, m[s].key, r) < From(n, m[s].key, s)
        PROVE  m[r].valid \/ r = j
    <3>1. w[r].valid \/ r = h
      <4>1. CASE s = h
        <5>1. From(n, K, r) < From(n, K, h)
          BY <2>4, <2>6, <4>1
        <5>2. From(n, K, r) < From(n, K, j)
          BY <1>1, <1>9, <2>5, <5>1
        <5> QED
          BY <1>1, <5>2 DEF ReachBut
      <4>2. CASE s # h
        <5>1. s # j
          BY <2>4, <2>6
        <5>2. m[s] = w[s]
          BY <2>3, <4>2, <5>1
        <5> QED
          BY <1>1, <2>6, <5>2 DEF ReachBut
      <4> QED
        BY <4>1, <4>2
    <3> QED
      BY <2>3, <2>4, <3>1
  <2>7. ReachBut(m, n, j)
    BY <2>6 DEF ReachBut
  <2>8. ASSUME NEW r \in 0 .. n - 1, k + 1 < Distance(n, i, r) PROVE m[r] = t[r]
    <3>1. k < Distance(n, i, r) /\ Distance(n, i, r) # Distance(n, i, j) /\ Distance(n, i, r) # Distance(n, i, h)
      BY <1>1, <1>3, <1>4, <2>8
    <3> QED
      BY <1>1, <2>3, <3>1
  <2>9. ASSUME NEW s \in 0 .. n - 1, m[s].valid, Distance(n, i, s) <= k + 1,
               From(n, m[s].key, j) < From(n, m[s].key, s)
        PROVE  FALSE
    <3>1. CASE s = h
      <4>1. From(n, K, j) < From(n, K, h)
        BY <2>4, <2>9, <3>1
      <4> QED
        BY <1>1, <1>9, <2>5, <4>1
    <3>2. CASE s # h
      <4>1. s # j
        BY <2>4, <2>9
      <4>2. m[s] = w[s]
        BY <2>3, <3>2, <4>1
      <4>3. Distance(n, i, s) < Distance(n, i, j) /\ Distance(n, i, j) < Distance(n, i, u)
        <5>1. Distance(n, i, s) # k + 1 /\ Distance(n, i, s) \in 0 .. n - 1
          BY <1>3, <4>1
        <5> QED
          BY <1>4, <2>9, <5>1
      <4>4. Home(n, w[s].key) \in 0 .. n - 1
        BY <1>2, <2>9, <4>2, HomeIsSlot
      <4>5. From(n, w[s].key, u) < From(n, w[s].key, s)
        BY <1>2, <2>9, <4>2, <4>3, <4>4, PathComesRound DEF From
      <4> QED
        BY <1>1, <1>4, <2>9, <4>2, <4>5 DEF ReachBut
    <3> QED
      BY <3>1, <3>2
  <2>10. Distance(n, i, j) <= k + 1
    OBVIOUS
  <2>11. GapAt(m, t, n, i, u, j, k + 1)
    BY <1>4, <2>3, <2>4, <2>7, <2>8, <2>9, <2>10 DEF GapAt
  <2> QED
    BY <2>2, <2>3, <2>11
<1> QED
  BY <1>10, <1>11

LEMMA GapOpens ==
  ASSUME NEW t, NEW n, Sound(t, n), NEW i \in 0 .. n - 1, t[i].valid,
         NEW u \in 0 .. n - 1, ~t[u].valid
  PROVE  /\ GapAt(Emptied(t, i), Emptied(t, i), n, i, u, i, 0) /\ ~Emptied(t, i)[u].valid
         /\ Elements(Emptied(t, i)) = {e \in Elements(t) : e.key # t[i].key}
         /\ Cardinality(ValidSlots(Emptied(t, i))) = Cardinality(ValidSlots(t)) - 1
<1> DEFINE g == Emptied(t, i)
<1>1. IsTable(t, n) /\ Unique(t, n) /\ Reach(t, n)
  BY DEF Sound
<1>2. n \in Nat /\ ValidSlots(t) = {s \in 0 .. n - 1 : t[s].valid} /\ t \in [0 .. n - 1 -> HashElement]
  BY <1>1, TableSize DEF IsTable
<1>3. g[i] = Vacant /\ ~g[i].valid /\ (\A s \in 0 .. n - 1 : s # i => g[s] = t[s]) /\ u # i
  BY <1>2, ElementTypes DEF Emptied
<1>4. IsTable(g, n)
  BY <1>1, <1>2, ElementTypes DEF IsTable, Emptied
<1> HIDE DEF g
<1>5. Unique(g, n)
  BY <1>1, <1>3 DEF Unique
<1>6. ReachBut(g, n, i)
  <2> SUFFICES ASSUME NEW s \in 0 .. n - 1, NEW r \in 0 .. n - 1, g[s].valid,
                      From(n, g[s].key, r) < From(n, g[s].key, s)
               PROVE  g[r].valid \/ r = i
    BY DEF ReachBut
  <2>1. s # i /\ g[s] = t[s]
    BY <1>3
  <2> QED
    BY <1>1, <1>3, <2>1 DEF Reach
<1>7. /\ Distance(n, i, i) <= 0 /\ 0 < Distance(n, i, u)
      /\ \A s \in 0 .. n - 1 : Distance(n, i, s) <= 0 => s = i
  BY <1>2, <1>3 DEF Distance
<1>8. GapAt(g, g, n, i, u, i, 0)
  BY <1>3, <1>4, <1>5, <1>6, <1>7 DEF GapAt
<1>9. ValidSlots(g) = ValidSlots(t) \ {i} /\ i \in ValidSlots(t)
  <2>1. ValidSlots(g) = {s \in 0 .. n - 1 : g[s].valid}
    BY <1>4, TableSize
  <2> QED
    BY <1>2, <1>3, <2>1
<1>10. Elements(g) = {e \in Elements(t) : e.key # t[i].key}
  <2>1. ASSUME NEW e \in Elements(g) PROVE e \in Elements(t) /\ e.key # t[i].key
    <3>1. PICK s \in ValidSlots(g) : e = g[s]
      BY DEF Elements
    <3>2. s \in ValidSlots(t) /\ s \in 0 .. n - 1 /\ t[s].valid /\ s # i /\ e = t[s]
      BY <1>2, <1>3, <1>9, <3>1
    <3> QED
      BY <1>1, <3>2 DEF Elements, Unique
  <2>2. ASSUME NEW e \in Elements(t), e.key # t[i].key PROVE e \in Elements(g)
    <3>1. PICK s \in ValidSlots(t) : e = t[s]
      BY DEF Elements
    <3>2. s \in ValidSlots(g) /\ s \in 0 .. n - 1 /\ s # i
      BY <1>2, <1>9, <2>2, <3>1
    <3>3. g[s] = e
      BY <1>3, <3>1, <3>2
    <3> QED
      BY <3>2, <3>3 DEF Elements
  <2> QED
    BY <2>1, <2>2
<1>11. Cardinality(ValidSlots(g)) = Cardinality(ValidSlots(t)) - 1
  <2>1. IsFiniteSet(ValidSlots(t))
    BY <1>1, ValidFinite
  <2> QED
    BY <1>9, <2>1, FS_RemoveElement
<1> QED
  BY <1>1, <1>3, <1>8, <1>10, <1>11 DEF g

(* A round of the scan: either the gap is open, or the scan has ended. *)
Scanning(was, t, n, i, u, k) ==
  /\ Same(was.table, t)
  /\ \/ ~was.ended /\ \E h : GapAt(was.table, t, n, i, u, h, k)
     \/ was.ended /\ Sound(was.table, n)

LEMMA ScanKeeps ==
  ASSUME NEW was, NEW t, NEW n \in Nat \ {0}, NEW i \in 0 .. n - 1, NEW u \in 0 .. n - 1, NEW k \in Nat,
         Scanning(was, t, n, i, u, k), ~t[u].valid, k + 1 <= n - 1
  PROVE  Scanning(Scanned(was, Probe(n, i, k + 1)), t, n, i, u, k + 1)
<1> DEFINE j == Probe(n, i, k + 1)
<1>1. j \in 0 .. n - 1 /\ Distance(n, i, j) = k + 1
  <2>1. k + 1 \in 0 .. n - 1
    OBVIOUS
  <2> QED
    BY <2>1, DistanceProbes
<1> HIDE DEF j
<1>2. CASE was.ended
  <2>1. Scanned(was, j) = [table |-> was.table, ended |-> TRUE]
    BY <1>2 DEF Scanned
  <2> QED
    BY <1>2, <2>1 DEF Scanning, j
<1>3. CASE ~was.ended /\ ~was.table[j].valid
  <2>1. Scanned(was, j) = [table |-> was.table, ended |-> TRUE]
    BY <1>3 DEF Scanned
  <2>2. PICK h : GapAt(was.table, t, n, i, u, h, k)
    BY <1>3 DEF Scanning
  <2>3. Sound(was.table, n)
    BY <1>1, <1>3, <2>2, ScanEnds
  <2> QED
    BY <2>1, <2>3 DEF Scanning, j
<1>4. CASE ~was.ended /\ was.table[j].valid
  <2>1. Scanned(was, j) = [table |-> MovedDown(was.table, j), ended |-> FALSE]
    BY <1>4 DEF Scanned
  <2>2. PICK h : GapAt(was.table, t, n, i, u, h, k)
    BY <1>4 DEF Scanning
  <2>3. /\ Same(MovedDown(was.table, j), was.table)
        /\ \E g : GapAt(MovedDown(was.table, j), t, n, i, u, g, k + 1)
    BY <1>1, <1>4, <2>2, ScanRound
  <2> QED
    BY <2>1, <2>3 DEF Scanning, Same, j
<1> QED
  BY <1>2, <1>3, <1>4

LEMMA ReinsertSound ==
  ASSUME NEW t, NEW n, Sound(t, n), NEW i \in 0 .. n - 1, t[i].valid,
         NEW u \in 0 .. n - 1, ~t[u].valid
  PROVE  /\ Sound(Reinsert(Emptied(t, i), i), n)
         /\ Elements(Reinsert(Emptied(t, i), i)) = {e \in Elements(t) : e.key # t[i].key}
         /\ Cardinality(ValidSlots(Reinsert(Emptied(t, i), i))) = Cardinality(ValidSlots(t)) - 1
<1> DEFINE g == Emptied(t, i)
<1>1. /\ GapAt(g, g, n, i, u, i, 0) /\ ~g[u].valid
      /\ Elements(g) = {e \in Elements(t) : e.key # t[i].key}
      /\ Cardinality(ValidSlots(g)) = Cardinality(ValidSlots(t)) - 1
  BY GapOpens
<1> HIDE DEF g
<1>2. PICK w : ScanUpTo(w, g, n, i, n - 1) /\ Reinsert(g, i) = w[n - 1].table
  BY <1>1, ReinsertIs DEF GapAt
<1>3. n \in Nat \ {0}
  BY DEF Sound, IsTable
<1>4. w[0] = [table |-> g, ended |-> FALSE] /\ \A x \in 1 .. n - 1 : w[x] = Scanned(w[x - 1], Probe(n, i, x))
  <2>1. 0 \in 0 .. n - 1
    BY <1>3
  <2>2. w[0] = [table |-> g, ended |-> FALSE]
    BY <1>2, <2>1 DEF ScanUpTo
  <2>3. ASSUME NEW x \in 1 .. n - 1 PROVE w[x] = Scanned(w[x - 1], Probe(n, i, x))
    <3>1. x \in 0 .. n - 1 /\ x # 0
      BY <1>3
    <3> QED
      BY <1>2, <3>1 DEF ScanUpTo
  <2> QED
    BY <2>2, <2>3
<1> DEFINE bad == {x \in 0 .. n - 1 : ~Scanning(w[x], g, n, i, u, x)}
<1>5. CASE bad # {}
  <2>1. PICK x \in bad : \A y \in bad : x <= y
    <3>1. bad \in SUBSET Nat
      BY <1>3
    <3> HIDE DEF bad
    <3> QED
      BY <1>5, <3>1, LeastExists
  <2>2. x \in 0 .. n - 1 /\ ~Scanning(w[x], g, n, i, u, x)
    BY <2>1
  <2>3. CASE x = 0
    BY <1>1, <1>4, <2>2, <2>3 DEF Scanning, Same
  <2>4. CASE x # 0
    <3>1. x - 1 \in 0 .. n - 1 /\ ~(x <= x - 1) /\ x \in 1 .. n - 1 /\ x - 1 \in Nat
          /\ x - 1 + 1 = x /\ x - 1 + 1 <= n - 1
      BY <1>3, <2>2, <2>4
    <3>2. Scanning(w[x - 1], g, n, i, u, x - 1)
      BY <2>1, <3>1
    <3>3. Scanning(Scanned(w[x - 1], Probe(n, i, x - 1 + 1)), g, n, i, u, x - 1 + 1)
      BY <1>1, <1>3, <3>1, <3>2, ScanKeeps
    <3> QED
      BY <1>4, <2>2, <3>1, <3>3
  <2> QED
    BY <2>3, <2>4
<1>6. CASE bad = {}
  <2>1. Scanning(w[n - 1], g, n, i, u, n - 1)
    BY <1>3, <1>6
  <2>2. Distance(n, i, u) \in 0 .. n - 1
    BY <1>3, DistanceProbes
  <2>3. ~\E h : GapAt(w[n - 1].table, g, n, i, u, h, n - 1)
    BY <1>3, <2>2 DEF GapAt
  <2>4. Sound(w[n - 1].table, n) /\ Same(w[n - 1].table, g)
    BY <2>1, <2>3 DEF Scanning
  <2> QED
    BY <1>1, <1>2, <2>4 DEF Same, g
<1> QED
  BY <1>5, <1>6
-----------------------------------------------------------------------------
(* The map of a table's elements. *)
LEMMA ContentsAt ==
  ASSUME NEW t, NEW n, IsTable(t, n), Unique(t, n)
  PROVE  /\ DOMAIN Contents(t) = {e.key : e \in Elements(t)}
         /\ Contents(t) = [k \in DOMAIN Contents(t) |-> Contents(t)[k]]
         /\ \A e \in Elements(t) : Contents(t)[e.key] = e.value
<1>1. /\ \A s \in ValidSlots(t) : s \in 0 .. n - 1 /\ t[s].valid
  BY TableSize
<1>2. DOMAIN Contents(t) = {t[s].key : s \in ValidSlots(t)}
  BY DEF Contents
<1>3. {t[s].key : s \in ValidSlots(t)} = {e.key : e \in Elements(t)}
  BY DEF Elements
<1>4. ASSUME NEW s \in ValidSlots(t) PROVE Contents(t)[t[s].key] = t[s].value
  <2>1. \A r \in ValidSlots(t) : t[r].key = t[s].key => r = s
    BY <1>1 DEF Unique
  <2>2. (CHOOSE r \in ValidSlots(t) : t[r].key = t[s].key) = s
    BY <2>1
  <2>3. Contents(t)[t[s].key] = t[CHOOSE r \in ValidSlots(t) : t[r].key = t[s].key].value
    BY DEF Contents
  <2> QED
    BY <2>2, <2>3
<1>5. \A e \in Elements(t) : Contents(t)[e.key] = e.value
  BY <1>4 DEF Elements
<1>6. Contents(t) = [k \in DOMAIN Contents(t) |-> Contents(t)[k]]
  BY DEF Contents
<1> QED
  BY <1>2, <1>3, <1>5, <1>6

WithKey(f, key, v) == [j \in DOMAIN f \cup {key} |-> IF j = key THEN v ELSE f[j]]
WithoutKey(f, key) == [j \in DOMAIN f \ {key} |-> f[j]]

LEMMA ContentsPut ==
  ASSUME NEW t, NEW n, IsTable(t, n), Unique(t, n), NEW p, NEW m, IsTable(p, m), Unique(p, m),
         NEW e, Elements(p) = {f \in Elements(t) : f.key # e.key} \cup {e}
  PROVE  Contents(p) = WithKey(Contents(t), e.key, e.value)
<1>1. /\ DOMAIN Contents(t) = {f.key : f \in Elements(t)}
      /\ \A f \in Elements(t) : Contents(t)[f.key] = f.value
  BY ContentsAt
<1>2. /\ DOMAIN Contents(p) = {f.key : f \in Elements(p)}
      /\ Contents(p) = [k \in DOMAIN Contents(p) |-> Contents(p)[k]]
      /\ \A f \in Elements(p) : Contents(p)[f.key] = f.value
  BY ContentsAt
<1>3. DOMAIN Contents(p) = DOMAIN Contents(t) \cup {e.key}
  BY <1>1, <1>2
<1>4. ASSUME NEW j \in DOMAIN Contents(p)
      PROVE  Contents(p)[j] = IF j = e.key THEN e.value ELSE Contents(t)[j]
  <2>1. PICK f \in Elements(p) : j = f.key
    BY <1>2
  <2>2. Contents(p)[j] = f.value
    BY <1>2, <2>1
  <2>3. CASE f = e
    BY <2>1, <2>2, <2>3
  <2>4. CASE f # e
    <3>1. f \in Elements(t) /\ f.key # e.key
      BY <2>4
    <3> QED
      BY <1>1, <2>1, <2>2, <3>1
  <2> QED
    BY <2>3, <2>4
<1> QED
  BY <1>2, <1>3, <1>4 DEF WithKey, WithoutKey

LEMMA ContentsCut ==
  ASSUME NEW t, NEW n, IsTable(t, n), Unique(t, n), NEW p, NEW m, IsTable(p, m), Unique(p, m),
         NEW key, Elements(p) = {f \in Elements(t) : f.key # key}
  PROVE  Contents(p) = WithoutKey(Contents(t), key)
<1>1. /\ DOMAIN Contents(t) = {f.key : f \in Elements(t)}
      /\ \A f \in Elements(t) : Contents(t)[f.key] = f.value
  BY ContentsAt
<1>2. /\ DOMAIN Contents(p) = {f.key : f \in Elements(p)}
      /\ Contents(p) = [k \in DOMAIN Contents(p) |-> Contents(p)[k]]
      /\ \A f \in Elements(p) : Contents(p)[f.key] = f.value
  BY ContentsAt
<1>3. DOMAIN Contents(p) = DOMAIN Contents(t) \ {key}
  BY <1>1, <1>2
<1>4. ASSUME NEW j \in DOMAIN Contents(p)
      PROVE  Contents(p)[j] = Contents(t)[j]
  <2>1. PICK f \in Elements(p) : j = f.key
    BY <1>2
  <2>2. Contents(p)[j] = f.value /\ f \in Elements(t)
    BY <1>2, <2>1
  <2> QED
    BY <1>1, <2>1, <2>2
<1> QED
  BY <1>2, <1>3, <1>4 DEF WithKey, WithoutKey

LEMMA SearchReads ==
  ASSUME NEW t, NEW n, Sound(t, n), NEW key \in HashKey, NEW u \in 0 .. n - 1, ~t[u].valid
  PROVE  /\ Search(t, key) \in 0 .. n - 1
         /\ t[Search(t, key)].valid <=> key \in DOMAIN Contents(t)
         /\ t[Search(t, key)].valid => t[Search(t, key)].value = Contents(t)[key]
         /\ t[Search(t, key)].valid => t[Search(t, key)].key = key
<1> DEFINE i == Search(t, key)
<1>1. /\ i \in 0 .. n - 1 /\ (t[i].valid => t[i].key = key)
      /\ \A s \in 0 .. n - 1 : t[s].valid /\ t[s].key = key => s = i
  BY SearchFinds
<1> HIDE DEF i
<1>2. /\ DOMAIN Contents(t) = {f.key : f \in Elements(t)}
      /\ \A f \in Elements(t) : Contents(t)[f.key] = f.value
  BY ContentsAt DEF Sound
<1>3. ValidSlots(t) = {s \in 0 .. n - 1 : t[s].valid}
  BY TableSize DEF Sound
<1>4. ASSUME t[i].valid PROVE t[i] \in Elements(t)
  BY <1>1, <1>3, <1>4 DEF Elements
<1>5. ASSUME key \in DOMAIN Contents(t) PROVE t[i].valid
  <2>1. PICK f \in Elements(t) : key = f.key
    BY <1>2, <1>5
  <2>2. PICK s \in ValidSlots(t) : f = t[s]
    BY DEF Elements
  <2> QED
    BY <1>1, <1>3, <2>1, <2>2
<1> QED
  BY <1>1, <1>2, <1>4, <1>5 DEF i
-----------------------------------------------------------------------------
(* The traversal. *)
NextAfter(t, a) == IF a = -1 THEN -1 ELSE NextElement(t, a)
VisitUpTo(w, t, x) ==
  w = [k \in 0 .. x |-> IF k = 0 THEN NextElement(t, -1) ELSE NextAfter(t, w[k - 1])]

LEMMA VisitsUpTo ==
  ASSUME NEW t, NEW n \in Nat
  PROVE  \E w : VisitUpTo(w, t, n)
<1> DEFINE Is(w, x) == VisitUpTo(w, t, x)
           bad == {x \in Nat : ~\E w : Is(w, x)}
<1>1. CASE bad = {}
  BY <1>1
<1>2. CASE bad # {}
  <2>1. PICK x \in bad : \A y \in bad : x <= y
    <3>1. bad \in SUBSET Nat
      OBVIOUS
    <3> HIDE DEF bad
    <3> QED
      BY <1>2, <3>1, LeastExists
  <2>2. x \in Nat /\ ~\E w : Is(w, x)
    BY <2>1
  <2>3. CASE x = 0
    <3> DEFINE v == [k \in 0 .. 0 |-> NextElement(t, -1)]
    <3>1. v = [k \in 0 .. 0 |->
             IF k = 0 THEN NextElement(t, -1) ELSE NextAfter(t, v[k - 1])]
      OBVIOUS
    <3> QED
      BY <2>2, <2>3, <3>1 DEF VisitUpTo
  <2>4. CASE x # 0
    <3>1. x - 1 \in Nat /\ x - 1 \notin bad
      <4>1. x - 1 \in Nat /\ ~(x <= x - 1)
        BY <2>2, <2>4
      <4> HIDE DEF bad
      <4> QED
        BY <2>1, <4>1
    <3>2. PICK w : Is(w, x - 1)
      BY <3>1
    <3> DEFINE v == [k \in 0 .. x |-> IF k < x THEN w[k] ELSE NextAfter(t, w[x - 1])]
    <3>3. ASSUME NEW k \in 0 .. x
          PROVE v[k] = IF k = 0 THEN NextElement(t, -1)
                       ELSE NextAfter(t, v[k - 1])
      <4>1. CASE k = 0
        <5>1. k < x /\ k \in 0 .. x - 1
          BY <2>2, <2>4, <4>1
        <5>2. w[k] = NextElement(t, -1)
          BY <3>2, <4>1, <5>1 DEF VisitUpTo
        <5> QED
          BY <4>1, <5>1, <5>2
      <4>2. CASE k # 0 /\ k < x
        <5>1. k - 1 \in 0 .. x - 1 /\ k \in 0 .. x - 1 /\ k - 1 \in 0 .. x /\ k - 1 < x
          BY <2>2, <4>2
        <5>2. w[k] = NextAfter(t, w[k - 1])
          BY <3>2, <4>2, <5>1 DEF VisitUpTo
        <5> QED
          BY <4>2, <5>1, <5>2
      <4>3. CASE k = x
        <5>1. x - 1 \in 0 .. x /\ x - 1 < x /\ ~(x < x)
          BY <2>2, <3>1
        <5> QED
          BY <2>4, <4>3, <5>1
      <4> QED
        BY <2>2, <4>1, <4>2, <4>3
    <3>4. Is(v, x)
      BY <3>3 DEF VisitUpTo
    <3> HIDE DEF v
    <3> QED
      BY <2>2, <3>4
  <2> QED
    BY <2>3, <2>4
<1> QED
  BY <1>1, <1>2

LEMMA VisitedIs ==
  ASSUME NEW t, NEW n \in Nat
  PROVE  \E w : VisitUpTo(w, t, n) /\ Visited(t, n) = {w[m] : m \in 0 .. n} \ {-1}
<1> DEFINE f == CHOOSE w : w = [m \in 0 .. n |-> IF m = 0 THEN NextElement(t, -1)
                              ELSE IF w[m - 1] = -1 THEN -1 ELSE NextElement(t, w[m - 1])]
<1>1. \E w : VisitUpTo(w, t, n)
  BY VisitsUpTo
<1>2. VisitUpTo(f, t, n)
  BY <1>1 DEF VisitUpTo, NextAfter
<1>3. Visited(t, n) = {f[m] : m \in 0 .. n} \ {-1}
  BY DEF Visited
<1> HIDE DEF f
<1> QED
  BY <1>2, <1>3

LEMMA NextElementIs ==
  ASSUME NEW t, NEW n, IsTable(t, n), NEW i \in Int, -1 <= i
  PROVE  \/ /\ NextElement(t, i) = -1
            /\ \A s \in ValidSlots(t) : s <= i
         \/ /\ NextElement(t, i) \in ValidSlots(t) /\ i < NextElement(t, i)
            /\ \A s \in ValidSlots(t) : s <= i \/ NextElement(t, i) <= s
<1> DEFINE later == {j \in DOMAIN t : j > i /\ t[j].valid}
<1>1. n \in Nat /\ DOMAIN t = 0 .. n - 1 /\ ValidSlots(t) = {s \in 0 .. n - 1 : t[s].valid}
  BY TableSize DEF IsTable
<1>2. \A s : s \in later <=> s \in ValidSlots(t) /\ i < s
  BY <1>1
<1>3. \A s \in ValidSlots(t) : s \in Nat
  BY <1>1
<1>4. CASE later = {}
  <2>1. NextElement(t, i) = -1
    BY <1>4 DEF NextElement
  <2> HIDE DEF later
  <2> QED
    BY <1>2, <1>3, <1>4, <2>1
<1>5. CASE later # {}
  <2>1. NextElement(t, i) = CHOOSE j \in later : \A k \in later : j <= k
    BY <1>5 DEF NextElement
  <2> HIDE DEF later
  <2>2. later \in SUBSET Nat
    BY <1>2, <1>3
  <2>3. NextElement(t, i) \in later /\ \A k \in later : NextElement(t, i) <= k
    BY <1>5, <2>1, <2>2, LeastExists
  <2> QED
    BY <1>2, <1>3, <2>3
<1> QED
  BY <1>4, <1>5

(* The slots S visited in rounds 0 .. x, of which a is the last one. *)
UpTo(t, a) == {s \in ValidSlots(t) : s <= a}
Seen(S, a, t, x) ==
  /\ S \subseteq ValidSlots(t) \cup {-1}
  /\ \/ a = -1 /\ ValidSlots(t) \subseteq S
     \/ a \in ValidSlots(t) /\ S = UpTo(t, a) /\ Cardinality(UpTo(t, a)) = x + 1

LEMMA ValidNat ==
  ASSUME NEW t, NEW n, IsTable(t, n)
  PROVE  \A s \in ValidSlots(t) : s \in Nat
<1>1. n \in Nat /\ ValidSlots(t) = {s \in 0 .. n - 1 : t[s].valid}
  BY TableSize DEF IsTable
<1> QED
  BY <1>1

LEMMA SeenFirst ==
  ASSUME NEW t, NEW n, IsTable(t, n)
  PROVE  Seen({NextElement(t, -1)}, NextElement(t, -1), t, 0)
<1> DEFINE b == NextElement(t, -1)
<1>1. \A s \in ValidSlots(t) : s \in Nat
  BY ValidNat
<1>2. \/ b = -1 /\ \A s \in ValidSlots(t) : s <= -1
      \/ /\ b \in ValidSlots(t) /\ -1 < b
         /\ \A s \in ValidSlots(t) : s <= -1 \/ b <= s
  <2>1. -1 \in Int /\ -1 <= -1
    OBVIOUS
  <2> QED
    BY <2>1, NextElementIs
<1> HIDE DEF b
<1>3. CASE b = -1 /\ \A s \in ValidSlots(t) : s <= -1
  <2>1. ValidSlots(t) = {}
    BY <1>1, <1>3
  <2> QED
    BY <1>3, <2>1 DEF Seen, b
<1>4. CASE b \in ValidSlots(t) /\ \A s \in ValidSlots(t) : s <= -1 \/ b <= s
  <2>1. UpTo(t, b) = {b}
    BY <1>1, <1>4 DEF UpTo
  <2>2. Cardinality({b}) = 1
    BY FS_Singleton
  <2> QED
    BY <1>4, <2>1, <2>2 DEF Seen, b
<1> QED
  BY <1>2, <1>3, <1>4

LEMMA SeenNext ==
  ASSUME NEW t, NEW n, IsTable(t, n), NEW S, NEW a, NEW x \in Nat, Seen(S, a, t, x)
  PROVE  Seen(S \cup {NextAfter(t, a)}, NextAfter(t, a), t, x + 1)
<1> DEFINE b == NextAfter(t, a)
<1>1. \A s \in ValidSlots(t) : s \in Nat
  BY ValidNat
<1>2. CASE a = -1 /\ ValidSlots(t) \subseteq S
  <2>1. NextAfter(t, a) = -1
    BY <1>2 DEF NextAfter
  <2> QED
    BY <1>2, <2>1 DEF Seen
<1>3. CASE a \in ValidSlots(t) /\ S = UpTo(t, a) /\ Cardinality(UpTo(t, a)) = x + 1
  <2>1. b = NextElement(t, a) /\ a \in Int /\ -1 <= a
    BY <1>1, <1>3 DEF NextAfter
  <2>2. \/ b = -1 /\ \A s \in ValidSlots(t) : s <= a
        \/ /\ b \in ValidSlots(t) /\ a < b
           /\ \A s \in ValidSlots(t) : s <= a \/ b <= s
    BY <2>1, NextElementIs
  <2> HIDE DEF b
  <2>3. CASE b = -1 /\ \A s \in ValidSlots(t) : s <= a
    <3>1. UpTo(t, a) = ValidSlots(t)
      BY <2>3 DEF UpTo
    <3> QED
      BY <1>3, <2>3, <3>1 DEF Seen, b
  <2>4. CASE b \in ValidSlots(t) /\ a < b /\ \A s \in ValidSlots(t) : s <= a \/ b <= s
    <3>1. UpTo(t, b) = UpTo(t, a) \cup {b} /\ b \notin UpTo(t, a)
      <4>1. \A s \in ValidSlots(t) : s <= b <=> s <= a \/ s = b
        BY <1>1, <1>3, <2>4
      <4>2. ~(b <= a)
        BY <1>1, <1>3, <2>4
      <4> QED
        BY <2>4, <4>1, <4>2 DEF UpTo
    <3>2. IsFiniteSet(UpTo(t, a))
      <4>1. UpTo(t, a) \subseteq ValidSlots(t) /\ IsFiniteSet(ValidSlots(t))
        BY ValidFinite DEF UpTo
      <4> QED
        BY <4>1, FS_Subset
    <3>3. Cardinality(UpTo(t, b)) = x + 1 + 1
      BY <1>3, <3>1, <3>2, FS_AddElement
    <3>4. UpTo(t, b) \subseteq ValidSlots(t)
      BY DEF UpTo
    <3> QED
      BY <1>3, <2>4, <3>1, <3>3, <3>4 DEF Seen, b
  <2> QED
    BY <2>2, <2>3, <2>4
<1> QED
  BY <1>2, <1>3 DEF Seen

LEMMA VisitedAll ==
  ASSUME NEW t, NEW n, IsTable(t, n)
  PROVE  Visited(t, Cardinality(ValidSlots(t))) = ValidSlots(t)
<1> DEFINE c == Cardinality(ValidSlots(t))
<1>1. c \in Nat /\ IsFiniteSet(ValidSlots(t))
  BY ValidFinite
<1> HIDE DEF c
<1>2. PICK w : VisitUpTo(w, t, c) /\ Visited(t, c) = {w[m] : m \in 0 .. c} \ {-1}
  BY <1>1, VisitedIs
<1>3. w[0] = NextElement(t, -1) /\ \A x \in 1 .. c : w[x] = NextAfter(t, w[x - 1])
  BY <1>1, <1>2 DEF VisitUpTo
<1> DEFINE Right(x) == Seen({w[m] : m \in 0 .. x}, w[x], t, x)
           bad == {x \in 0 .. c : ~Right(x)}
<1>4. CASE bad # {}
  <2>1. PICK x \in bad : \A y \in bad : x <= y
    <3>1. bad \in SUBSET Nat
      BY <1>1
    <3> HIDE DEF bad
    <3> QED
      BY <1>4, <3>1, LeastExists
  <2>2. x \in 0 .. c /\ ~Seen({w[m] : m \in 0 .. x}, w[x], t, x)
    BY <2>1
  <2>3. CASE x = 0
    <3>1. {w[m] : m \in 0 .. 0} = {w[0]}
      OBVIOUS
    <3>2. Seen({w[0]}, w[0], t, 0)
      BY <1>3, SeenFirst
    <3> QED
      BY <2>2, <2>3, <3>1, <3>2
  <2>4. CASE x # 0
    <3>1. x - 1 \in 0 .. c /\ ~(x <= x - 1) /\ x \in 1 .. c /\ x - 1 \in Nat /\ x - 1 + 1 = x
      BY <1>1, <2>2, <2>4
    <3>2. Seen({w[m] : m \in 0 .. x - 1}, w[x - 1], t, x - 1)
      BY <2>1, <3>1
    <3>3. Seen({w[m] : m \in 0 .. x - 1} \cup {w[x]}, w[x], t, x)
      <4>1. Seen({w[m] : m \in 0 .. x - 1} \cup {NextAfter(t, w[x - 1])}, NextAfter(t, w[x - 1]), t, x - 1 + 1)
        BY <3>1, <3>2, SeenNext
      <4> QED
        BY <1>3, <3>1, <4>1
    <3>4. {w[m] : m \in 0 .. x - 1} \cup {w[x]} = {w[m] : m \in 0 .. x}
      <4>1. 0 .. x = (0 .. x - 1) \cup {x}
        BY <3>1
      <4> QED
        BY <4>1
    <3> QED
      BY <2>2, <3>3, <3>4
  <2> QED
    BY <2>3, <2>4
<1>5. CASE bad = {}
  <2> DEFINE S == {w[m] : m \in 0 .. c}
  <2>1. Seen(S, w[c], t, c)
    <3>1. Right(c)
      <4> HIDE DEF Right
      <4> QED
        BY <1>1, <1>5
    <3> QED
      BY <3>1
  <2> HIDE DEF S
  <2>2. ASSUME w[c] \in ValidSlots(t), Cardinality(UpTo(t, w[c])) = c + 1 PROVE FALSE
    <3>1. UpTo(t, w[c]) \subseteq ValidSlots(t)
      BY DEF UpTo
    <3>2. Cardinality(UpTo(t, w[c])) <= Cardinality(ValidSlots(t))
      BY <1>1, <3>1, FS_Subset
    <3> QED
      BY <1>1, <2>2, <3>2 DEF c
  <2>3. S \subseteq ValidSlots(t) \cup {-1} /\ ValidSlots(t) \subseteq S
    BY <2>1, <2>2 DEF Seen
  <2>4. -1 \notin ValidSlots(t)
    <3>1. \A s \in ValidSlots(t) : s \in Nat
      BY ValidNat
    <3> QED
      BY <3>1
  <2> QED
    BY <1>2, <2>3, <2>4 DEF c, S
<1> QED
  BY <1>4, <1>5
-----------------------------------------------------------------------------
(* The sizes. *)
LEMMA RoundsUp == \A n \in Nat : RoundCapacityUp(n) \in Nat /\ n < RoundCapacityUp(n)
  BY DEF RoundCapacityUp

LEMMA TriggerFits == \A c \in Nat : Trigger(c) \in Nat /\ Trigger(c) <= c
  BY HashAssumption DEF Trigger

LEMMA Grows == \A c \in Nat : /\ (c * GrowthNumer) \div GrowthDenom \in Nat
                              /\ c <= (c * GrowthNumer) \div GrowthDenom
  BY HashAssumption
-----------------------------------------------------------------------------
(* The inductive invariant: every element can be reached from its home, the  *)
(* size counts the elements and leaves a slot vacant, and the copies are     *)
(* those of the byte keys that are in the table.                             *)
TableInv(table, capacity, size, trigger) ==
  /\ Sound(table, capacity)
  /\ size = Cardinality(ValidSlots(table)) /\ size < capacity
  /\ trigger \in Nat /\ trigger <= capacity
HashInv ==
  /\ TableInv(ht_table, ht_capacity, ht_size, ht_trigger)
  /\ ht_copies = DOMAIN Contents(ht_table) \cap KeyOf["ptr"]

LEMMA EmptyTable ==
  ASSUME NEW n \in Nat \ {0}
  PROVE  /\ Sound([j \in 0 .. n - 1 |-> Vacant], n)
         /\ Cardinality(ValidSlots([j \in 0 .. n - 1 |-> Vacant])) = 0
         /\ Contents([j \in 0 .. n - 1 |-> Vacant]) = [k \in {} |-> NoValue]
<1> DEFINE t == [j \in 0 .. n - 1 |-> Vacant]
<1>1. Sound(t, n) /\ ValidSlots(t) = {} /\ Elements(t) = {}
  BY EmptySound
<1> HIDE DEF t
<1>2. Cardinality(ValidSlots(t)) = 0
  BY <1>1, FS_EmptySet
<1>3. Contents(t) = [k \in {} |-> NoValue]
  <2>1. {t[i].key : i \in ValidSlots(t)} = {}
    BY <1>1
  <2> QED
    BY <2>1 DEF Contents
<1> QED
  BY <1>1, <1>2, <1>3 DEF t

Put(t, key, v) == [t EXCEPT ![Search(t, key)] = Element(key, v)]
LEMMA PutCounts ==
  ASSUME NEW t, NEW n, Sound(t, n), NEW key \in HashKey, NEW v \in HashValue,
         NEW u \in 0 .. n - 1, ~t[u].valid
  PROVE  /\ Sound(Put(t, key, v), n)
         /\ Elements(Put(t, key, v)) = {f \in Elements(t) : f.key # key} \cup {Element(key, v)}
         /\ t[Search(t, key)].valid => Cardinality(ValidSlots(Put(t, key, v))) = Cardinality(ValidSlots(t))
         /\ ~t[Search(t, key)].valid =>
              Cardinality(ValidSlots(Put(t, key, v))) = Cardinality(ValidSlots(t)) + 1
<1> DEFINE i == Search(t, key)
           e == Element(key, v)
<1>1. e \in HashElement /\ e.valid /\ e.key = key
  BY ElementTypes
<1>2. i \in 0 .. n - 1
  BY SearchReads
<1>3. /\ Sound(Put(t, key, v), n) /\ ValidSlots(Put(t, key, v)) = ValidSlots(t) \cup {i}
      /\ Elements(Put(t, key, v)) = {f \in Elements(t) : f.key # key} \cup {e}
  <2> HIDE DEF e
  <2>1. LET p == [t EXCEPT ![Search(t, e.key)] = e]
         IN /\ Sound(p, n)
            /\ ValidSlots(p) = ValidSlots(t) \cup {Search(t, e.key)}
            /\ Elements(p) = {f \in Elements(t) : f.key # e.key} \cup {e}
    BY <1>1, PutSound
  <2> QED
    BY <1>1, <2>1 DEF Put, e
<1> HIDE DEF i, e
<1>4. ValidSlots(t) = {s \in 0 .. n - 1 : t[s].valid} /\ IsFiniteSet(ValidSlots(t))
  BY TableSize, ValidFinite DEF Sound
<1>5. CASE t[i].valid
  <2>1. ValidSlots(t) \cup {i} = ValidSlots(t)
    BY <1>2, <1>4, <1>5
  <2> QED
    BY <1>3, <1>5, <2>1 DEF i, e
<1>6. CASE ~t[i].valid
  <2>1. i \notin ValidSlots(t)
    BY <1>4, <1>6
  <2>2. Cardinality(ValidSlots(t) \cup {i}) = Cardinality(ValidSlots(t)) + 1
    BY <1>4, <2>1, FS_AddElement
  <2> QED
    BY <1>3, <1>6, <2>2 DEF i, e
<1> QED
  BY <1>5, <1>6

LEMMA VacantSlot ==
  ASSUME NEW t, NEW n, NEW size, NEW trigger, TableInv(t, n, size, trigger)
  PROVE  \E u \in 0 .. n - 1 : ~t[u].valid
<1>1. IsTable(t, n) /\ Cardinality(ValidSlots(t)) < n
  BY DEF TableInv, Sound
<1>2. Cardinality(ValidSlots(t)) \in Nat /\ n \in Nat
  BY <1>1, ValidFinite DEF IsTable
<1>3. Cardinality(ValidSlots(t)) # n
  BY <1>1, <1>2
<1> QED
  BY <1>1, <1>3, ValidFinite

LEMMA StoreStep ==
  ASSUME HashInv, NEW key \in HashKey, NEW v \in HashValue, Store(key, v)
  PROVE  /\ TableInv(ht_table', ht_capacity', ht_size', ht_trigger')
         /\ Contents(ht_table') = WithKey(Contents(ht_table), key, v)
         /\ ht_out' = v
<1> DEFINE put == Put(ht_table, key, v)
           new == ~ht_table[Search(ht_table, key)].valid
           capacity == RoundCapacityUp((ht_capacity * GrowthNumer) \div GrowthDenom)
<1>1. /\ Sound(ht_table, ht_capacity) /\ ht_size = Cardinality(ValidSlots(ht_table)) /\ ht_size < ht_capacity
      /\ ht_trigger \in Nat /\ ht_trigger <= ht_capacity
  BY DEF HashInv, TableInv
<1>2. PICK u \in 0 .. ht_capacity - 1 : ~ht_table[u].valid
  BY VacantSlot DEF HashInv
<1>3. ht_size \in Nat /\ ht_capacity \in Nat \ {0}
  BY <1>1, ValidFinite DEF Sound, IsTable
<1>4. /\ Sound(put, ht_capacity)
      /\ Elements(put) = {f \in Elements(ht_table) : f.key # key} \cup {Element(key, v)}
      /\ ~new => Cardinality(ValidSlots(put)) = ht_size
      /\ new => Cardinality(ValidSlots(put)) = ht_size + 1
  BY <1>1, <1>2, PutCounts
<1>5. /\ ht_out' = v
      /\ ht_size' = IF new THEN ht_size + 1 ELSE ht_size
      /\ IF new /\ ht_size + 1 >= ht_trigger
         THEN /\ ht_table' = Rehashed(put, capacity)
              /\ ht_capacity' = capacity
              /\ ht_trigger' = Trigger(capacity)
         ELSE ht_table' = put /\ UNCHANGED <<ht_capacity, ht_trigger>>
  BY DEF Store, Put
<1>6. Element(key, v).key = key /\ Element(key, v).value = v
  BY ElementTypes
<1> HIDE DEF put, new, capacity
<1>7. ASSUME NEW p, NEW m, IsTable(p, m), Unique(p, m), Elements(p) = Elements(put)
      PROVE  Contents(p) = WithKey(Contents(ht_table), key, v)
  <2> DEFINE e == Element(key, v)
  <2>1. Elements(p) = {f \in Elements(ht_table) : f.key # e.key} \cup {e}
    BY <1>4, <1>6, <1>7
  <2>2. IsTable(ht_table, ht_capacity) /\ Unique(ht_table, ht_capacity)
    BY <1>1 DEF Sound
  <2> HIDE DEF e
  <2>3. Contents(p) = WithKey(Contents(ht_table), e.key, e.value)
    BY <1>7, <2>1, <2>2, ContentsPut
  <2> QED
    BY <1>6, <2>3 DEF e
<1>8. CASE new /\ ht_size + 1 >= ht_trigger
  <2>1. capacity \in Nat /\ ht_capacity < capacity
    <3>1. /\ (ht_capacity * GrowthNumer) \div GrowthDenom \in Nat
          /\ ht_capacity <= (ht_capacity * GrowthNumer) \div GrowthDenom
      BY <1>3, Grows
    <3> DEFINE g == (ht_capacity * GrowthNumer) \div GrowthDenom
    <3>2. RoundCapacityUp(g) \in Nat /\ g < RoundCapacityUp(g)
      BY <3>1, RoundsUp
    <3>3. capacity = RoundCapacityUp(g)
      BY DEF capacity
    <3> HIDE DEF g
    <3> QED
      BY <1>3, <3>1, <3>2, <3>3 DEF g
  <2>2. /\ Sound(Rehashed(put, capacity), capacity)
        /\ Elements(Rehashed(put, capacity)) = Elements(put)
        /\ Cardinality(ValidSlots(Rehashed(put, capacity))) = Cardinality(ValidSlots(put))
    BY <1>4, <2>1, RehashSound DEF Sound
  <2>3. Trigger(capacity) \in Nat /\ Trigger(capacity) <= capacity
    BY <2>1, TriggerFits
  <2>4. ht_size + 1 < capacity
    BY <1>1, <1>3, <2>1
  <2>5. ht_table' = Rehashed(put, capacity) /\ ht_capacity' = capacity /\ ht_size' = ht_size + 1
        /\ ht_trigger' = Trigger(capacity)
    BY <1>5, <1>8
  <2>6. TableInv(ht_table', ht_capacity', ht_size', ht_trigger')
    BY <1>4, <1>8, <2>2, <2>3, <2>4, <2>5 DEF TableInv
  <2> QED
    BY <1>5, <1>7, <2>2, <2>5, <2>6 DEF Sound
<1>9. CASE ~(new /\ ht_size + 1 >= ht_trigger)
  <2>1. ht_table' = put /\ ht_capacity' = ht_capacity /\ ht_trigger' = ht_trigger
    BY <1>5, <1>9
  <2>2. ht_size' = Cardinality(ValidSlots(put)) /\ ht_size' < ht_capacity
    BY <1>1, <1>3, <1>4, <1>5, <1>9
  <2>3. TableInv(ht_table', ht_capacity', ht_size', ht_trigger')
    BY <1>1, <1>4, <2>1, <2>2 DEF TableInv
  <2> QED
    BY <1>4, <1>5, <1>7, <2>1, <2>3 DEF Sound
<1> QED
  BY <1>8, <1>9

LEMMA DeleteStep ==
  ASSUME HashInv, NEW key \in HashKey, Delete(key)
  PROVE  /\ TableInv(ht_table', ht_capacity', ht_size', ht_trigger')
         /\ Contents(ht_table') = WithoutKey(Contents(ht_table), key)
         /\ ht_out' = IF key \in DOMAIN Contents(ht_table) THEN Contents(ht_table)[key] ELSE NoValue
<1> DEFINE i == Search(ht_table, key)
<1>1. /\ Sound(ht_table, ht_capacity) /\ ht_size = Cardinality(ValidSlots(ht_table)) /\ ht_size < ht_capacity
      /\ ht_trigger \in Nat /\ ht_trigger <= ht_capacity
  BY DEF HashInv, TableInv
<1>2. PICK u \in 0 .. ht_capacity - 1 : ~ht_table[u].valid
  BY VacantSlot DEF HashInv
<1>3. ht_size \in Nat /\ ht_capacity \in Nat \ {0}
  BY <1>1, ValidFinite DEF Sound, IsTable
<1>4. /\ i \in 0 .. ht_capacity - 1
      /\ ht_table[i].valid <=> key \in DOMAIN Contents(ht_table)
      /\ ht_table[i].valid => ht_table[i].value = Contents(ht_table)[key]
      /\ ht_table[i].valid => ht_table[i].key = key
  BY <1>1, <1>2, SearchReads
<1>5. /\ IF ht_table[i].valid
         THEN /\ ht_table' = Reinsert(Emptied(ht_table, i), i)
              /\ ht_size' = ht_size - 1
              /\ ht_out' = ht_table[i].value
         ELSE ht_out' = NoValue /\ UNCHANGED <<ht_table, ht_size>>
      /\ UNCHANGED <<ht_capacity, ht_trigger>>
  BY DEF Delete, Emptied
<1> HIDE DEF i
<1>6. CASE ht_table[i].valid
  <2> DEFINE r == Reinsert(Emptied(ht_table, i), i)
  <2>1. /\ Sound(r, ht_capacity)
        /\ Elements(r) = {e \in Elements(ht_table) : e.key # ht_table[i].key}
        /\ Cardinality(ValidSlots(r)) = Cardinality(ValidSlots(ht_table)) - 1
    BY <1>1, <1>2, <1>4, <1>6, ReinsertSound
  <2>2. ht_table' = r /\ ht_capacity' = ht_capacity /\ ht_size' = ht_size - 1
        /\ ht_trigger' = ht_trigger /\ ht_out' = ht_table[i].value
    BY <1>5, <1>6
  <2> HIDE DEF r
  <2>3. ht_size - 1 < ht_capacity
    BY <1>1, <1>3
  <2>4. TableInv(ht_table', ht_capacity', ht_size', ht_trigger')
    BY <1>1, <2>1, <2>2, <2>3 DEF TableInv
  <2>5. Elements(r) = {e \in Elements(ht_table) : e.key # key}
    BY <1>4, <1>6, <2>1
  <2>6. Contents(r) = WithoutKey(Contents(ht_table), key)
    <3>1. IsTable(ht_table, ht_capacity) /\ Unique(ht_table, ht_capacity) /\ IsTable(r, ht_capacity)
          /\ Unique(r, ht_capacity)
      BY <1>1, <2>1 DEF Sound
    <3> QED
      BY <2>5, <3>1, ContentsCut
  <2> QED
    BY <1>4, <1>6, <2>2, <2>4, <2>6
<1>7. CASE ~ht_table[i].valid
  <2>1. ht_table' = ht_table /\ ht_capacity' = ht_capacity /\ ht_size' = ht_size
        /\ ht_trigger' = ht_trigger /\ ht_out' = NoValue
    BY <1>5, <1>7
  <2>2. Contents(ht_table) = [j \in DOMAIN Contents(ht_table) |-> Contents(ht_table)[j]]
    BY <1>1, ContentsAt DEF Sound
  <2>3. DOMAIN Contents(ht_table) \ {key} = DOMAIN Contents(ht_table)
    BY <1>4, <1>7
  <2> QED
    BY <1>4, <1>7, <2>1, <2>2, <2>3 DEF HashInv, WithoutKey
<1> QED
  BY <1>6, <1>7

LEMMA LookupStep ==
  ASSUME HashInv, NEW key \in HashKey, Lookup(key)
  PROVE  /\ TableInv(ht_table', ht_capacity', ht_size', ht_trigger')
         /\ Contents(ht_table') = Contents(ht_table)
         /\ ht_out' = IF key \in DOMAIN Contents(ht_table) THEN Contents(ht_table)[key] ELSE NoValue
<1> DEFINE i == Search(ht_table, key)
<1>1. Sound(ht_table, ht_capacity)
  BY DEF HashInv, TableInv
<1>2. PICK u \in 0 .. ht_capacity - 1 : ~ht_table[u].valid
  BY VacantSlot DEF HashInv
<1>4. /\ ht_table[i].valid <=> key \in DOMAIN Contents(ht_table)
      /\ ht_table[i].valid => ht_table[i].value = Contents(ht_table)[key]
  BY <1>1, <1>2, SearchReads
<1>5. /\ ht_table' = ht_table /\ ht_capacity' = ht_capacity /\ ht_size' = ht_size
      /\ ht_trigger' = ht_trigger
      /\ ht_out' = IF ht_table[i].valid THEN ht_table[i].value ELSE NoValue
  BY DEF Lookup
<1> QED
  BY <1>4, <1>5 DEF HashInv

LEMMA PtrKeys ==
  /\ \A kind \in {"uint32", "uint64", "ptr"} : KeyOf[kind] \subseteq HashKey
  /\ KeyOf["uint32"] \cap KeyOf["ptr"] = {} /\ KeyOf["uint64"] \cap KeyOf["ptr"] = {}
<1>1. DOMAIN KeyOf = {"uint32", "uint64", "ptr"}
  BY HashAssumption
<1>2. \A kind \in {"uint32", "uint64", "ptr"} : KeyOf[kind] \subseteq HashKey
  BY <1>1 DEF HashKey
<1>3. KeyOf["uint32"] \cap KeyOf["ptr"] = {} /\ KeyOf["uint64"] \cap KeyOf["ptr"] = {}
  <2>1. "uint32" # "ptr" /\ "uint64" # "ptr"
    OBVIOUS
  <2> QED
    BY <1>1, <2>1, HashAssumption
<1> QED
  BY <1>2, <1>3

(* What a step shows a user of the table. *)
MapStep == HashInv' /\ Map!Next

LEMMA GetIsGet ==
  ASSUME HashInv, NEW key \in HashKey, Lookup(key), ht_copies' = ht_copies
  PROVE  MapStep
<1>1. /\ TableInv(ht_table', ht_capacity', ht_size', ht_trigger')
      /\ Contents(ht_table') = Contents(ht_table)
      /\ ht_out' = IF key \in DOMAIN Contents(ht_table) THEN Contents(ht_table)[key] ELSE NoValue
  BY LookupStep
<1>2. ht_copies' = DOMAIN Contents(ht_table') \cap KeyOf["ptr"]
  BY <1>1 DEF HashInv
<1>3. Map!Get(key)
  BY <1>1 DEF Map!Get, Map!Value
<1> QED
  BY <1>1, <1>2, <1>3 DEF MapStep, HashInv, Map!Next

LEMMA SetIsSet ==
  ASSUME HashInv, NEW key \in HashKey, NEW v \in HashValue, Store(key, v),
         ht_copies' = (DOMAIN Contents(ht_table) \cup {key}) \cap KeyOf["ptr"]
  PROVE  MapStep
<1>1. /\ TableInv(ht_table', ht_capacity', ht_size', ht_trigger')
      /\ Contents(ht_table') = WithKey(Contents(ht_table), key, v)
      /\ ht_out' = v
  BY StoreStep
<1>2. DOMAIN Contents(ht_table') = DOMAIN Contents(ht_table) \cup {key}
  BY <1>1 DEF WithKey
<1>3. Map!Set(key, v)
  BY <1>1 DEF Map!Set, WithKey
<1> QED
  BY <1>1, <1>2, <1>3 DEF MapStep, HashInv, Map!Next

LEMMA RemoveIsRemove ==
  ASSUME HashInv, NEW key \in HashKey, Delete(key),
         ht_copies' = (DOMAIN Contents(ht_table) \ {key}) \cap KeyOf["ptr"]
  PROVE  MapStep
<1>1. /\ TableInv(ht_table', ht_capacity', ht_size', ht_trigger')
      /\ Contents(ht_table') = WithoutKey(Contents(ht_table), key)
      /\ ht_out' = IF key \in DOMAIN Contents(ht_table) THEN Contents(ht_table)[key] ELSE NoValue
  BY DeleteStep
<1>2. DOMAIN Contents(ht_table') = DOMAIN Contents(ht_table) \ {key}
  BY <1>1 DEF WithoutKey
<1>3. Map!Remove(key)
  BY <1>1 DEF Map!Remove, Map!Value, WithoutKey
<1> QED
  BY <1>1, <1>2, <1>3 DEF MapStep, HashInv, Map!Next

LEMMA RemoveAllClears ==
  ASSUME HashInv, RemoveAllValues
  PROVE  MapStep
<1>1. /\ Sound(ht_table, ht_capacity) /\ ht_trigger \in Nat /\ ht_trigger <= ht_capacity
  BY DEF HashInv, TableInv
<1>2. ht_capacity \in Nat \ {0} /\ DOMAIN ht_table = 0 .. ht_capacity - 1
  BY <1>1, TableSize DEF Sound, IsTable
<1>3. ht_table' = [j \in 0 .. ht_capacity - 1 |-> Vacant] /\ ht_size' = 0 /\ ht_copies' = {}
      /\ ht_out' = NoValue /\ ht_capacity' = ht_capacity /\ ht_trigger' = ht_trigger
  BY <1>2 DEF RemoveAllValues
<1>4. /\ Sound(ht_table', ht_capacity) /\ Cardinality(ValidSlots(ht_table')) = 0
      /\ Contents(ht_table') = [k \in {} |-> NoValue]
  BY <1>2, <1>3, EmptyTable
<1>5. TableInv(ht_table', ht_capacity', ht_size', ht_trigger')
  BY <1>1, <1>2, <1>3, <1>4 DEF TableInv
<1>6. ht_copies' = DOMAIN Contents(ht_table') \cap KeyOf["ptr"]
  BY <1>3, <1>4
<1>7. Map!Clear
  BY <1>3, <1>4 DEF Map!Clear
<1> QED
  BY <1>5, <1>6, <1>7 DEF MapStep, HashInv, Map!Next

LEMMA HashStep ==
  HashInv /\ [HashNext]_ht_vars => HashInv' /\ [Map!Next]_<<Contents(ht_table), ht_copies, ht_out>>
<1> SUFFICES ASSUME HashInv, [HashNext]_ht_vars
             PROVE  HashInv' /\ [Map!Next]_<<Contents(ht_table), ht_copies, ht_out>>
  OBVIOUS
<1>1. CASE UNCHANGED ht_vars
  BY <1>1 DEF ht_vars, HashInv
<1>2. ht_copies = DOMAIN Contents(ht_table) \cap KeyOf["ptr"]
  BY DEF HashInv
<1>3. PICK u \in 0 .. ht_capacity - 1 : ~ht_table[u].valid
  BY VacantSlot DEF HashInv
<1>4. ASSUME NEW key \in HashKey
      PROVE  ht_table[Search(ht_table, key)].valid <=> key \in DOMAIN Contents(ht_table)
  BY <1>3, SearchReads DEF HashInv, TableInv
<1>5. ASSUME NEW key \in HashKey, GetUint32(key) \/ GetUint64(key) \/ GetPtr(key)
      PROVE  MapStep
  BY <1>5, GetIsGet DEF GetUint32, GetUint64, GetPtr
<1>6. ASSUME NEW key \in HashKey, RemoveUint32(key) \/ RemoveUint64(key)
      PROVE  MapStep
  <2>1. key \notin KeyOf["ptr"]
    BY <1>6, PtrKeys DEF RemoveUint32, RemoveUint64, Using
  <2>2. Delete(key) /\ ht_copies' = ht_copies
    BY <1>6 DEF RemoveUint32, RemoveUint64
  <2>3. ht_copies' = (DOMAIN Contents(ht_table) \ {key}) \cap KeyOf["ptr"]
    BY <1>2, <2>1, <2>2
  <2> QED
    BY <2>2, <2>3, RemoveIsRemove
<1>7. ASSUME NEW key \in HashKey, NEW v \in HashValue, SetUint32(key, v) \/ SetUint64(key, v)
      PROVE  MapStep
  <2>1. key \notin KeyOf["ptr"]
    BY <1>7, PtrKeys DEF SetUint32, SetUint64, Using
  <2>2. Store(key, v) /\ ht_copies' = ht_copies
    BY <1>7 DEF SetUint32, SetUint64
  <2>3. ht_copies' = (DOMAIN Contents(ht_table) \cup {key}) \cap KeyOf["ptr"]
    BY <1>2, <2>1, <2>2
  <2> QED
    BY <2>2, <2>3, SetIsSet
<1>8. ASSUME NEW key \in HashKey, RemovePtr(key)
      PROVE  MapStep
  <2>1. key \in KeyOf["ptr"] /\ Delete(key)
    BY <1>8 DEF RemovePtr, Using
  <2>2. ht_copies' = IF key \in DOMAIN Contents(ht_table) THEN ht_copies \ {key} ELSE ht_copies
    BY <1>4, <1>8 DEF RemovePtr
  <2>3. ht_copies' = (DOMAIN Contents(ht_table) \ {key}) \cap KeyOf["ptr"]
    BY <1>2, <2>2
  <2> QED
    BY <2>1, <2>3, RemoveIsRemove
<1>9. ASSUME NEW key \in HashKey, NEW v \in HashValue, SetPtr(key, v)
      PROVE  MapStep
  <2>1. key \in KeyOf["ptr"] /\ Store(key, v)
    BY <1>9 DEF SetPtr, Using
  <2>2. ht_copies' = IF key \in DOMAIN Contents(ht_table) THEN ht_copies ELSE ht_copies \cup {key}
    BY <1>4, <1>9 DEF SetPtr
  <2>3. ht_copies' = (DOMAIN Contents(ht_table) \cup {key}) \cap KeyOf["ptr"]
    BY <1>2, <2>1, <2>2
  <2> QED
    BY <2>1, <2>3, SetIsSet
<1>10. HashNext => MapStep
  BY <1>5, <1>6, <1>7, <1>8, <1>9, RemoveAllClears DEF HashNext
<1> QED
  BY <1>1, <1>10 DEF MapStep

LEMMA HashInitially == HashInit => HashInv /\ Map!Init
<1> SUFFICES ASSUME HashInit PROVE HashInv /\ Map!Init
  OBVIOUS
<1> DEFINE q == (EstimatedSize * DensityDenom) \div DensityNumer
<1>1. q \in Nat
  BY HashAssumption
<1>2. ht_capacity = RoundCapacityUp(q)
  BY DEF HashInit
<1> HIDE DEF q
<1>3. ht_capacity \in Nat \ {0}
  <2>1. RoundCapacityUp(q) \in Nat /\ q < RoundCapacityUp(q)
    BY <1>1, RoundsUp
  <2> QED
    BY <1>1, <1>2, <2>1
<1>4. /\ ht_table = [i \in 0 .. ht_capacity - 1 |-> Vacant] /\ ht_size = 0
      /\ ht_trigger = Trigger(ht_capacity) /\ ht_copies = {} /\ ht_out = NoValue
  BY DEF HashInit
<1>5. /\ Sound(ht_table, ht_capacity) /\ Cardinality(ValidSlots(ht_table)) = 0
      /\ Contents(ht_table) = [k \in {} |-> NoValue]
  BY <1>3, <1>4, EmptyTable
<1>6. ht_trigger \in Nat /\ ht_trigger <= ht_capacity
  BY <1>3, <1>4, TriggerFits
<1>7. HashInv
  BY <1>3, <1>4, <1>5, <1>6 DEF HashInv, TableInv
<1> QED
  BY <1>4, <1>5, <1>7 DEF Map!Init

LEMMA HashVisits == HashInv => Visited(ht_table, ht_size) = ValidSlots(ht_table)
  BY VisitedAll DEF HashInv, TableInv, Sound

(* To a search the table is the map that its calls describe, a traversal     *)
(* returns every valid slot once and then ends, and the byte keys copied are *)
(* those in the map: after any sequence of calls, of growths and of          *)
(* elements that moved down (ww_hash_table.c:157-265, 283-397, 554-796).     *)
THEOREM HashTableIsMap == HashSpec => TableIsMap
<1>1. HashInit => HashInv /\ Map!Init
  BY HashInitially
<1>2. HashInv /\ [HashNext]_ht_vars => HashInv' /\ [Map!Next]_<<Contents(ht_table), ht_copies, ht_out>>
  BY HashStep
<1>3. HashInv => Visited(ht_table, ht_size) = ValidSlots(ht_table)
  BY HashVisits
<1> QED
  BY <1>1, <1>2, <1>3, PTL DEF HashSpec, TableIsMap, Map!Spec
=============================================================================
