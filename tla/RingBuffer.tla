----------------------------- MODULE RingBuffer -----------------------------
(* ww_ring_buffer_t: a fixed array of pointers, the slot `ring_head` the     *)
(* next push writes, and the slot `ring_tail` of the oldest entry, -1 when   *)
(* there is none.  That the ring is full shows in the slot at the head only. *)
EXTENDS Integers, Sequences
CONSTANTS RingSize, Pointer, NULL
ASSUME RingAssumption == RingSize \in Nat \ {0} /\ NULL \notin Pointer
VARIABLES ring_addr, ring_head, ring_tail,
          ring_ret        \* what the last call returned
ring_vars == <<ring_addr, ring_head, ring_tail, ring_ret>>

Slot == 0 .. RingSize - 1
(* The slot after s, by comparison with the last one rather than modulo. *)
After(s) == IF s = RingSize - 1 THEN 0 ELSE s + 1

(* The constructor, and init with memory for the slots. *)
RingInit ==
  /\ ring_addr = [s \in Slot |-> NULL]
  /\ ring_head = 0
  /\ ring_tail = -1
  /\ ring_ret = NULL

(* A mutant: the tail is not moved on a full ring. *)
RingPush_TailStays(p) ==
  /\ ring_ret' = ring_addr[ring_head]
  /\ ring_addr' = [ring_addr EXCEPT ![ring_head] = p]
  /\ ring_tail' = IF ring_tail < 0 THEN ring_head ELSE ring_tail
  /\ ring_head' = After(ring_head)

(* On a full ring the tail is moved before the entry is overwritten; the     *)
(* comparison is of the tail, the step from the head.                        *)
RingPush(p) ==
  LET full  == ring_addr[ring_head] # NULL
      moved == CASE ~full                                 -> ring_tail
                 [] full /\ ring_tail = RingSize - 1       -> 0
                 [] full /\ ring_tail # RingSize - 1       -> ring_head + 1
  IN /\ ring_ret' = ring_addr[ring_head]
     /\ ring_addr' = [ring_addr EXCEPT ![ring_head] = p]
     /\ ring_tail' = IF moved < 0 THEN ring_head ELSE moved
     /\ ring_head' = After(ring_head)

RingPop ==
  IF ring_tail = -1
  THEN ring_ret' = NULL /\ UNCHANGED <<ring_addr, ring_head, ring_tail>>
  ELSE /\ ring_ret' = ring_addr[ring_tail]
       /\ ring_addr' = [ring_addr EXCEPT ![ring_tail] = NULL]
       /\ ring_tail' = IF After(ring_tail) = ring_head THEN -1 ELSE After(ring_tail)
       /\ UNCHANGED ring_head

(* The index i counts from the oldest entry; a negative one is the newest. *)
RingPoke(i) ==
  /\ ring_ret' =
       IF RingSize <= i \/ ring_tail = -1 THEN NULL
       ELSE IF i < 0
       THEN ring_addr[IF ring_head = 0 THEN RingSize - 1 ELSE ring_head - 1]
       ELSE ring_addr[IF RingSize <= ring_tail + i THEN ring_tail + i - RingSize
                                                   ELSE ring_tail + i]
  /\ UNCHANGED <<ring_addr, ring_head, ring_tail>>

RingNext ==
  \/ RingPop
  \/ \E p \in Pointer : RingPush(p)
  \/ \E i \in -1 .. RingSize : RingPoke(i)
RingSpec == RingInit /\ [][RingNext]_ring_vars
-----------------------------------------------------------------------------
(* The entries from the oldest to the newest. *)
RingCount == IF ring_tail = -1 THEN 0
             ELSE IF ring_tail < ring_head THEN ring_head - ring_tail
             ELSE ring_head - ring_tail + RingSize
(* The k-th slot from the tail on, going round. *)
RingAt(k) == IF RingSize <= ring_tail + k THEN ring_tail + k - RingSize
                                          ELSE ring_tail + k
RingQueue == [k \in 1 .. RingCount |-> ring_addr[RingAt(k - 1)]]

Queue == INSTANCE BoundedQueue WITH
  Entry <- Pointer, Nil <- NULL, Bound <- RingSize,
  queue <- RingQueue, answer <- ring_ret

(* The ring with its slots and two indices is the bounded queue: at every    *)
(* wrap, full or empty, a push displaces the oldest entry and only on a full *)
(* ring, a pop returns the oldest, and poke reads the i-th oldest or the     *)
(* newest and nothing beyond (ww_ring_buffer.c:83-154).                      *)
RingIsQueue == Queue!Spec
=============================================================================
